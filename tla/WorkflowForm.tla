---------------------------- MODULE WorkflowForm ----------------------------
(***************************************************************************)
(* The form in which one workflow is configured and dispatched             *)
(* (internal/app with its panes): which pane has the focus, what is        *)
(* selected, filtered and previewed, the inputs being edited, the modals   *)
(* that ask for them, and the answers on their way back.                   *)
(*                                                                         *)
(* A modal's answer is a command: a goroutine sends it back as a message,  *)
(* which may reach Update after further keys, and while a modal is open    *)
(* every message goes to that modal, where an answer is lost.              *)
(*                                                                         *)
(* Inputs are a Go map.  An answer writes into the map that a dispatch     *)
(* waiting to be confirmed refers to; selecting a workflow or replaying a  *)
(* run makes a new one.                                                    *)
(***************************************************************************)
EXTENDS Rules, Lists, FiniteSets, SequencesExt

CONSTANTS
  Workflows,    \* a sequence of [order, inputs]: names sorted, their definitions
  Texts,        \* what inputs can be given
  Typed,        \* what the user types into a text input
  Branches,     \* the branches offered
  Histories,    \* for each workflow, the lists of past runs its history may show
  Ranking,      \* for each filter text, the names it matches, best first
  BestMatch,    \* for each name no workflow has, the similar name to suggest, or ""
  Keys,         \* the keys the user presses outside of modals
  MaxInFlight   \* bound: messages in flight at a time

ASSUME WorkflowsAssumption ==
  /\ Workflows \in Seq(ToSet(Workflows)) /\ Workflows # <<>>
  /\ \A w \in DOMAIN Workflows :
       /\ Workflows[w].order \in Seq(DOMAIN Workflows[w].inputs)
       /\ \A list \in Histories[w] : list \in Seq(ToSet(list))
  /\ \A text \in DOMAIN Ranking : Ranking[text] \in Seq(ToSet(Ranking[text]))
  /\ MaxInFlight \in Nat \ {0}

Panes == <<"workflows", "history", "config">>
Tabs  == <<"history", "chains", "live">>
All   == 0           \* selectedWorkflow in the row "all" (-1 in the code)
NoInput == 0         \* selectedInput when none is (-1 in the code)

VARIABLES
  focused,           \* focused
  tab,               \* activeTab of the right panel
  viewMode,          \* "list", "input" or "preview"
  selectedWorkflow,  \* an index of Workflows, or All
  inputs,            \* the map of inputs
  inputOrder,        \* the names of the form's inputs, sorted
  filterText,        \* filterText
  filteredInputs,    \* the names that are shown
  selectedInput,     \* an index of filteredInputs, or NoInput
  entries,           \* the runs the history tab lists
  selectedEntry,     \* the history tab's selectedIndex, from 1
  previewing,        \* previewingHistoryEntry: [at, entry]; at: its place in entries,
                     \* 0 if the list was replaced since, -1 for nil
  branch,            \* branch
  pendingInputName,  \* pendingInputName
  modal,             \* the modal on screen
  inFlight,          \* messages on their way, in the order they were sent
  crashed            \* an index was out of range

selection == <<focused, tab, selectedWorkflow, selectedInput, entries, selectedEntry>>
shown     == <<viewMode, inputOrder, filterText, filteredInputs, previewing>>
values    == <<inputs, branch, pendingInputName>>
vars      == <<selection, shown, values, modal, inFlight, crashed>>

NoModal   == [kind |-> "none"]
NoPreview == [at |-> -1, entry |-> [branch |-> "", inputs |-> <<>>]]

InputsOf(w)  == Workflows[w].inputs
Names(w)     == DOMAIN InputsOf(w)
Defaults(w)  == [n \in Names(w) |-> InputsOf(w)[n].default]
ValueOf(map, n) == IF n \in DOMAIN map THEN map[n] ELSE ""

Put(map, n, value) == [k \in DOMAIN map \cup {n} |-> IF k = n THEN value ELSE map[k]]
Drop(map, n)       == [k \in DOMAIN map \ {n} |-> map[k]]

(* FilterByWorkflow and TopForRepo pick the list; SetEntries clamps the     *)
(* selection, but not when the list is empty.                               *)
SetEntries(list) ==
  /\ entries' = list
  /\ selectedEntry' = IF list # <<>> /\ selectedEntry > Len(list) THEN Len(list) ELSE selectedEntry

Init ==
  /\ focused = "workflows" /\ tab = "history" /\ viewMode = "list"
  /\ selectedWorkflow = 1
  /\ inputs = Defaults(1)
  /\ inputOrder = Workflows[1].order /\ filteredInputs = inputOrder
  /\ filterText = "" /\ selectedInput = NoInput
  /\ entries \in Histories[1] /\ selectedEntry = 1
  /\ previewing = NoPreview
  /\ branch \in Branches
  /\ pendingInputName = ""
  /\ modal = NoModal
  /\ inFlight = <<>>
  /\ crashed = FALSE

----------------------------------------------------------------------------
(* Messages in flight *)

(* A message is late once anything else has been handled since it was sent. *)
Overtaken(messages) == [i \in DOMAIN messages |-> [messages[i] EXCEPT !.late = TRUE]]

(* What the handling of a key does to the messages in flight.               *)
KeyPassesBy == inFlight' = Overtaken(inFlight)

(* The bound on messages in flight.                                         *)
Room == Len(inFlight) < MaxInFlight

Running == ~crashed /\ modal = NoModal

----------------------------------------------------------------------------
(* Which key does what *)

Digits == <<"0", "1", "2", "3", "4", "5", "6", "7", "8", "9">>

(* The bindings in the order in which handleGlobalKey, handlePaneKey,       *)
(* handleHistoryPaneKey and handleKeyMsgFallback try them.                  *)
Bindings == <<
  [does |-> "quit",       keys |-> {"q", "ctrl+c"}],
  [does |-> "help",       keys |-> {"?"}],
  [does |-> "escape",     keys |-> {"esc"}],
  [does |-> "next pane",  keys |-> {"tab"}],
  [does |-> "prev pane",  keys |-> {"shift+tab"}],
  [does |-> "up",         keys |-> {"up", "k"}],
  [does |-> "down",       keys |-> {"down", "j"}],
  [does |-> "enter",      keys |-> {"enter"}],
  [does |-> "watch",      keys |-> {"w"}],
  [does |-> "branch",     keys |-> {"b"}],
  [does |-> "live view",  keys |-> {"l"}],
  [does |-> "run chain",  keys |-> {"C"}],
  [does |-> "select",     keys |-> {"space"}],
  [does |-> "edit",       keys |-> {"e"}],
  [does |-> "filter",     keys |-> {"/"}],
  [does |-> "copy",       keys |-> {"c"}],
  [does |-> "reset",      keys |-> {"r"}],
  [does |-> "next tab",   keys |-> {"l", "right"}],
  [does |-> "prev tab",   keys |-> {"h", "left"}],
  [does |-> "clear run",  keys |-> {"d"}],
  [does |-> "clear all",  keys |-> {"D"}],
  [does |-> "remap",      keys |-> {"a"}],
  [does |-> "view logs",  keys |-> {"l"}],
  [does |-> "input",      keys |-> ToSet(Digits)],
  [does |-> "workflow",   keys |-> ToSet(Digits)] >>

(* What a key does: the first binding that has it.  So "l" never moves to   *)
(* the next tab nor shows logs, and no digit selects a workflow.            *)
Does(key) ==
  LET bound == {i \in DOMAIN Bindings : key \in Bindings[i].keys}
  IN  Bindings[CHOOSE i \in bound : \A j \in bound : i <= j].does

Presses == {[key |-> key, does |-> Does(key)] : key \in Keys}

NextPane == [workflows |-> "history", history |-> "config", config |-> "workflows"]
NextTab  == [history |-> "chains", chains |-> "live", live |-> "history"]
Before(next, x) == CHOOSE y \in DOMAIN next : next[y] = x

(* A key is handled by Update itself: no modal is open.                     *)
Key == Running /\ KeyPassesBy

(* A key that finds nothing to do is like "watch", whose flag is left out.   *)
MovesFocus(k) ==
  /\ k.does \in {"next pane", "prev pane", "select", "watch"}
  /\ Key
  /\ focused' = CASE k.does = "next pane" -> NextPane[focused]
                  [] k.does = "prev pane" -> Before(NextPane, focused)
                  [] k.does = "select" /\ focused = "workflows" -> "config"
                  [] OTHER -> focused
  /\ UNCHANGED <<tab, selectedWorkflow, selectedInput, entries, selectedEntry, shown, values,
                 modal, crashed>>

CyclesTabs(k) ==
  /\ focused = "history"
  /\ Key
  /\ \/ k.does = "next tab" /\ tab' = NextTab[tab]
     \/ k.does = "prev tab" /\ tab' = Before(NextTab, tab)
  /\ UNCHANGED <<focused, selectedWorkflow, selectedInput, entries, selectedEntry, shown, values,
                 modal, crashed>>

(* Help, live view and chains open modals that do not touch the form.       *)
OpensOther(k) ==
  /\ \/ k.does \in {"help", "live view", "run chain"}
     \/ k.does = "enter" /\ focused = "history" /\ tab = "chains"
  /\ Key
  /\ modal' = [kind |-> "other"]
  /\ UNCHANGED <<selection, shown, values, crashed>>

HandleEscapeKey(k) ==
  /\ k.does = "escape"
  /\ viewMode # "list"
  /\ Key
  /\ viewMode' = "list"
  /\ selectedInput' = NoInput
  /\ previewing' = NoPreview
  /\ UNCHANGED <<focused, tab, selectedWorkflow, entries, selectedEntry, inputOrder,
                 filterText, filteredInputs, values, modal, crashed>>

----------------------------------------------------------------------------
(* Moving the selection *)

(* A new map: a dispatch that waits to be confirmed keeps the old one.      *)
NewMap(map) ==
  /\ inputs' = map
  /\ inFlight' = [i \in DOMAIN inFlight |->
                    IF inFlight[i].kind = "run"
                    THEN [inFlight[i] EXCEPT !.late = TRUE, !.shared = FALSE]
                    ELSE [inFlight[i] EXCEPT !.late = TRUE]]

(* initializeInputs.  A preview stays where it was, though it is no longer  *)
(* on screen, and belongs to no place in the list any more.                 *)
InitializeInputs(w) ==
  /\ NewMap(Defaults(w))
  /\ inputOrder' = Workflows[w].order
  /\ filteredInputs' = inputOrder'
  /\ filterText' = ""
  /\ selectedInput' = NoInput
  /\ viewMode' = "list"
  /\ previewing' = [previewing EXCEPT !.at = IF @ > 0 THEN 0 ELSE @]
  /\ \E list \in Histories[w] : SetEntries(list)

(* Up from the first workflow selects the row "all", where form and history *)
(* stay those of the workflow that was left.                                *)
SelectsWorkflow(k) ==
  /\ Running
  /\ focused = "workflows"
  /\ \/ k.does = "up" /\ selectedWorkflow > All /\ selectedWorkflow' = selectedWorkflow - 1
     \/ /\ k.does = "down" /\ selectedWorkflow < Len(Workflows)
        /\ selectedWorkflow' = selectedWorkflow + 1
  /\ IF selectedWorkflow' # All THEN InitializeInputs(selectedWorkflow')
     ELSE /\ KeyPassesBy
          /\ UNCHANGED <<inputs, selectedInput, entries, selectedEntry, shown>>
  /\ UNCHANGED <<focused, tab, branch, pendingInputName, modal, crashed>>

SelectsEntry(k) ==
  /\ focused = "history" /\ tab = "history"
  /\ Key
  /\ \/ k.does = "up" /\ selectedEntry > 1 /\ selectedEntry' = selectedEntry - 1
     \/ /\ k.does = "down" /\ selectedEntry < Len(entries)
        /\ selectedEntry' = selectedEntry + 1
  /\ UNCHANGED <<focused, tab, selectedWorkflow, selectedInput, entries, shown, values, modal,
                 crashed>>

(* Mutant of SelectsInput: one row too far.                                 *)
SelectsInputTooFar(k) ==
  /\ focused = "config"
  /\ k.does \in {"up", "down"}
  /\ Key
  /\ selectedInput' =
       IF k.does = "down" /\ selectedInput <= Len(filteredInputs) THEN selectedInput + 1
       ELSE selectedInput
  /\ viewMode' = "input"
  /\ filteredInputs' = IF filterText = "" THEN inputOrder ELSE filteredInputs
  /\ UNCHANGED <<focused, tab, selectedWorkflow, entries, selectedEntry, inputOrder, filterText,
                 previewing, values, modal, crashed>>

(* The first key selects the first input, whether or not there is one.      *)
SelectsInput(k) ==
  /\ focused = "config"
  /\ k.does \in {"up", "down"}
  /\ Key
  /\ selectedInput' =
       CASE selectedInput = NoInput -> 1
         [] k.does = "up" /\ selectedInput > 1 -> selectedInput - 1
         [] k.does = "down" /\ selectedInput # NoInput /\ selectedInput < Len(filteredInputs)
              -> selectedInput + 1
         [] OTHER -> selectedInput
  /\ viewMode' = "input"
  /\ filteredInputs' = IF filterText = "" THEN inputOrder ELSE filteredInputs
  /\ UNCHANGED <<focused, tab, selectedWorkflow, entries, selectedEntry, inputOrder, filterText,
                 previewing, values, modal, crashed>>

----------------------------------------------------------------------------
(* Previewing, replaying and running *)

(* validateAllInputs: the inputs whose values break a rule.                 *)
InvalidInputs(w, map) ==
  {n \in Names(w) : ValidateValue(ValueOf(map, n), ParseValidationComments(InputsOf(w)[n].comments)) # {}}

(* A dispatch to be confirmed.  waived: the invalid inputs the user was     *)
(* shown and passed over; stale: the form may have changed since then.      *)
RunConfirm(w, map, ref, waived, stale) ==
  [kind |-> "run", workflow |-> w, inputs |-> map, branch |-> ref, waived |-> waived,
   stale |-> stale]

(* executeWorkflow *)
ExecuteWorkflow(map, ref) ==
  modal' = IF selectedWorkflow = All THEN NoModal
           ELSE LET invalid == InvalidInputs(selectedWorkflow, map)
                IN  IF invalid # {} THEN [kind |-> "validation", invalid |-> invalid]
                    ELSE RunConfirm(selectedWorkflow, map, ref, {}, FALSE)

EnterInConfig(k) ==
  /\ k.does = "enter" /\ focused = "config"
  /\ Key
  /\ ExecuteWorkflow(inputs, branch)
  /\ UNCHANGED <<selection, shown, values, crashed>>

EnterInHistory(k) ==
  /\ Running
  /\ k.does = "enter" /\ focused = "history" /\ tab = "history"
  /\ selectedEntry <= Len(entries)

PreviewsEntry(k) ==
  /\ EnterInHistory(k)
  /\ KeyPassesBy
  /\ viewMode # "preview"
  /\ viewMode' = "preview"
  /\ previewing' = [at |-> selectedEntry, entry |-> entries[selectedEntry]]
  /\ UNCHANGED <<selection, inputOrder, filterText, filteredInputs, values, modal, crashed>>

(* Mutant of ReplaysEntry: a run that was started once needs no check.      *)
ReplaysEntryUnchecked(k) ==
  /\ EnterInHistory(k)
  /\ viewMode = "preview" /\ selectedWorkflow # All
  /\ NewMap(entries[selectedEntry].inputs)
  /\ branch' = entries[selectedEntry].branch
  /\ viewMode' = "list"
  /\ previewing' = NoPreview
  /\ modal' = RunConfirm(selectedWorkflow, inputs', branch', {}, FALSE)
  /\ UNCHANGED <<selection, inputOrder, filterText, filteredInputs, pendingInputName, crashed>>

(* What is replayed is the entry that is selected by now.                   *)
ReplaysEntry(k) ==
  /\ EnterInHistory(k)
  /\ viewMode = "preview"
  /\ NewMap(entries[selectedEntry].inputs)
  /\ branch' = entries[selectedEntry].branch
  /\ viewMode' = "list"
  /\ previewing' = NoPreview
  /\ ExecuteWorkflow(inputs', branch')
  /\ UNCHANGED <<selection, inputOrder, filterText, filteredInputs, pendingInputName, crashed>>

----------------------------------------------------------------------------
(* Opening the modals that ask *)

(* Only the upper bound of selectedWorkflow is checked before it indexes    *)
(* the workflows: in the row "all" the program ends with a panic.           *)
Indexed == selectedWorkflow # All

Panics ==
  /\ ~Indexed
  /\ crashed' = TRUE
  /\ UNCHANGED <<values, modal>>

(* Mutant of OpenInputModal: a pending name is kept.                        *)
OpenInputModalKeepsPending(name) ==
  /\ Indexed
  /\ name \in Names(selectedWorkflow)
  /\ pendingInputName' = IF pendingInputName = "" THEN name ELSE pendingInputName
  /\ modal' = [kind |-> "input", name |-> name]
  /\ UNCHANGED <<inputs, branch, crashed>>

(* openInputModalForName *)
OpenInputModal(name) ==
  \/ Panics
  \/ /\ Indexed
     /\ IF name \in Names(selectedWorkflow)
        THEN pendingInputName' = name /\ modal' = [kind |-> "input", name |-> name]
        ELSE UNCHANGED <<pendingInputName, modal>>
     /\ UNCHANGED <<inputs, branch, crashed>>

(* openInputModalFiltered, for a position counted from 1 *)
OpenInputModalFiltered(position) ==
  /\ position <= Len(filteredInputs)
  /\ OpenInputModal(filteredInputs[position])

EditsInput(k) ==
  /\ Key
  /\ \/ k.does = "edit" /\ viewMode = "input" /\ selectedInput # NoInput
        /\ OpenInputModalFiltered(selectedInput)
     \/ k.does = "input" /\ focused = "config"
        /\ \E i \in DOMAIN Digits : Digits[i] = k.key /\ OpenInputModalFiltered(i)
  /\ UNCHANGED <<selection, shown>>

(* The reset modal lists what differs from its default.                     *)
Diffs ==
  {i \in DOMAIN inputOrder : ValueOf(inputs, inputOrder[i])
                               # InputsOf(selectedWorkflow)[inputOrder[i]].default}

ConfigPaneAction(k) ==
  /\ focused = "config"
  /\ Key
  /\ \/ /\ k.does = "filter"
        /\ modal' = [kind |-> "filter"]
        /\ UNCHANGED <<values, crashed>>
     \/ /\ k.does = "copy"
        /\ Panics
     \/ /\ k.does = "reset"
        /\ \/ Panics
           \/ /\ Indexed
              /\ modal' = [kind |-> "reset", empty |-> Diffs = {}]
              /\ UNCHANGED <<values, crashed>>
  /\ UNCHANGED <<selection, shown>>

OpenBranchModal(k) ==
  /\ k.does = "branch"
  /\ Key
  /\ modal' = [kind |-> "branch"]
  /\ UNCHANGED <<selection, shown, values, crashed>>

(* ValidateHistoryConfig: an input that is gone, with a similar name to map *)
(* it to, or a choice that no longer has the value; there the suggestion is *)
(* the default value.                                                       *)
ConfigErrors(w, map) ==
  {[name |-> n, suggestion |-> BestMatch[n]] : n \in DOMAIN map \ Names(w)}
  \cup {[name |-> n, suggestion |-> InputsOf(w)[n].default] :
         n \in {m \in DOMAIN map \cap Names(w) :
                  /\ InputsOf(w)[m].type = "choice"
                  /\ InputsOf(w)[m].options # {}
                  /\ map[m] \notin InputsOf(w)[m].options}}

OpenRemapModal(k) ==
  /\ k.does = "remap"
  /\ viewMode = "preview" /\ previewing # NoPreview
  /\ selectedWorkflow # All
  /\ ConfigErrors(selectedWorkflow, previewing.entry.inputs) # {}
  /\ Key
  /\ modal' = [kind |-> "remap", decisions |-> <<>>,
                errors |-> ConfigErrors(selectedWorkflow, previewing.entry.inputs)]
  /\ UNCHANGED <<selection, shown, values, crashed>>

----------------------------------------------------------------------------
(* Answers given in a modal *)

On(kind) == ~crashed /\ modal.kind = kind

Close(next) ==
  /\ modal' = next
  /\ UNCHANGED <<selection, shown, values, crashed>>

CloseAndSend(msg) ==
  /\ Room
  /\ inFlight' = Append(Overtaken(inFlight), msg)
  /\ Close(NoModal)

(* A modal is left without an answer, or with one that says no: a message   *)
(* whose handler returns at once is not kept.                               *)
CloseModal ==
  /\ ~crashed /\ modal # NoModal
  /\ KeyPassesBy
  /\ Close(NoModal)

(* What the modal for an input of this type can answer: InputModal any text *)
(* (after a warning, if it breaks a rule), SelectModal an option,           *)
(* ConfirmModal yes or no.                                                  *)
Answers(input) ==
  CASE input.type = "boolean" -> {"true", "false"}
    [] input.type = "choice" -> IF input.options = {} THEN {""} ELSE input.options
    [] OTHER -> Typed

(* A run of the history: its branch need not be offered any more.           *)
Refs == Branches \cup {""} \cup
  UNION {{list[i].branch : i \in DOMAIN list} : list \in UNION {Histories[w] : w \in DOMAIN Workflows}}

(* Texts are what inputs start with, are given, and were given before.      *)
ASSUME TextsAssumption ==
  /\ "" \in Texts
  /\ \A w \in DOMAIN Workflows :
       /\ \A n \in Names(w) : InputsOf(w)[n].default \in Texts /\ Answers(InputsOf(w)[n]) \subseteq Texts
       /\ \A list \in Histories[w] : \A i \in DOMAIN list :
            /\ {"branch", "inputs"} \subseteq DOMAIN list[i]
            /\ list[i].inputs \in [DOMAIN list[i].inputs -> Texts]

(* asked: the input the modal was opened for, which the message leaves out. *)
AnswerInput ==
  /\ On("input")
  /\ \E value \in Answers(InputsOf(selectedWorkflow)[modal.name]) :
       CloseAndSend([kind |-> "answer", value |-> value, asked |-> modal.name, late |-> FALSE])

AnswerBranch ==
  /\ On("branch")
  /\ \E ref \in Branches \cup {branch, ""} :
       CloseAndSend([kind |-> "branch", branch |-> ref, late |-> FALSE])

AnswerFilter ==
  /\ On("filter")
  /\ \E text \in DOMAIN Ranking :
       CloseAndSend([kind |-> "filter", text |-> text, late |-> FALSE])

AnswerReset ==
  /\ On("reset")
  /\ ~modal.empty
  /\ CloseAndSend([kind |-> "reset", late |-> FALSE])

(* Continue in spite of the errors; any other key only closes the modal.    *)
Override ==
  /\ On("validation")
  /\ CloseAndSend([kind |-> "override", waived |-> modal.invalid, late |-> FALSE])

AnswerRunConfirm ==
  /\ On("run")
  /\ CloseAndSend([kind |-> "run", config |-> modal, shared |-> TRUE, late |-> FALSE])

(* What the wizard offers for an error.                                     *)
RemapOptions(error) ==
  {[action |-> "drop"], [action |-> "keep"]}
  \cup {[action |-> "map", to |-> n] :
         n \in ({error.suggestion} \cup (Names(selectedWorkflow) \ {error.name})) \ {""}}

(* One decision for each error, in the order of a Go map; the last one      *)
(* sends them all.                                                          *)
SelectOption ==
  /\ On("remap")
  /\ \E error \in modal.errors : \E option \in RemapOptions(error) :
       LET decisions == Append(modal.decisions, option @@ [name |-> error.name])
           rest == modal.errors \ {error}
       IN  IF rest = {} THEN CloseAndSend([kind |-> "remap", decisions |-> decisions, late |-> FALSE])
           ELSE KeyPassesBy /\ Close([modal EXCEPT !.decisions = decisions, !.errors = rest])

----------------------------------------------------------------------------
(* Answers that reach Update *)

(* With a modal open, a message goes there and is lost.                     *)
LosesMessage(i) ==
  /\ ~crashed /\ modal # NoModal
  /\ inFlight' = Overtaken(RemoveAt(inFlight, i))
  /\ UNCHANGED <<selection, shown, values, modal, crashed>>

Rest(i) == Overtaken(RemoveAt(inFlight, i))

Handles(i, kind) == Running /\ inFlight[i].kind = kind

(* A write into the map of inputs, which dispatches in flight share.        *)
WriteInputs(i, map) ==
  /\ inputs' = map
  /\ inFlight' = [j \in DOMAIN Rest(i) |->
                    IF Rest(i)[j].kind = "run" /\ Rest(i)[j].shared
                    THEN [Rest(i)[j] EXCEPT !.config.inputs = map]
                    ELSE Rest(i)[j]]

(* handleInputResult, handleSelectResult and handleConfirmResult            *)
HandleAnswer(i) ==
  /\ Handles(i, "answer")
  /\ IF pendingInputName # "" THEN WriteInputs(i, Put(inputs, pendingInputName, inFlight[i].value))
     ELSE inFlight' = Rest(i) /\ UNCHANGED inputs
  /\ pendingInputName' = ""
  /\ UNCHANGED <<selection, shown, branch, modal, crashed>>

HandleBranchResult(i) ==
  /\ Handles(i, "branch")
  /\ branch' = inFlight[i].branch
  /\ inFlight' = Rest(i)
  /\ UNCHANGED <<selection, shown, inputs, pendingInputName, modal, crashed>>

(* ApplyFuzzyFilter: everything in its order, or the matches by their rank. *)
ApplyFuzzyFilter(text, names) ==
  IF text = "" THEN names ELSE Only(Ranking[text], ToSet(names))

HandleFilterResult(i) ==
  /\ Handles(i, "filter")
  /\ inFlight' = Rest(i)
  /\ filterText' = inFlight[i].text
  /\ filteredInputs' = ApplyFuzzyFilter(inFlight[i].text, inputOrder)
  /\ selectedInput' = NoInput
  /\ viewMode' = "list"
  /\ UNCHANGED <<focused, tab, selectedWorkflow, entries, selectedEntry, inputOrder, previewing,
                 values, modal, crashed>>

(* resetAllInputs: every input of the workflow, in the same map.            *)
AllReset(map, w) ==
  [n \in DOMAIN map \cup Names(w) |-> IF n \in Names(w) THEN InputsOf(w)[n].default ELSE map[n]]

HandleResetResult(i) ==
  /\ Handles(i, "reset")
  /\ \/ /\ Indexed
        /\ WriteInputs(i, AllReset(inputs, selectedWorkflow))
        /\ UNCHANGED crashed
     \/ ~Indexed /\ crashed' = TRUE /\ inFlight' = Rest(i) /\ UNCHANGED inputs
  /\ UNCHANGED <<selection, shown, branch, pendingInputName, modal>>

(* handleRemapResult.  A value mapped to a name replaces the one it had.    *)
Decide(map, decision) ==
  CASE decision.action = "drop" -> Drop(map, decision.name)
    [] decision.action = "map" /\ decision.name \in DOMAIN map
         -> Put(Drop(map, decision.name), decision.to, map[decision.name])
    [] OTHER -> map

Decided(map, decisions) ==
  LET after[n \in 0..Len(decisions)] ==
        IF n = 0 THEN map ELSE Decide(after[n - 1], decisions[n])
  IN  after[Len(decisions)]

(* Mutant of HandleRemapResult: the preview is a copy.                      *)
HandleRemapResultCopies(i) ==
  /\ Handles(i, "remap")
  /\ inFlight' = Rest(i)
  /\ previewing' = [previewing EXCEPT !.entry.inputs =
                      Decided(previewing.entry.inputs, inFlight[i].decisions)]
  /\ UNCHANGED <<selection, viewMode, inputOrder, filterText, filteredInputs, values, modal,
                 crashed>>

(* An answer that comes late may find no preview, or one of a list that is  *)
(* gone.                                                                    *)
HandleRemapResult(i) ==
  /\ Handles(i, "remap")
  /\ inFlight' = Rest(i)
  /\ IF previewing = NoPreview THEN UNCHANGED <<previewing, entries>>
     ELSE LET remapped == Decided(previewing.entry.inputs, inFlight[i].decisions)
          IN  /\ previewing' = [previewing EXCEPT !.entry.inputs = remapped]
              /\ entries' = IF previewing.at < 1 THEN entries
                            ELSE [entries EXCEPT ![previewing.at].inputs = remapped]
  /\ UNCHANGED <<focused, tab, selectedWorkflow, selectedInput, selectedEntry, viewMode,
                 inputOrder, filterText, filteredInputs, values, modal, crashed>>

(* The errors are passed over: the form as it is now is to be confirmed.    *)
HandleValidationErrorResult(i) ==
  /\ Handles(i, "override")
  /\ modal' = IF selectedWorkflow = All THEN NoModal
              ELSE RunConfirm(selectedWorkflow, inputs, branch, inFlight[i].waived, inFlight[i].late)
  /\ inFlight' = Rest(i)
  /\ UNCHANGED <<selection, shown, values, crashed>>

(* doExecuteWorkflow records the run, which HistoryStore models, and starts *)
(* gh with the configuration of the message; the form stays as it is.       *)
HandleRunConfirmResult(i) ==
  /\ Handles(i, "run")
  /\ inFlight' = Rest(i)
  /\ UNCHANGED <<selection, shown, values, modal, crashed>>

----------------------------------------------------------------------------
PressKey(k) ==
  \/ MovesFocus(k) \/ CyclesTabs(k) \/ OpensOther(k) \/ HandleEscapeKey(k)
  \/ SelectsWorkflow(k) \/ SelectsEntry(k) \/ SelectsInput(k)
  \/ EnterInConfig(k) \/ PreviewsEntry(k) \/ ReplaysEntry(k)
  \/ EditsInput(k) \/ ConfigPaneAction(k) \/ OpenBranchModal(k) \/ OpenRemapModal(k)

AnswerModal ==
  \/ CloseModal \/ AnswerInput \/ AnswerBranch \/ AnswerFilter \/ AnswerReset
  \/ Override \/ AnswerRunConfirm \/ SelectOption

HandleMessage(i) ==
  \/ LosesMessage(i) \/ HandleAnswer(i) \/ HandleBranchResult(i) \/ HandleFilterResult(i)
  \/ HandleResetResult(i) \/ HandleRemapResult(i) \/ HandleValidationErrorResult(i)
  \/ HandleRunConfirmResult(i)

Next ==
  \/ \E k \in Presses : PressKey(k)
  \/ AnswerModal
  \/ \E i \in DOMAIN inFlight : HandleMessage(i)

Spec == Init /\ [][Next]_vars

----------------------------------------------------------------------------
(* Properties *)

Sent == ToSet(inFlight)

(* What the variables of the form hold: sizes, indices and kinds.  Where    *)
(* the filter leaves no input, the first one is selected all the same.      *)
TypeOK ==
  /\ focused \in DOMAIN NextPane /\ tab \in DOMAIN NextTab
  /\ viewMode \in {"list", "input", "preview"}
  /\ selectedWorkflow \in All..Len(Workflows)
  /\ inputs \in [DOMAIN inputs -> Texts]
  /\ ToSet(filteredInputs) \subseteq ToSet(inputOrder)
  /\ selectedInput \in NoInput..(IF filteredInputs = <<>> THEN 1 ELSE Len(filteredInputs))
  /\ selectedEntry \in Nat \ {0}
  /\ previewing.at \in -1..Len(entries)
  /\ branch \in Refs
  /\ Len(inFlight) <= MaxInFlight
  /\ crashed \in BOOLEAN

(* An answer does not say which input it is for.  It meets the input it was *)
(* given for all the same, whatever was opened, cancelled or lost before,   *)
(* unless it is overtaken.                                                  *)
AnswersMeetTheirQuestion ==
  \A msg \in Sent : msg.kind = "answer" /\ ~msg.late => msg.asked = pendingInputName

(* No dispatch is put to the user, nor sent on, whose inputs break a rule   *)
(* the user was not shown broken: not when a run is replayed or remapped,   *)
(* when errors are passed over, or when the map is edited after it was      *)
(* handed to the dispatch; unless one of the messages involved is overtaken.*)
Waived(config) ==
  config.stale \/ InvalidInputs(config.workflow, config.inputs) \subseteq config.waived

RunsAreValidated ==
  /\ modal.kind = "run" => Waived(modal)
  /\ \A msg \in Sent : msg.kind = "run" /\ ~msg.late => Waived(msg.config)

(* What the preview shows is a run in the list, as it is there by now:      *)
(* lists replaced meanwhile and late answers of the remap wizard, which     *)
(* edits the run in place, never leave the preview of a run that is not     *)
(* listed, or not listed like that.  (A replay starts the entry selected,   *)
(* which may be another one.)                                               *)
PreviewIsListed ==
  viewMode = "preview" =>
    previewing.at \in DOMAIN entries /\ previewing.entry = entries[previewing.at]

=============================================================================
