---------------------------- MODULE AnswerModals ----------------------------
(***************************************************************************)
(* The modals that ask the user for something (internal/ui/modal), from    *)
(* the moment one is opened until it is done, with what it answers.        *)
(*                                                                         *)
(* A modal is new each time it is opened; done, it is taken off the stack. *)
(* Lists count from 1 here.  Of a text input only the text matters, and a  *)
(* key may leave it as it was.                                             *)
(***************************************************************************)
EXTENDS Rules, Lists, FiniteSets, SequencesExt

CONSTANTS
  Texts,      \* what can stand in a text input
  FirstTexts, \* those that consist of one printable character
  Ranking,    \* for each text, the names it matches fuzzily, best first
  Inputs,     \* inputs asked for: [type, options, default, current, rules]
  SelectForms,\* choices asked for: [options, default, current]
  FilterItems,\* the names a filter is shown with
  BranchForms,\* branches asked for: [branches, current, default, height]
  LiveRuns,   \* the lists of watched runs
  ErrorCounts,\* how many inputs may have validation errors
  Variables   \* the variables chains ask for: sequences of
              \* [name, type, options, default, required]

(* A chain without variables has no modal for them, and there is room for a *)
(* branch in any terminal.                                                  *)
ASSUME FormsAssumption ==
  /\ \A text \in Texts \cup FirstTexts : Ranking[text] \in Seq(ToSet(Ranking[text]))
  /\ \A choice \in SelectForms : choice.options \in Seq(ToSet(choice.options))
  /\ \A form \in BranchForms :
       form.branches \in Seq(ToSet(form.branches)) /\ form.height \in Nat \ {0}
  /\ \A list \in LiveRuns : list \in Seq(ToSet(list))
  /\ \A list \in Variables : list \in Seq(ToSet(list)) /\ list # <<>>
  /\ ErrorCounts \subseteq Nat

VARIABLES
  modal,   \* the modal on the stack
  answer   \* the message it sent

modalVars == <<modal, answer>>

NoModal  == [kind |-> "none"]
NoAnswer == [kind |-> "none"]

On(kind) == modal.kind = kind

Stays(m) == modal' = m /\ UNCHANGED answer
Answers(msg) == modal' = NoModal /\ answer' = msg
Leaves == modal' = NoModal /\ UNCHANGED answer

(* Where a value is in a list, or the first place.  If it is there twice,   *)
(* the last counts.                                                         *)
Place(value, list) ==
  IF value \in ToSet(list)
  THEN CHOOSE i \in DOMAIN list : list[i] = value /\ \A j \in (i + 1)..Len(list) : list[j] # value
  ELSE 1

(* Mutant of Moves: down goes one too far.                                  *)
MovesTooFar(size) ==
  \/ modal.selected > 1 /\ Stays([modal EXCEPT !.selected = @ - 1])
  \/ modal.selected <= size /\ Stays([modal EXCEPT !.selected = @ + 1])

(* Up and down in a list. *)
Moves(size) ==
  \/ modal.selected > 1 /\ Stays([modal EXCEPT !.selected = @ - 1])
  \/ modal.selected < size /\ Stays([modal EXCEPT !.selected = @ + 1])

----------------------------------------------------------------------------
(* InputModal *)

NewInputModal(input) ==
  [kind |-> "input", asks |-> input, text |-> input.current, validationErr |-> {}]

(* validate: a value that is not among the options, or else the rules it    *)
(* breaks.  Where there is something to say, hasError is set with it.       *)
Validate(input, text) ==
  IF input.type = "choice" /\ input.options # {} /\ text \notin input.options \cup {""}
  THEN {"option"}
  ELSE ValidateValue(text, input.rules)

(* Mutant of EditInput: what was said of the old text stays.                *)
EditInputKeepsError ==
  /\ On("input")
  /\ \E text \in Texts : Stays([modal EXCEPT !.text = text])

EditInput ==
  /\ On("input")
  /\ \E text \in Texts :
       Stays([modal EXCEPT !.text = text, !.validationErr = IF text = modal.text THEN @ ELSE {}])

RestoreInput ==
  /\ On("input")
  /\ Stays([modal EXCEPT !.text = modal.asks.default, !.validationErr = {}])

(* Enter warns once, and takes the value the second time.                   *)
EnterInput ==
  /\ On("input")
  /\ LET err == Validate(modal.asks, modal.text)
     IN  IF err # {} /\ modal.validationErr = {} THEN Stays([modal EXCEPT !.validationErr = err])
         ELSE Answers([kind |-> "input", value |-> modal.text])

EscapeInput ==
  /\ On("input")
  /\ IF modal.validationErr # {} THEN Stays([modal EXCEPT !.validationErr = {}]) ELSE Leaves

----------------------------------------------------------------------------
(* SelectModal and ConfirmModal *)

NewSelectModal(choice) ==
  [kind |-> "select", options |-> choice.options, defaultIdx |-> Place(choice.default, choice.options),
   selected |-> Place(choice.current, choice.options)]

AnswerSelect ==
  /\ On("select")
  /\ \/ Moves(Len(modal.options))
     \/ Stays([modal EXCEPT !.selected = modal.defaultIdx])
     \/ Answers([kind |-> "select",
                 value |-> IF modal.selected \in DOMAIN modal.options
                           THEN modal.options[modal.selected] ELSE ""])
     \/ Leaves

NewConfirmModal(current, default) ==
  [kind |-> "confirm", default |-> default, selected |-> current]

(* Left is yes and right is no, wherever the cursor was.                    *)
AnswerConfirm ==
  /\ On("confirm")
  /\ \/ \E yes \in BOOLEAN : \/ Stays([modal EXCEPT !.selected = yes])
                             \/ Answers([kind |-> "confirm", value |-> yes])
     \/ Stays([modal EXCEPT !.selected = modal.default])
     \/ Answers([kind |-> "confirm", value |-> modal.selected])
     \/ Leaves

----------------------------------------------------------------------------
(* FilterModal *)

(* Everything in its order, or the matches by their rank.                   *)
ApplyFuzzyFilter(text, names) ==
  IF text = "" THEN names ELSE Only(Ranking[text], ToSet(names))

NewFilterModal(items) == [kind |-> "filter", items |-> items, text |-> "", matches |-> items]

AnswerFilter ==
  /\ On("filter")
  /\ \/ \E text \in Texts :
          Stays([modal EXCEPT !.text = text, !.matches = ApplyFuzzyFilter(text, modal.items)])
     \/ Answers([kind |-> "filter", value |-> modal.text, canceled |-> FALSE])
     \/ Answers([kind |-> "filter", value |-> "", canceled |-> TRUE])

----------------------------------------------------------------------------
(* SimpleBranchModal *)

(* _pinBranches: the current branch first, then the default, then the rest. *)
PinBranches(form) ==
  LET pinned == Only(IF form.default = form.current THEN <<form.current>>
                     ELSE <<form.current, form.default>>, {form.current, form.default} \ {""})
  IN  pinned \o Only(form.branches, ToSet(form.branches) \ ToSet(pinned))

(* The current branch is selected: it is pinned first.                      *)
NewSimpleBranchModal(form) ==
  [kind |-> "branch", form |-> form, filtered |-> PinBranches(form), text |-> "",
   filtering |-> FALSE, selected |-> 1, top |-> 1]

(* applyFilter: a cursor within the new list stays at its place, wherever   *)
(* the list is scrolled to.  A filter looks at the branches unpinned.       *)
Filtered(m, text) ==
  LET found == ApplyFuzzyFilter(text, m.form.branches)
  IN  IF text = ""
      THEN [m EXCEPT !.text = "", !.filtered = PinBranches(m.form), !.selected = 1, !.top = 1]
      ELSE [m EXCEPT !.text = text, !.filtered = found, !.top = 1,
                     !.selected = IF @ > Len(found) THEN 1 ELSE @]

(* adjustScroll: the first branch in view, once the cursor has moved.       *)
Scrolled(first, selected, height) ==
  IF selected < first THEN selected
  ELSE IF selected >= first + height THEN selected - height + 1
  ELSE first

TypeInFilter ==
  /\ On("branch") /\ modal.filtering
  /\ \E text \in Texts : Stays(Filtered(modal, text))

EnterInFilter ==
  /\ On("branch") /\ modal.filtering
  /\ Stays([modal EXCEPT !.filtering = FALSE])

EscapeInFilter ==
  /\ On("branch") /\ modal.filtering
  /\ Stays(IF modal.text = "" THEN [modal EXCEPT !.filtering = FALSE] ELSE Filtered(modal, ""))

(* Any printable character that is not a key of the list starts a filter,   *)
(* with nothing else in it.                                                 *)
StartFilter ==
  /\ On("branch") /\ ~modal.filtering
  /\ \E text \in FirstTexts : Stays([Filtered(modal, text) EXCEPT !.filtering = TRUE])

NavigateBranches ==
  /\ On("branch") /\ ~modal.filtering
  /\ \E to \in {modal.selected - 1, modal.selected + 1} \cap DOMAIN modal.filtered :
       Stays([modal EXCEPT !.selected = to, !.top = Scrolled(@, to, modal.form.height)])

AnswerBranch ==
  /\ On("branch") /\ ~modal.filtering
  /\ \/ Answers([kind |-> "branch",
                 value |-> IF modal.selected \in DOMAIN modal.filtered
                           THEN modal.filtered[modal.selected] ELSE ""])
     \/ Leaves

----------------------------------------------------------------------------
(* ChainVariableModal *)

NewChainVariableModal(variables) ==
  [kind |-> "variables", asks |-> variables, selected |-> 1, editing |-> FALSE, text |-> "",
   values |-> [n \in {variables[i].name : i \in DOMAIN variables} |->
                 variables[CHOOSE i \in DOMAIN variables :
                             /\ variables[i].name = n
                             /\ \A j \in (i + 1)..Len(variables) : variables[j].name # n].default]]

Current == modal.asks[modal.selected]

Missing(m) == {i \in DOMAIN m.asks : m.asks[i].required /\ m.values[m.asks[i].name] = ""}

Given(value) == [modal EXCEPT !.values[Current.name] = value, !.editing = FALSE]

(* cycleOption, from the first place the value has among the options.       *)
Cycled(delta) ==
  LET options == Current.options
      value   == modal.values[Current.name]
      at == IF value \in ToSet(options)
            THEN CHOOSE i \in DOMAIN options : options[i] = value /\ \A j \in 1..(i - 1) : options[j] # value
            ELSE 1
  IN  IF options = <<>> THEN value ELSE options[((at - 1 + delta + Len(options)) % Len(options)) + 1]

Toggled == IF modal.values[Current.name] = "true" THEN "false" ELSE "true"

(* advanceOrConfirm and tryConfirm: the last variable sends them all, or,   *)
(* when one is missing, leaves the modal as it is.                          *)
AdvanceOrConfirm(m) ==
  IF m.selected < Len(m.asks) THEN Stays([m EXCEPT !.selected = @ + 1])
  ELSE IF Missing(m) # {} THEN Stays(m)
  ELSE Answers([kind |-> "variables", canceled |-> FALSE, values |-> m.values])

Navigating == On("variables") /\ ~modal.editing

SelectVariable == Navigating /\ Moves(Len(modal.asks))

ChangeVariable ==
  /\ Navigating
  /\ \/ Stays(Given(Current.default))
     \/ Current.type = "boolean" /\ Stays(Given(Toggled))
     \/ Current.type = "choice" /\ \E delta \in {1, -1} : Stays(Given(Cycled(delta)))

(* Edit and Enter: a boolean is toggled and a choice cycled, and with the   *)
(* last variable that is what is sent.                                      *)
EditOrConfirm ==
  /\ Navigating
  /\ CASE Current.type = "boolean" -> AdvanceOrConfirm(Given(Toggled))
       [] Current.type = "choice"  -> AdvanceOrConfirm(Given(Cycled(1)))
       [] OTHER -> Stays([modal EXCEPT !.editing = TRUE, !.text = modal.values[Current.name]])

EditVariable ==
  /\ On("variables") /\ modal.editing
  /\ \/ \E text \in Texts : Stays([modal EXCEPT !.text = text])
     \/ AdvanceOrConfirm(Given(modal.text))
     \/ Stays([modal EXCEPT !.editing = FALSE])

CancelVariables ==
  /\ Navigating
  /\ Answers([kind |-> "variables", canceled |-> TRUE])

----------------------------------------------------------------------------
(* The modals that show something and may be left with an answer *)

NewLiveViewModal(list) == [kind |-> "live", runs |-> list, selected |-> 1]

AnswerLiveView ==
  /\ On("live")
  /\ \/ Moves(Len(modal.runs))
     \/ modal.selected \in DOMAIN modal.runs
        /\ Answers([kind |-> "clear", run |-> modal.runs[modal.selected]])
     \/ Answers([kind |-> "clear all"])
     \/ Leaves

(* With nothing to reset, yes says nothing.                                 *)
AnswerReset ==
  /\ On("reset")
  /\ \/ IF modal.empty THEN Leaves ELSE Answers([kind |-> "reset", confirmed |-> TRUE])
     \/ Answers([kind |-> "reset", confirmed |-> FALSE])

AnswerRunConfirm ==
  /\ On("run")
  /\ \E yes \in BOOLEAN : Answers([kind |-> "run", confirmed |-> yes])

NewValidationErrorModal(count) == [kind |-> "validation", count |-> count, selected |-> 1]

(* Both to close it and to fix the errors only leave it.                    *)
AnswerValidationError ==
  /\ On("validation")
  /\ \/ Moves(modal.count)
     \/ Answers([kind |-> "override"])
     \/ Leaves

CloseModal == modal.kind \in {"help", "error"} /\ Leaves

----------------------------------------------------------------------------
OpensModal ==
  /\ answer = NoAnswer
  /\ \/ \E input \in Inputs : modal = NewInputModal(input)
     \/ \E choice \in SelectForms : modal = NewSelectModal(choice)
     \/ \E current, default \in BOOLEAN : modal = NewConfirmModal(current, default)
     \/ modal = NewFilterModal(FilterItems)
     \/ \E form \in BranchForms : modal = NewSimpleBranchModal(form)
     \/ \E variables \in Variables : modal = NewChainVariableModal(variables)
     \/ \E list \in LiveRuns : modal = NewLiveViewModal(list)
     \/ \E none \in BOOLEAN : modal = [kind |-> "reset", empty |-> none]
     \/ \E count \in ErrorCounts : modal = NewValidationErrorModal(count)
     \/ \E kind \in {"run", "help", "error"} : modal = [kind |-> kind]

UpdateModal ==
  \/ EditInput \/ RestoreInput \/ EnterInput \/ EscapeInput
  \/ AnswerSelect \/ AnswerConfirm \/ AnswerFilter
  \/ TypeInFilter \/ EnterInFilter \/ EscapeInFilter \/ StartFilter
  \/ NavigateBranches \/ AnswerBranch
  \/ SelectVariable \/ ChangeVariable \/ EditOrConfirm \/ EditVariable \/ CancelVariables
  \/ AnswerLiveView \/ AnswerReset \/ AnswerRunConfirm \/ AnswerValidationError \/ CloseModal
=============================================================================
