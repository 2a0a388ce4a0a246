---------------------------- MODULE HistoryStore ----------------------------
(***************************************************************************)
(* The history (internal/frecency/store.go, score.go): entries that each   *)
(* instance of the program loads at its start, changes in memory and saves *)
(* as a whole after every change, the migration of the old cache file, and *)
(* what the session (internal/app) does with the inputs it records.        *)
(*                                                                         *)
(* One workflow and one chain of one repository on one branch: an entry of *)
(* another is a different entry.  Ranking and times are left out.          *)
(***************************************************************************)
EXTENDS Integers, FiniteSets, Sequences, SequencesExt

CONSTANTS
  Instances,       \* the instances of the program that are started
  InputNames,      \* the names of the workflow's inputs
  Values,          \* the values a user gives them
  Empty,           \* the empty value
  DefaultInputs,   \* the workflow's default inputs
  ChainVariables,  \* the variables a chain is started with
  OldEntries,      \* what the old cache file holds, if there is one
  MaxRecords       \* bound on the number of dispatches

Kinds  == {"workflow", "chain", ""}
Inputs == UNION {[names -> Values \cup {Empty}] : names \in SUBSET InputNames}
Entry  == [kind : Kinds, inputs : Inputs, count : Nat \ {0}, shared : BOOLEAN]

ASSUME InputsAssumption == DefaultInputs \in Inputs /\ ChainVariables \subseteq Inputs
ASSUME OldAssumption ==
  /\ OldEntries \in Seq(Entry) /\ MaxRecords \in Nat
  /\ \A n \in 1..Len(OldEntries) : ~OldEntries[n].shared

VARIABLES
  old,       \* is there an old cache file
  file,      \* the history file: "none", "empty", "broken" or "whole"
  pc,        \* where each instance is
  task,      \* what it needs the path of the history file for
  store,     \* the entries it has in memory
  inputs,    \* the inputs its session is editing
  records,   \* history: the number of calls of Record and RecordChain
  made,      \* history: the dispatches of workflows by the instance
  disturbed  \* history: instances overlapped, or a write was cut off

vars == <<old, file, pc, task, store, inputs, records, made, disturbed>>

Whole(entries)  == [state |-> "whole", entries |-> entries]
NotWhole(state) == [state |-> state, entries |-> <<>>]

Init ==
  /\ old \in BOOLEAN
  /\ file = NotWhole("none")
  /\ pc = [i \in Instances |-> "off"] /\ task = [i \in Instances |-> "load"]
  /\ store = [i \in Instances |-> <<>>]
  /\ inputs = [i \in Instances |-> DefaultInputs]
  /\ records = 0 /\ made = [i \in Instances |-> {}]
  /\ disturbed = FALSE

----------------------------------------------------------------------------
(* The history in memory *)

(* The code's comparison: a missing key reads as the empty value.           *)
MapsEqual(a, b) ==
  /\ Cardinality(DOMAIN a) = Cardinality(DOMAIN b)
  /\ \A n \in DOMAIN a : (IF n \in DOMAIN b THEN b[n] ELSE Empty) = a[n]

NewEntry(kind, values, shared) ==
  [kind |-> kind, inputs |-> values, count |-> 1, shared |-> shared]

(* Mutant of Recorded: a dispatch is counted from zero.                     *)
RecordedFromZero(entries, kind, values, shared) ==
  Append(entries, [NewEntry(kind, values, shared) EXCEPT !.count = 0])

(* Record and RecordChain: the first entry that matches is counted up, or a *)
(* new one appended, which keeps the caller's map.                          *)
Recorded(entries, kind, values, shared) ==
  LET match == SelectInSeq(entries, LAMBDA e : e.kind = kind /\ MapsEqual(e.inputs, values))
  IN  IF match = 0 THEN Append(entries, NewEntry(kind, values, shared))
      ELSE [entries EXCEPT ![match].count = @ + 1]

(* The session gets a map of its own: no entry shares it. *)
Unshared(entries) == [n \in DOMAIN entries |-> [entries[n] EXCEPT !.shared = FALSE]]

DoExecuteWorkflow(i) ==
  /\ pc[i] = "idle" /\ records < MaxRecords
  /\ store' = [store EXCEPT ![i] = Recorded(@, "workflow", inputs[i], TRUE)]
  /\ made' = [made EXCEPT ![i] = @ \cup {inputs[i]}]
  /\ records' = records + 1
  /\ pc' = [pc EXCEPT ![i] = "path"] /\ task' = [task EXCEPT ![i] = "save"]
  /\ UNCHANGED <<old, file, inputs, disturbed>>

(* A chain that starts, or completes. *)
RecordsChain(i, variables) ==
  /\ pc[i] = "idle" /\ records < MaxRecords
  /\ store' = [store EXCEPT ![i] = Recorded(@, "chain", variables, FALSE)]
  /\ records' = records + 1
  /\ pc' = [pc EXCEPT ![i] = "path"] /\ task' = [task EXCEPT ![i] = "save"]
  /\ UNCHANGED <<old, file, inputs, made, disturbed>>

Edited(map, name, value) == [n \in DOMAIN map \cup {name} |-> IF n = name THEN value ELSE map[n]]

(* What is written into the session's map is in every entry that keeps it.  *)
EditedEntries(entries, name, value) ==
  [n \in DOMAIN entries |-> IF entries[n].shared
                            THEN [entries[n] EXCEPT !.inputs = Edited(@, name, value)]
                            ELSE entries[n]]

(* The answer of an input's modal, or a reset of that input.                *)
EditInput(i, name, value) ==
  /\ pc[i] = "idle"
  /\ inputs' = [inputs EXCEPT ![i] = Edited(@, name, value)]
  /\ store' = [store EXCEPT ![i] = EditedEntries(@, name, value)]
  /\ UNCHANGED <<old, file, pc, task, records, made, disturbed>>

InitializeInputs(i) ==
  /\ pc[i] = "idle"
  /\ inputs' = [inputs EXCEPT ![i] = DefaultInputs]
  /\ store' = [store EXCEPT ![i] = Unshared(@)]
  /\ UNCHANGED <<old, file, pc, task, records, made, disturbed>>

(* Enter on a previewed entry of the workflow, old ones (kind "") included. *)
ReplayEntry(i, n) ==
  /\ pc[i] = "idle"
  /\ store[i][n].kind # "chain"
  /\ inputs' = [inputs EXCEPT ![i] = store[i][n].inputs]
  /\ store' = [store EXCEPT ![i] = Unshared(@)]
  /\ UNCHANGED <<old, file, pc, task, records, made, disturbed>>

----------------------------------------------------------------------------
(* The file *)

(* Mutant of CachePath: it does not look whether there is a new file.       *)
CachePathUnchecked(i) ==
  /\ pc[i] = "path"
  /\ pc' = [pc EXCEPT ![i] = IF old THEN "migrate" ELSE task[i]]
  /\ UNCHANGED <<old, file, task, store, inputs, records, made, disturbed>>

(* CachePath, called by Load and by Save, looks for a cache to migrate.     *)
CachePath(i) ==
  /\ pc[i] = "path"
  /\ pc' = [pc EXCEPT ![i] = IF old /\ file.state = "none" THEN "migrate" ELSE task[i]]
  /\ UNCHANGED <<old, file, task, store, inputs, records, made, disturbed>>

(* WriteFile empties the file as it opens it. *)
Opens(i, next) ==
  /\ file' = NotWhole("empty")
  /\ pc' = [pc EXCEPT ![i] = next]
  /\ UNCHANGED <<old, task, store, inputs, records, made, disturbed>>

(* Then it writes from the file's beginning: if another instance has        *)
(* written meanwhile, what that one wrote may be the longer.                *)
Writes(i, entries, next) ==
  /\ \/ file' = Whole(Unshared(entries))
     \/ file.state \in {"whole", "broken"} /\ file' = NotWhole("broken")
  /\ pc' = [pc EXCEPT ![i] = next]
  /\ UNCHANGED <<old, task, store, inputs, records, made, disturbed>>

MigrateOldCache(i) ==
  \/ pc[i] = "migrate" /\ Opens(i, "copy")
  \/ pc[i] = "copy" /\ Writes(i, OldEntries, task[i])

(* Mutant of LoadFrom: it merges what the old cache holds.                  *)
LoadFromMerges(i) ==
  /\ pc[i] = "load"
  /\ store' = [store EXCEPT ![i] = IF old THEN file.entries \o OldEntries ELSE file.entries]
  /\ inputs' = [inputs EXCEPT ![i] = DefaultInputs]
  /\ pc' = [pc EXCEPT ![i] = "idle"]
  /\ UNCHANGED <<old, file, task, records, made, disturbed>>

(* No file, or one that does not parse, is an empty history. *)
LoadFrom(i) ==
  /\ pc[i] = "load"
  /\ store' = [store EXCEPT ![i] = file.entries]
  /\ inputs' = [inputs EXCEPT ![i] = DefaultInputs]
  /\ pc' = [pc EXCEPT ![i] = "idle"]
  /\ UNCHANGED <<old, file, task, records, made, disturbed>>

(* A file that cannot be read is an empty history, too: main goes on.       *)
LoadFails(i) ==
  /\ pc[i] = "load"
  /\ inputs' = [inputs EXCEPT ![i] = DefaultInputs]
  /\ store' = [store EXCEPT ![i] = <<>>]
  /\ pc' = [pc EXCEPT ![i] = "idle"]
  /\ disturbed' = TRUE
  /\ UNCHANGED <<old, file, task, records, made>>

(* Mutant of SaveTo: it writes over the file without emptying it.           *)
SaveToInPlace(i) ==
  \/ /\ pc[i] = "save"
     /\ pc' = [pc EXCEPT ![i] = "write"]
     /\ UNCHANGED <<old, file, task, store, inputs, records, made, disturbed>>
  \/ pc[i] = "write" /\ Writes(i, store[i], "idle")

SaveTo(i) ==
  \/ pc[i] = "save" /\ Opens(i, "write")
  \/ pc[i] = "write" /\ Writes(i, store[i], "idle")

(* The program goes on when the file cannot be opened or written.           *)
FileFails(i) ==
  /\ \/ pc[i] \in {"migrate", "save"} /\ UNCHANGED file
     \/ pc[i] \in {"copy", "write"} /\ file' \in {file, NotWhole("broken")}
  /\ pc' = [pc EXCEPT ![i] = IF @ \in {"migrate", "copy"} THEN task[i] ELSE "idle"]
  /\ disturbed' = TRUE
  /\ UNCHANGED <<old, task, store, inputs, records, made>>

----------------------------------------------------------------------------
(* The instances *)

Start(i) ==
  /\ pc[i] = "off"
  /\ pc' = [pc EXCEPT ![i] = "path"] /\ task' = [task EXCEPT ![i] = "load"]
  /\ disturbed' = (disturbed \/ \E j \in Instances : pc[j] # "off")
  /\ UNCHANGED <<old, file, store, inputs, records, made>>

Writing(i) == pc[i] \in {"copy", "write"}
Unsaved(i) == task[i] = "save" /\ pc[i] \in {"path", "migrate", "save"}

(* The program is left, or killed, at any point of a save or a migration.   *)
Ends(i) ==
  /\ pc[i] # "off"
  /\ pc' = [pc EXCEPT ![i] = "off"]
  /\ store' = [store EXCEPT ![i] = <<>>]
  /\ inputs' = [inputs EXCEPT ![i] = DefaultInputs]
  /\ made' = [made EXCEPT ![i] = {}]
  /\ disturbed' = (disturbed \/ Writing(i) \/ Unsaved(i))
  /\ UNCHANGED <<old, file, task, records>>

Next ==
  \E i \in Instances :
    \/ DoExecuteWorkflow(i)
    \/ \E variables \in ChainVariables : RecordsChain(i, variables)
    \/ \E name \in DOMAIN DefaultInputs, value \in Values \cup {Empty} : EditInput(i, name, value)
    \/ InitializeInputs(i)
    \/ \E n \in DOMAIN store[i] : ReplayEntry(i, n)
    \/ CachePath(i) \/ MigrateOldCache(i) \/ LoadFrom(i) \/ LoadFails(i)
    \/ SaveTo(i) \/ FileFails(i)
    \/ Start(i) \/ Ends(i)

Spec == Init /\ [][Next]_vars

----------------------------------------------------------------------------
(* Properties *)

IsEntries(entries) == \A n \in 1..Len(entries) : entries[n] \in Entry

(* The values every variable can take. *)
TypeOK ==
  /\ old \in BOOLEAN /\ disturbed \in BOOLEAN /\ records \in 0..MaxRecords
  /\ file.state \in {"none", "empty", "broken", "whole"} /\ IsEntries(file.entries)
  /\ file.state # "whole" => file.entries = <<>>
  /\ pc \in [Instances -> {"off", "path", "migrate", "copy", "load", "idle", "save", "write"}]
  /\ task \in [Instances -> {"load", "save"}]
  /\ \A i \in Instances : IsEntries(store[i])
  /\ inputs \in [Instances -> Inputs] /\ made \in [Instances -> SUBSET Inputs]

(* The runs that a list of entries counts, one by one. *)
RunsOf(entries) == UNION {{n} \X (1..entries[n].count) : n \in DOMAIN entries}
Runs(entries)   == Cardinality(RunsOf(entries))
RunsBefore      == IF old THEN Runs(OldEntries) ELSE 0

(* Whatever is killed, fails or overlaps, and however often the old cache   *)
(* is looked for, no run is counted that was not recorded.                  *)
NothingInvented ==
  /\ Runs(file.entries) <= RunsBefore + records
  /\ \A i \in Instances : Runs(store[i]) <= RunsBefore + records

(* As long as instances run one after the other and no write is cut off, an *)
(* instance knows every run that was ever recorded, the old cache's too.    *)
KeepsAllRuns ==
  \A i \in Instances : pc[i] = "idle" /\ ~disturbed => Runs(store[i]) = RunsBefore + records

(* A file that does not parse is being written, or was when an instance was *)
(* killed, failed to write or met another one.                              *)
ParsesUnlessDisturbed ==
  file.state \in {"empty", "broken"} /\ ~disturbed =>
    \E i \in Instances : Writing(i)

(* "different inputs" make different entries (store_test.go): what the      *)
(* instance has dispatched is in its history with the inputs it had.        *)
DispatchesAreListed ==
  \A i \in Instances : \A values \in made[i] :
    \E n \in 1..Len(store[i]) : store[i][n].kind = "workflow" /\ store[i][n].inputs = values
=============================================================================
