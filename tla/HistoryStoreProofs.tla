------------------------- MODULE HistoryStoreProofs -------------------------
(***************************************************************************)
(* Proofs about HistoryStore, for any number of instances and any history. *)
(***************************************************************************)
EXTENDS HistoryStore, SequenceTheorems, FiniteSetTheorems, TLAPS

ControlType ==
  /\ pc \in [Instances -> {"off", "path", "migrate", "copy", "load", "idle", "save", "write"}]
  /\ task \in [Instances -> {"load", "save"}]
  /\ disturbed \in BOOLEAN

(* Undisturbed, instances run one after the other,                          *)
OneAtATime ==
  ~disturbed => \A i, j \in Instances : i # j => pc[i] = "off" \/ pc[j] = "off"

(* and the file is empty exactly while one is writing it.                   *)
EmptyWhileWritten ==
  ~disturbed =>
    /\ (\E i \in Instances : Writing(i)) => file.state = "empty"
    /\ (\A i \in Instances : ~Writing(i)) => file.state \in {"none", "whole"}

FileInv == ControlType /\ OneAtATime /\ EmptyWhileWritten

(* An instance that writes, undisturbed, is the only one to.                *)
LEMMA OnlyWriter ==
  ASSUME FileInv, ~disturbed, NEW i \in Instances, pc[i] # "off"
  PROVE  \A j \in Instances : j # i => pc[j] = "off" /\ ~Writing(j)
BY DEF FileInv, OneAtATime, Writing

(* Opening the file for writing empties it. *)
LEMMA OpensInv ==
  ASSUME FileInv, NEW i \in Instances, pc[i] \in {"migrate", "save"},
         NEW next \in {"copy", "write"}, Opens(i, next)
  PROVE  FileInv'
<1>1. /\ ControlType /\ OneAtATime
      /\ pc' = [pc EXCEPT ![i] = next] /\ file'.state = "empty"
      /\ UNCHANGED <<task, disturbed>>
  BY DEF FileInv, Opens, NotWhole
<1>2. ControlType'
  BY <1>1 DEF ControlType
<1>3. OneAtATime'
  BY <1>1 DEF OneAtATime, ControlType
<1>4. EmptyWhileWritten'
  BY <1>1 DEF EmptyWhileWritten, ControlType, Writing
<1> QED BY <1>2, <1>3, <1>4 DEF FileInv

(* Writing an empty file leaves a whole one. *)
LEMMA WritesInv ==
  ASSUME FileInv, NEW i \in Instances, pc[i] \in {"copy", "write"}, NEW entries,
         NEW next \in {"load", "save", "idle"}, Writes(i, entries, next)
  PROVE  FileInv'
<1>1. /\ ControlType /\ OneAtATime /\ EmptyWhileWritten
      /\ pc' = [pc EXCEPT ![i] = next]
      /\ UNCHANGED <<task, disturbed>>
  BY DEF FileInv, Writes
<1>2. ControlType'
  BY <1>1 DEF ControlType
<1>3. OneAtATime'
  BY <1>1 DEF OneAtATime, ControlType
<1>4. EmptyWhileWritten'
  <2> SUFFICES ASSUME ~disturbed
               PROVE  file'.state = "whole" /\ \A j \in Instances : ~Writing(j)'
    BY <1>1 DEF EmptyWhileWritten
  <2>1. Writing(i) /\ file.state = "empty"
    BY <1>1 DEF EmptyWhileWritten, Writing
  <2>2. file'.state = "whole"
    BY <2>1 DEF Writes, Whole
  <2>3. \A j \in Instances : j # i => pc[j] = "off"
    BY OnlyWriter
  <2> QED BY <1>1, <2>2, <2>3 DEF ControlType, Writing
<1> QED BY <1>2, <1>3, <1>4 DEF FileInv

(* A step of one instance that neither starts it nor writes.                *)
LEMMA MovesInv ==
  ASSUME FileInv, NEW i \in Instances, pc[i] \notin {"off", "copy", "write"},
         NEW next \in {"path", "migrate", "load", "save", "idle", "off"},
         pc' = [pc EXCEPT ![i] = next],
         task' \in [Instances -> {"load", "save"}], UNCHANGED <<file, disturbed>>
  PROVE  FileInv'
<1>1. ControlType /\ OneAtATime /\ EmptyWhileWritten
  BY DEF FileInv
<1>2. ControlType'
  BY <1>1 DEF ControlType
<1>3. OneAtATime'
  BY <1>1 DEF OneAtATime, ControlType
<1>4. \A j \in Instances : Writing(j)' <=> Writing(j)
  BY <1>1 DEF ControlType, Writing
<1>5. EmptyWhileWritten'
  BY <1>1, <1>4 DEF EmptyWhileWritten
<1> QED BY <1>2, <1>3, <1>5 DEF FileInv

LEMMA DisturbedInv ==
  ASSUME ControlType', disturbed'
  PROVE  FileInv'
BY DEF FileInv, OneAtATime, EmptyWhileWritten

LEMMA FileInit == Init => FileInv
<1> SUFFICES ASSUME Init PROVE FileInv
  OBVIOUS
<1>1. /\ file.state = "none" /\ disturbed = FALSE
      /\ pc = [i \in Instances |-> "off"] /\ task = [i \in Instances |-> "load"]
  BY DEF Init, NotWhole
<1>2. \A i \in Instances : pc[i] = "off" /\ ~Writing(i)
  BY <1>1 DEF Writing
<1>3. ControlType
  BY <1>1 DEF ControlType
<1> QED BY <1>1, <1>2, <1>3 DEF FileInv, OneAtATime, EmptyWhileWritten

LEMMA FileStep == FileInv /\ [Next]_vars => FileInv'
<1> SUFFICES ASSUME FileInv, [Next]_vars PROVE FileInv'
  OBVIOUS
<1>0. ControlType
  BY DEF FileInv
<1>1. ASSUME NEW i \in Instances,
             DoExecuteWorkflow(i) \/ \E variables \in ChainVariables : RecordsChain(i, variables)
      PROVE  FileInv'
  <2>1. /\ pc[i] = "idle" /\ pc' = [pc EXCEPT ![i] = "path"]
        /\ task' = [task EXCEPT ![i] = "save"] /\ UNCHANGED <<file, disturbed>>
    BY <1>1 DEF DoExecuteWorkflow, RecordsChain
  <2> QED BY <1>0, <2>1, MovesInv DEF ControlType
<1>2. ASSUME NEW i \in Instances,
             \/ \E name \in DOMAIN DefaultInputs, value \in Values \cup {Empty} :
                  EditInput(i, name, value)
             \/ InitializeInputs(i)
             \/ \E n \in DOMAIN store[i] : ReplayEntry(i, n)
      PROVE  FileInv'
  <2>1. UNCHANGED <<pc, task, file, disturbed>>
    BY <1>2 DEF EditInput, InitializeInputs, ReplayEntry
  <2> QED
    BY <2>1 DEF FileInv, ControlType, OneAtATime, EmptyWhileWritten, Writing
<1>3. ASSUME NEW i \in Instances, CachePath(i) PROVE FileInv'
  <2>1. /\ pc[i] = "path" /\ task' = task /\ UNCHANGED <<file, disturbed>>
        /\ \E next \in {"migrate", "load", "save"} : pc' = [pc EXCEPT ![i] = next]
    BY <1>0, <1>3 DEF CachePath, ControlType
  <2> QED BY <1>0, <2>1, MovesInv DEF ControlType
<1>4. ASSUME NEW i \in Instances, MigrateOldCache(i) \/ SaveTo(i) PROVE FileInv'
  <2>1. task[i] \in {"load", "save"}
    BY <1>0 DEF ControlType
  <2> QED BY <1>4, <2>1, OpensInv, WritesInv DEF MigrateOldCache, SaveTo
<1>5. ASSUME NEW i \in Instances, LoadFrom(i) PROVE FileInv'
  BY <1>0, <1>5, MovesInv DEF LoadFrom, ControlType
<1>6. ASSUME NEW i \in Instances, LoadFails(i) \/ FileFails(i) PROVE FileInv'
  <2>1. ControlType' /\ disturbed'
    BY <1>0, <1>6 DEF LoadFails, FileFails, ControlType
  <2> QED BY <2>1, DisturbedInv
<1>7. ASSUME NEW i \in Instances, Start(i) PROVE FileInv'
  <2>1. /\ pc[i] = "off" /\ pc' = [pc EXCEPT ![i] = "path"]
        /\ disturbed' = (disturbed \/ \E j \in Instances : pc[j] # "off") /\ UNCHANGED file
    BY <1>7 DEF Start
  <2>2. ControlType'
    BY <1>0, <1>7 DEF Start, ControlType
  <2>3. CASE disturbed \/ \E j \in Instances : pc[j] # "off"
    BY <2>1, <2>2, <2>3, DisturbedInv DEF ControlType
  <2>4. CASE ~disturbed /\ \A j \in Instances : pc[j] = "off"
    <3>1. \A j \in Instances : ~Writing(j) /\ ~Writing(j)' /\ (j # i => pc'[j] = "off")
      BY <1>0, <2>1, <2>4 DEF ControlType, Writing
    <3>2. OneAtATime'
      BY <3>1 DEF OneAtATime
    <3>3. EmptyWhileWritten'
      BY <2>1, <2>4, <3>1 DEF EmptyWhileWritten, FileInv
    <3> QED BY <2>2, <3>2, <3>3 DEF FileInv
  <2> QED BY <1>0, <2>3, <2>4 DEF ControlType
<1>8. ASSUME NEW i \in Instances, Ends(i) PROVE FileInv'
  <2>1. /\ pc[i] # "off" /\ pc' = [pc EXCEPT ![i] = "off"] /\ UNCHANGED <<file, task>>
        /\ disturbed' = (disturbed \/ Writing(i) \/ Unsaved(i))
    BY <1>8 DEF Ends
  <2>2. ControlType'
    BY <1>0, <2>1 DEF ControlType, Writing, Unsaved
  <2>3. CASE disturbed'
    BY <2>2, <2>3, DisturbedInv
  <2>4. CASE ~disturbed'
    <3>1. ~disturbed /\ ~Writing(i) /\ UNCHANGED disturbed
      BY <1>0, <2>1, <2>4 DEF ControlType
    <3> QED BY <1>0, <2>1, <3>1, MovesInv DEF ControlType, Writing
  <2> QED BY <2>3, <2>4
<1>9. CASE UNCHANGED vars
  BY <1>9 DEF vars, FileInv, ControlType, OneAtATime, EmptyWhileWritten, Writing
<1> QED BY <1>1, <1>2, <1>3, <1>4, <1>5, <1>6, <1>7, <1>8, <1>9 DEF Next

(* The history file parses whenever it is not being written, unless an      *)
(* instance was killed at it, failed to write it or met another one.        *)
THEOREM FileParses == Spec => []ParsesUnlessDisturbed
<1>1. FileInv => ParsesUnlessDisturbed
  BY DEF FileInv, EmptyWhileWritten, ParsesUnlessDisturbed
<1> QED BY <1>1, FileInit, FileStep, PTL DEF Spec
-----------------------------------------------------------------------------
(* Counting runs *)

(* Numbers that are natural have a least: their intervals from 1 are finite *)
(* sets, which strict inclusion orders in a well-founded way.               *)
LEMMA LeastNumber ==
  ASSUME NEW T \in SUBSET Nat, T # {}
  PROVE  \E least \in T : \A n \in T : least <= n
<1> DEFINE D == {1..n : n \in T}
<1>1. D \subseteq FiniteSubsetsOf(Nat)
  <2>1. ASSUME NEW n \in T PROVE 1..n \in FiniteSubsetsOf(Nat)
    BY FS_Interval DEF FiniteSubsetsOf
  <2> QED BY <2>1
<1>2. D # {}
  OBVIOUS
<1>3. PICK B \in D : \A C \in D : <<C, B>> \notin StrictSubsetOrdering(Nat)
  BY <1>1, <1>2, FS_StrictSubsetOrderingWellFounded, WFMin
<1>4. PICK least \in T : B = 1..least
  OBVIOUS
<1>5. ASSUME NEW n \in T, n < least PROVE FALSE
  <2>1. 1..n \in SUBSET Nat /\ B \in SUBSET Nat /\ 1..n \subseteq B
    BY <1>4, <1>5
  <2>2. least \in B /\ least \notin 1..n
    BY <1>4, <1>5
  <2>3. <<1..n, B>> \in StrictSubsetOrdering(Nat)
    BY <2>1, <2>2 DEF StrictSubsetOrdering
  <2> QED BY <1>3, <2>3
<1> QED BY <1>5

LEMMA EntryOfSeq ==
  ASSUME NEW entries \in Seq(Entry), NEW n \in DOMAIN entries
  PROVE  entries[n] \in Entry /\ entries[n].count \in Nat \ {0}
<1>1. entries[n] \in Entry
  OBVIOUS
<1> QED BY <1>1 DEF Entry

CountedUp(entries, n) == [entries EXCEPT ![n].count = @ + 1]

(* What is recorded is a new entry, or one more run of an old one.          *)
LEMMA RecordedShape ==
  ASSUME NEW entries \in Seq(Entry), NEW kind, NEW values, NEW shared
  PROVE  \/ Recorded(entries, kind, values, shared) = Append(entries, NewEntry(kind, values, shared))
         \/ \E n \in DOMAIN entries :
              Recorded(entries, kind, values, shared) = CountedUp(entries, n)
<1> DEFINE I == {i \in 1..Len(entries) : entries[i].kind = kind /\ MapsEqual(entries[i].inputs, values)}
           match == IF I # {} THEN Min(I) ELSE 0
<1>1. match = 0 \/ match \in DOMAIN entries
  <2>1. CASE I = {}
    BY <2>1
  <2>2. CASE I # {}
    <3>1. I \in SUBSET Nat
      OBVIOUS
    <3>2. \E least \in I : \A n \in I : least <= n
      BY <2>2, <3>1, LeastNumber
    <3>3. Min(I) \in I
      BY <3>2 DEF Min
    <3> QED BY <2>2, <3>3
  <2> QED BY <2>1, <2>2
<1>2. Recorded(entries, kind, values, shared)
        = IF match = 0 THEN Append(entries, NewEntry(kind, values, shared))
          ELSE CountedUp(entries, match)
  BY DEF Recorded, SelectInSeq, CountedUp
<1> HIDE DEF match
<1> QED BY <1>1, <1>2

LEMMA RunsAreFinite ==
  ASSUME NEW entries \in Seq(Entry)
  PROVE  IsFiniteSet(RunsOf(entries)) /\ Runs(entries) \in Nat
<1> DEFINE D == DOMAIN entries
           f == [n \in D |-> {n} \X (1..entries[n].count)]
           T == {f[n] : n \in D}
<1>1. IsFiniteSet(D)
  BY FS_Interval
<1>2. f \in Surjection(D, T)
  BY DEF Surjection
<1>3. IsFiniteSet(T)
  <2> HIDE DEF f, T
  <2> QED BY <1>1, <1>2, FS_Surjection
<1>4. ASSUME NEW n \in D PROVE IsFiniteSet(f[n])
  <2>1. entries[n].count \in Int
    BY EntryOfSeq
  <2>2. IsFiniteSet(1..entries[n].count)
    <3>1. \A c \in Int : IsFiniteSet(1..c)
      BY FS_Interval
    <3> QED BY <2>1, <3>1
  <2>3. IsFiniteSet({n})
    BY FS_Singleton
  <2> QED BY <2>2, <2>3, FS_Product
<1>5. IsFiniteSet(UNION T)
  <2>1. \A t \in T : IsFiniteSet(t)
    BY <1>4
  <2> HIDE DEF T
  <2> QED BY <1>3, <2>1, FS_UNION
<1>6. UNION T = RunsOf(entries)
  BY DEF RunsOf
<1> QED BY <1>5, <1>6, FS_CardinalityType DEF Runs

(* The runs are those of the counts, whatever else an entry says.           *)
LEMMA SameCounts ==
  ASSUME NEW entries, NEW others, DOMAIN others = DOMAIN entries,
         \A n \in DOMAIN entries : others[n].count = entries[n].count
  PROVE  Runs(others) = Runs(entries)
<1>1. RunsOf(others) = RunsOf(entries)
  BY DEF RunsOf
<1> QED BY <1>1 DEF Runs

LEMMA RecordedRuns ==
  ASSUME NEW entries \in Seq(Entry), NEW kind \in Kinds, NEW values \in Inputs, NEW shared \in BOOLEAN
  PROVE  /\ Recorded(entries, kind, values, shared) \in Seq(Entry)
         /\ Runs(Recorded(entries, kind, values, shared)) = Runs(entries) + 1
<1> DEFINE recorded == Recorded(entries, kind, values, shared)
<1>1. ASSUME NEW run, run \notin RunsOf(entries), RunsOf(recorded) = RunsOf(entries) \cup {run}
      PROVE  Runs(recorded) = Runs(entries) + 1
  BY <1>1, RunsAreFinite, FS_AddElement DEF Runs
<1>2. ASSUME recorded = Append(entries, NewEntry(kind, values, shared))
      PROVE  recorded \in Seq(Entry) /\ Runs(recorded) = Runs(entries) + 1
  <2> DEFINE e == NewEntry(kind, values, shared)
             l == Len(entries) + 1
  <2>1. e \in Entry /\ e.count = 1
    BY DEF NewEntry, Entry
  <2> HIDE DEF e, recorded
  <2>2. /\ recorded \in Seq(Entry) /\ DOMAIN recorded = DOMAIN entries \cup {l}
        /\ recorded[l] = e /\ l \notin DOMAIN entries
        /\ \A n \in DOMAIN entries : recorded[n] = entries[n]
    BY <1>2, <2>1 DEF e
  <2>3. RunsOf(recorded) = RunsOf(entries) \cup {<<l, 1>>}
    <3>1. {l} \X (1..1) = {<<l, 1>>}
      OBVIOUS
    <3> QED BY <2>1, <2>2, <3>1 DEF RunsOf
  <2>4. <<l, 1>> \notin RunsOf(entries)
    BY <2>2 DEF RunsOf
  <2> QED BY <1>1, <2>2, <2>3, <2>4
<1>3. ASSUME NEW n \in DOMAIN entries, recorded = CountedUp(entries, n)
      PROVE  recorded \in Seq(Entry) /\ Runs(recorded) = Runs(entries) + 1
  <2> DEFINE c == entries[n].count + 1
             e == [entries[n] EXCEPT !.count = c]
  <2> HIDE DEF recorded
  <2>1. entries[n] \in Entry /\ entries[n].count \in Nat \ {0}
    BY EntryOfSeq
  <2>2. e \in Entry /\ e.count = c
    BY <2>1 DEF Entry
  <2>3. recorded = [entries EXCEPT ![n] = e]
    BY <1>3 DEF CountedUp
  <2>4. /\ recorded \in Seq(Entry) /\ DOMAIN recorded = DOMAIN entries
        /\ recorded[n].count = c
        /\ \A m \in DOMAIN entries : m # n => recorded[m] = entries[m]
    <3> HIDE DEF e, c
    <3> QED BY <2>2, <2>3
  <2>5. RunsOf(recorded) = RunsOf(entries) \cup {<<n, c>>}
    <3>1. {n} \X (1..c) = ({n} \X (1..entries[n].count)) \cup {<<n, c>>}
      BY <2>1
    <3> HIDE DEF c
    <3> QED BY <2>4, <3>1 DEF RunsOf
  <2>6. <<n, c>> \notin RunsOf(entries)
    BY <2>1 DEF RunsOf
  <2> HIDE DEF c
  <2> QED BY <1>1, <2>4, <2>5, <2>6
<1>4. \/ recorded = Append(entries, NewEntry(kind, values, shared))
      \/ \E n \in DOMAIN entries : recorded = CountedUp(entries, n)
  BY RecordedShape
<1>5. recorded \in Seq(Entry) /\ Runs(recorded) = Runs(entries) + 1
  <2> HIDE DEF recorded
  <2> QED BY <1>2, <1>3, <1>4
<1> QED BY <1>5
LEMMA EmptyRuns == <<>> \in Seq(Entry) /\ Runs(<<>>) = 0
<1>1. RunsOf(<<>>) = {}
  BY DEF RunsOf
<1> QED BY <1>1, FS_EmptySet DEF Runs

LEMMA UnsharedRuns ==
  ASSUME NEW entries \in Seq(Entry)
  PROVE  Unshared(entries) \in Seq(Entry) /\ Runs(Unshared(entries)) = Runs(entries)
<1>1. DOMAIN Unshared(entries) = DOMAIN entries
  BY DEF Unshared
<1>2. ASSUME NEW n \in DOMAIN entries
      PROVE  Unshared(entries)[n] \in Entry /\ Unshared(entries)[n].count = entries[n].count
  <2> DEFINE e == entries[n]
  <2>1. e \in Entry
    BY EntryOfSeq
  <2>2. Unshared(entries)[n] = [e EXCEPT !.shared = FALSE]
    BY DEF Unshared
  <2> HIDE DEF e
  <2>3. [e EXCEPT !.shared = FALSE] \in Entry /\ [e EXCEPT !.shared = FALSE].count = e.count
    BY <2>1 DEF Entry
  <2> QED BY <2>2, <2>3 DEF e
<1>3. Unshared(entries) \in Seq(Entry)
  BY <1>1, <1>2 DEF Unshared
<1> QED BY <1>1, <1>2, <1>3, SameCounts

LEMMA EditedOK ==
  ASSUME NEW map \in Inputs, NEW name \in InputNames, NEW value \in Values \cup {Empty}
  PROVE  Edited(map, name, value) \in Inputs
<1>1. PICK names \in SUBSET InputNames : map \in [names -> Values \cup {Empty}]
  BY DEF Inputs
<1>2. Edited(map, name, value) \in [names \cup {name} -> Values \cup {Empty}]
  BY <1>1 DEF Edited
<1>3. names \cup {name} \in SUBSET InputNames
  OBVIOUS
<1> QED BY <1>2, <1>3 DEF Inputs

(* Editing an input changes the inputs of entries, never a count.           *)
LEMMA EditedRuns ==
  ASSUME NEW entries \in Seq(Entry), NEW name \in InputNames, NEW value \in Values \cup {Empty}
  PROVE  /\ EditedEntries(entries, name, value) \in Seq(Entry)
         /\ Runs(EditedEntries(entries, name, value)) = Runs(entries)
<1> DEFINE edited == EditedEntries(entries, name, value)
<1>1. DOMAIN edited = DOMAIN entries
  BY DEF EditedEntries
<1>2. ASSUME NEW n \in DOMAIN entries
      PROVE  edited[n] \in Entry /\ edited[n].count = entries[n].count
  <2> DEFINE e == entries[n]
             map == Edited(e.inputs, name, value)
  <2>1. e \in Entry /\ e.inputs \in Inputs
    <3>1. e \in Entry
      BY EntryOfSeq
    <3> QED BY <3>1 DEF Entry
  <2>2. map \in Inputs
    BY <2>1, EditedOK
  <2>3. edited[n] = IF e.shared THEN [e EXCEPT !.inputs = map] ELSE e
    BY DEF EditedEntries
  <2> HIDE DEF e, map, edited
  <2>4. [e EXCEPT !.inputs = map] \in Entry /\ [e EXCEPT !.inputs = map].count = e.count
    BY <2>1, <2>2 DEF Entry
  <2> QED BY <2>1, <2>3, <2>4 DEF e
<1>3. edited \in Seq(Entry)
  <2>1. edited = [n \in DOMAIN entries |-> edited[n]]
    BY DEF EditedEntries
  <2> HIDE DEF edited
  <2> QED BY <1>1, <1>2, <2>1
<1> QED BY <1>1, <1>2, <1>3, SameCounts

-----------------------------------------------------------------------------
(* Types *)

TypeInv ==
  /\ ControlType
  /\ old \in BOOLEAN /\ records \in 0..MaxRecords
  /\ file.state \in {"none", "empty", "broken", "whole"} /\ file.entries \in Seq(Entry)
  /\ file.state # "whole" => file.entries = <<>>
  /\ store \in [Instances -> Seq(Entry)]
  /\ inputs \in [Instances -> Inputs] /\ made \in [Instances -> SUBSET Inputs]

Records(i) == DoExecuteWorkflow(i) \/ \E variables \in ChainVariables : RecordsChain(i, variables)

(* A dispatch counts one run more in the memory of its instance, and saves. *)
LEMMA RecordsShape ==
  ASSUME TypeInv, NEW i \in Instances, Records(i)
  PROVE  /\ pc[i] = "idle" /\ pc' = [pc EXCEPT ![i] = "path"] /\ task' = [task EXCEPT ![i] = "save"]
         /\ \E entries \in Seq(Entry) :
              Runs(entries) = Runs(store[i]) + 1 /\ store' = [store EXCEPT ![i] = entries]
         /\ records < MaxRecords /\ records' = records + 1
         /\ made' \in [Instances -> SUBSET Inputs]
         /\ UNCHANGED <<old, file, inputs, disturbed>>
<1>1. store[i] \in Seq(Entry) /\ inputs[i] \in Inputs
  BY DEF TypeInv
<1>2. CASE DoExecuteWorkflow(i)
  <2>1. "workflow" \in Kinds /\ TRUE \in BOOLEAN
    BY DEF Kinds
  <2>2. /\ Recorded(store[i], "workflow", inputs[i], TRUE) \in Seq(Entry)
        /\ Runs(Recorded(store[i], "workflow", inputs[i], TRUE)) = Runs(store[i]) + 1
    BY <1>1, <2>1, RecordedRuns
  <2>3. made' \in [Instances -> SUBSET Inputs]
    BY <1>1, <1>2 DEF DoExecuteWorkflow, TypeInv
  <2> QED BY <1>2, <2>2, <2>3 DEF DoExecuteWorkflow
<1>3. ASSUME NEW variables \in ChainVariables, RecordsChain(i, variables)
      PROVE  \E entries \in Seq(Entry) :
               Runs(entries) = Runs(store[i]) + 1 /\ store' = [store EXCEPT ![i] = entries]
  <2>1. "chain" \in Kinds /\ FALSE \in BOOLEAN /\ variables \in Inputs
    BY InputsAssumption DEF Kinds
  <2>2. /\ Recorded(store[i], "chain", variables, FALSE) \in Seq(Entry)
        /\ Runs(Recorded(store[i], "chain", variables, FALSE)) = Runs(store[i]) + 1
    BY <1>1, <2>1, RecordedRuns
  <2> QED BY <1>3, <2>2 DEF RecordsChain
<1>4. CASE \E variables \in ChainVariables : RecordsChain(i, variables)
  <2>1. /\ pc[i] = "idle" /\ pc' = [pc EXCEPT ![i] = "path"] /\ task' = [task EXCEPT ![i] = "save"]
        /\ records < MaxRecords /\ records' = records + 1
        /\ UNCHANGED <<old, file, inputs, made, disturbed>>
    BY <1>4 DEF RecordsChain
  <2> QED BY <1>3, <1>4, <2>1 DEF TypeInv
<1> QED BY <1>2, <1>4 DEF Records

Edits(i) ==
  \/ \E name \in DOMAIN DefaultInputs, value \in Values \cup {Empty} : EditInput(i, name, value)
  \/ InitializeInputs(i)
  \/ \E n \in DOMAIN store[i] : ReplayEntry(i, n)

(* Editing inputs may change entries, but counts no run.                    *)
LEMMA EditsShape ==
  ASSUME TypeInv, NEW i \in Instances, Edits(i)
  PROVE  /\ \E entries \in Seq(Entry) :
              Runs(entries) = Runs(store[i]) /\ store' = [store EXCEPT ![i] = entries]
         /\ inputs' \in [Instances -> Inputs]
         /\ UNCHANGED <<old, file, pc, task, records, made, disturbed>>
<1>1. store[i] \in Seq(Entry) /\ inputs \in [Instances -> Inputs]
  BY DEF TypeInv
<1>2. DefaultInputs \in Inputs /\ DOMAIN DefaultInputs \subseteq InputNames
  BY InputsAssumption DEF Inputs
<1>3. ASSUME NEW name \in DOMAIN DefaultInputs, NEW value \in Values \cup {Empty}, EditInput(i, name, value)
      PROVE  /\ store' = [store EXCEPT ![i] = EditedEntries(store[i], name, value)]
             /\ inputs' = [inputs EXCEPT ![i] = Edited(inputs[i], name, value)]
  BY <1>3 DEF EditInput
<1>4. CASE \E name \in DOMAIN DefaultInputs, value \in Values \cup {Empty} : EditInput(i, name, value)
  <2>1. PICK name \in DOMAIN DefaultInputs, value \in Values \cup {Empty} : EditInput(i, name, value)
    BY <1>4
  <2>2. name \in InputNames
    BY <1>2
  <2>3. Edited(inputs[i], name, value) \in Inputs
    BY <1>1, <2>2, EditedOK
  <2>4. /\ EditedEntries(store[i], name, value) \in Seq(Entry)
        /\ Runs(EditedEntries(store[i], name, value)) = Runs(store[i])
    BY <1>1, <2>2, EditedRuns
  <2>5. UNCHANGED <<old, file, pc, task, records, made, disturbed>>
    BY <2>1 DEF EditInput
  <2> QED BY <1>1, <1>3, <2>1, <2>3, <2>4, <2>5
<1>5. CASE InitializeInputs(i) \/ \E n \in DOMAIN store[i] : ReplayEntry(i, n)
  <2>1. store' = [store EXCEPT ![i] = Unshared(store[i])]
    BY <1>5 DEF InitializeInputs, ReplayEntry
  <2>2. \E map \in Inputs : inputs' = [inputs EXCEPT ![i] = map]
    <3>1. \A n \in DOMAIN store[i] : store[i][n].inputs \in Inputs
      BY <1>1, EntryOfSeq DEF Entry
    <3> QED BY <1>2, <1>5, <3>1 DEF InitializeInputs, ReplayEntry
  <2>3. UNCHANGED <<old, file, pc, task, records, made, disturbed>>
    BY <1>5 DEF InitializeInputs, ReplayEntry
  <2> QED BY <1>1, <2>1, <2>2, <2>3, UnsharedRuns
<1> QED BY <1>4, <1>5 DEF Edits
LEMMA TypeInit == Init => TypeInv
<1> SUFFICES ASSUME Init PROVE TypeInv
  OBVIOUS
<1>1. ControlType
  BY FileInit DEF FileInv
<1>2. file.state = "none" /\ file.entries = <<>>
  BY DEF Init, NotWhole
<1>3. <<>> \in Seq(Entry)
  OBVIOUS
<1>4. /\ old \in BOOLEAN /\ records \in 0..MaxRecords
      /\ inputs \in [Instances -> Inputs] /\ made \in [Instances -> SUBSET Inputs]
  BY InputsAssumption, OldAssumption DEF Init
<1>5. store \in [Instances -> Seq(Entry)]
  BY <1>3 DEF Init
<1> QED BY <1>1, <1>2, <1>3, <1>4, <1>5 DEF TypeInv

LEMMA TypeStep == TypeInv /\ [Next]_vars => TypeInv'
<1> SUFFICES ASSUME TypeInv, [Next]_vars PROVE TypeInv'
  OBVIOUS
<1>0. ControlType /\ store \in [Instances -> Seq(Entry)]
  BY DEF TypeInv
<1>1. ASSUME NEW i \in Instances, Records(i) PROVE TypeInv'
  <2>1. ControlType'
    BY <1>0, <1>1, RecordsShape DEF ControlType
  <2>2. store' \in [Instances -> Seq(Entry)]
    BY <1>0, <1>1, RecordsShape
  <2>3. records' \in 0..MaxRecords
    BY <1>1, RecordsShape, OldAssumption DEF TypeInv
  <2>4. /\ made' \in [Instances -> SUBSET Inputs]
        /\ UNCHANGED <<old, file, inputs>>
    BY <1>1, RecordsShape
  <2> QED BY <2>1, <2>2, <2>3, <2>4 DEF TypeInv
<1>2. ASSUME NEW i \in Instances, Edits(i) PROVE TypeInv'
  <2>1. store' \in [Instances -> Seq(Entry)]
    BY <1>0, <1>2, EditsShape
  <2>2. /\ inputs' \in [Instances -> Inputs]
        /\ UNCHANGED <<old, file, pc, task, records, made, disturbed>>
    BY <1>2, EditsShape
  <2> QED BY <2>1, <2>2 DEF TypeInv, ControlType
<1>3. ASSUME NEW i \in Instances, CachePath(i) PROVE TypeInv'
  <2>1. ControlType'
    BY <1>0, <1>3 DEF CachePath, ControlType
  <2> QED BY <1>3, <2>1 DEF CachePath, TypeInv
<1>4. ASSUME NEW i \in Instances, NEW next \in {"copy", "write"}, Opens(i, next) PROVE TypeInv'
  <2>1. ControlType'
    BY <1>0, <1>4 DEF Opens, ControlType
  <2>2. file'.state = "empty" /\ file'.entries = <<>> /\ <<>> \in Seq(Entry)
    BY <1>4 DEF Opens, NotWhole
  <2> QED BY <1>4, <2>1, <2>2 DEF Opens, TypeInv
<1>5. ASSUME NEW i \in Instances, NEW entries \in Seq(Entry), NEW next \in {"load", "save", "idle"},
             Writes(i, entries, next)
      PROVE  TypeInv'
  <2>1. ControlType'
    BY <1>0, <1>5 DEF Writes, ControlType
  <2>2. /\ file'.state \in {"whole", "broken"} /\ file'.entries \in Seq(Entry)
        /\ file'.state # "whole" => file'.entries = <<>>
    <3>1. Unshared(entries) \in Seq(Entry) /\ <<>> \in Seq(Entry)
      BY UnsharedRuns
    <3>2. file' = Whole(Unshared(entries)) \/ file' = NotWhole("broken")
      BY <1>5 DEF Writes
    <3>3. CASE file' = Whole(Unshared(entries))
      <4>1. file'.state = "whole" /\ file'.entries = Unshared(entries)
        BY <3>3 DEF Whole
      <4> QED BY <3>1, <4>1
    <3>4. CASE file' = NotWhole("broken")
      <4>1. file'.state = "broken" /\ file'.entries = <<>>
        BY <3>4 DEF NotWhole
      <4> QED BY <3>1, <4>1
    <3> QED BY <3>2, <3>3, <3>4
  <2> QED BY <1>5, <2>1, <2>2 DEF Writes, TypeInv
<1>6. ASSUME NEW i \in Instances, MigrateOldCache(i) \/ SaveTo(i) PROVE TypeInv'
  <2>1. task[i] \in {"load", "save"} /\ store[i] \in Seq(Entry) /\ OldEntries \in Seq(Entry)
    BY <1>0, OldAssumption DEF ControlType
  <2> QED BY <1>4, <1>5, <1>6, <2>1 DEF MigrateOldCache, SaveTo
<1>7. ASSUME NEW i \in Instances, LoadFrom(i) \/ LoadFails(i) \/ Ends(i) PROVE TypeInv'
  <2>1. ControlType'
    BY <1>0, <1>7 DEF LoadFrom, LoadFails, Ends, ControlType, Writing, Unsaved
  <2>2. store' \in [Instances -> Seq(Entry)]
    <3>1. file.entries \in Seq(Entry) /\ <<>> \in Seq(Entry)
      BY DEF TypeInv
    <3> QED BY <1>0, <1>7, <3>1 DEF LoadFrom, LoadFails, Ends
  <2>3. inputs' \in [Instances -> Inputs] /\ made' \in [Instances -> SUBSET Inputs]
    BY <1>7, InputsAssumption DEF TypeInv, LoadFrom, LoadFails, Ends
  <2>4. UNCHANGED <<old, file, records>>
    BY <1>7 DEF LoadFrom, LoadFails, Ends
  <2> QED BY <2>1, <2>2, <2>3, <2>4 DEF TypeInv
<1>8. ASSUME NEW i \in Instances, FileFails(i) PROVE TypeInv'
  <2>1. ControlType'
    BY <1>0, <1>8 DEF FileFails, ControlType
  <2>2. file' = file \/ (file'.state = "broken" /\ file'.entries = <<>>)
    BY <1>8 DEF FileFails, NotWhole
  <2>3. <<>> \in Seq(Entry)
    OBVIOUS
  <2> QED BY <1>8, <2>1, <2>2, <2>3 DEF FileFails, TypeInv
<1>9. ASSUME NEW i \in Instances, Start(i) PROVE TypeInv'
  <2>1. ControlType'
    BY <1>0, <1>9 DEF Start, ControlType
  <2> QED BY <1>9, <2>1 DEF Start, TypeInv
<1>10. CASE UNCHANGED vars
  BY <1>10 DEF vars, TypeInv, ControlType
<1> QED BY <1>1, <1>2, <1>3, <1>6, <1>7, <1>8, <1>9, <1>10 DEF Next, Records, Edits

(* Every variable keeps its type, for any number of instances and records,  *)
(* and any old cache.                                                       *)
THEOREM TypeCorrect == Spec => []TypeOK
<1>1. TypeInv => TypeOK
  BY DEF TypeInv, TypeOK, ControlType, IsEntries
<1> QED BY <1>1, TypeInit, TypeStep, PTL DEF Spec
-----------------------------------------------------------------------------
(* What is counted was recorded *)

Bounded(entries) == Runs(entries) <= RunsBefore + records

(* The old cache is migrated only where there is one.                       *)
CountInv ==
  /\ TypeInv
  /\ Bounded(file.entries)
  /\ \A i \in Instances :
       /\ Bounded(store[i])
       /\ pc[i] \in {"migrate", "copy"} => old

LEMMA BeforeIsCounted ==
  RunsBefore \in Nat /\ (old => Runs(OldEntries) = RunsBefore)
BY RunsAreFinite, OldAssumption DEF RunsBefore

LEMMA CountInit == Init => CountInv
<1> SUFFICES ASSUME Init PROVE CountInv
  OBVIOUS
<1>1. /\ file.entries = <<>> /\ records = 0
      /\ \A i \in Instances : store[i] = <<>> /\ pc[i] = "off"
  BY DEF Init, NotWhole
<1>2. Runs(<<>>) <= RunsBefore + 0
  BY EmptyRuns, BeforeIsCounted
<1> QED BY <1>1, <1>2, TypeInit DEF CountInv, Bounded

(* What stays as it was stays within bounds, as does an empty history.      *)
LEMMA CountKept ==
  ASSUME CountInv, TypeInv', old' = old, records' \in {records, records + 1},
         file'.entries \in {file.entries, <<>>},
         \A i \in Instances : store'[i] \in {store[i], file.entries, <<>>},
         \A i \in Instances : pc'[i] \in {"migrate", "copy"} => pc[i] \in {"migrate", "copy"}
  PROVE  CountInv'
<1>1. RunsBefore' = RunsBefore /\ RunsBefore \in Nat /\ records \in Nat
  BY BeforeIsCounted, OldAssumption DEF CountInv, TypeInv, RunsBefore
<1>2. ASSUME NEW entries \in Seq(Entry), Bounded(entries) PROVE Runs(entries) <= RunsBefore + records'
  <2>1. Runs(entries) \in Nat
    BY RunsAreFinite
  <2> QED BY <1>1, <1>2, <2>1 DEF Bounded
<1>3. <<>> \in Seq(Entry) /\ Bounded(<<>>)
  BY <1>1, EmptyRuns DEF Bounded
<1>4. file.entries \in Seq(Entry) /\ Bounded(file.entries)
  BY DEF CountInv, TypeInv
<1>5. \A i \in Instances : store[i] \in Seq(Entry) /\ Bounded(store[i])
  BY DEF CountInv, TypeInv
<1>6. Runs(file'.entries) <= RunsBefore + records'
  BY <1>2, <1>3, <1>4
<1>7. \A i \in Instances : Runs(store'[i]) <= RunsBefore + records'
  BY <1>2, <1>3, <1>4, <1>5
<1> QED BY <1>1, <1>6, <1>7 DEF CountInv, Bounded

LEMMA CountStep == CountInv /\ [Next]_vars => CountInv'
<1> SUFFICES ASSUME CountInv, [Next]_vars PROVE CountInv'
  OBVIOUS
<1>0. /\ TypeInv /\ TypeInv' /\ ControlType /\ store \in [Instances -> Seq(Entry)]
      /\ \A i \in Instances : pc[i] \in {"migrate", "copy"} => old
  BY TypeStep DEF CountInv, TypeInv
<1>1. ASSUME NEW i \in Instances, NEW entries \in Seq(Entry), store' = [store EXCEPT ![i] = entries],
             NEW more \in {0, 1}, Runs(entries) = Runs(store[i]) + more, records' = records + more,
             UNCHANGED <<old, file>>,
             \A j \in Instances : pc'[j] \in {"migrate", "copy"} => pc[j] \in {"migrate", "copy"}
      PROVE  CountInv'
  <2>1. RunsBefore' = RunsBefore /\ RunsBefore \in Nat /\ records \in Nat
    BY <1>1, BeforeIsCounted, OldAssumption DEF CountInv, TypeInv, RunsBefore
  <2>2. \A j \in Instances : Runs(store[j]) \in Nat /\ Runs(store[j]) <= RunsBefore + records
    BY <1>0, RunsAreFinite DEF CountInv, Bounded
  <2>3. Runs(file.entries) \in Nat /\ Runs(file.entries) <= RunsBefore + records
    BY <1>0, RunsAreFinite DEF CountInv, TypeInv, Bounded
  <2>4. \A j \in Instances : Runs(store'[j]) <= RunsBefore + records'
    BY <1>0, <1>1, <2>1, <2>2
  <2>5. Runs(file'.entries) <= RunsBefore + records'
    BY <1>1, <2>1, <2>3
  <2> QED BY <1>0, <1>1, <2>1, <2>4, <2>5 DEF CountInv, Bounded
<1>2. ASSUME NEW i \in Instances, Records(i) PROVE CountInv'
  <2>1. \A j \in Instances : pc'[j] \in {"migrate", "copy"} => pc[j] \in {"migrate", "copy"}
    BY <1>0, <1>2, RecordsShape DEF ControlType
  <2>2. PICK entries \in Seq(Entry) :
          Runs(entries) = Runs(store[i]) + 1 /\ store' = [store EXCEPT ![i] = entries]
    BY <1>0, <1>2, RecordsShape
  <2>3. records' = records + 1 /\ UNCHANGED <<old, file>>
    BY <1>0, <1>2, RecordsShape
  <2> QED BY <1>1, <2>1, <2>2, <2>3
<1>3. ASSUME NEW i \in Instances, Edits(i) PROVE CountInv'
  <2>1. UNCHANGED <<old, file, pc, records>>
    BY <1>0, <1>3, EditsShape
  <2>2. PICK entries \in Seq(Entry) :
          Runs(entries) = Runs(store[i]) /\ store' = [store EXCEPT ![i] = entries]
    BY <1>0, <1>3, EditsShape
  <2>3. Runs(entries) = Runs(store[i]) + 0 /\ records' = records + 0
    BY <1>0, <2>1, <2>2, RunsAreFinite, OldAssumption DEF TypeInv
  <2> QED BY <1>1, <2>1, <2>2, <2>3
<1>4. ASSUME NEW i \in Instances, CachePath(i) PROVE CountInv'
  <2>1. \A j \in Instances : pc'[j] \in {"migrate", "copy"} => old
    BY <1>0, <1>4 DEF CachePath, ControlType
  <2> QED BY <1>0, <1>4, <2>1 DEF CachePath, CountInv, Bounded, RunsBefore
<1>5. ASSUME NEW i \in Instances, (Opens(i, "copy") /\ pc[i] = "migrate") \/ Opens(i, "write")
      PROVE  CountInv'
  <2>1. \A j \in Instances : pc'[j] \in {"migrate", "copy"} => pc[j] \in {"migrate", "copy"}
    BY <1>0, <1>5 DEF Opens, ControlType
  <2>2. file'.entries = <<>> /\ UNCHANGED <<old, store, records>>
    BY <1>5 DEF Opens, NotWhole
  <2> QED BY <1>0, <2>1, <2>2, CountKept
<1>6. ASSUME NEW i \in Instances, NEW entries \in Seq(Entry), Bounded(entries),
             NEW next \in {"load", "save", "idle"}, Writes(i, entries, next)
      PROVE  CountInv'
  <2>1. \A j \in Instances : pc'[j] \in {"migrate", "copy"} => pc[j] \in {"migrate", "copy"}
    BY <1>0, <1>6 DEF Writes, ControlType
  <2>2. UNCHANGED <<old, store, records>>
    BY <1>6 DEF Writes
  <2>3. CASE file' = NotWhole("broken")
    BY <1>0, <2>1, <2>2, <2>3, CountKept DEF NotWhole
  <2>4. CASE file' = Whole(Unshared(entries))
    <3>1. Runs(file'.entries) = Runs(entries)
      BY <2>4, UnsharedRuns DEF Whole
    <3> QED BY <1>0, <1>6, <2>1, <2>2, <3>1 DEF CountInv, Bounded, RunsBefore
  <2> QED BY <1>6, <2>3, <2>4 DEF Writes
<1>7. ASSUME NEW i \in Instances, MigrateOldCache(i) \/ SaveTo(i) PROVE CountInv'
  <2>1. task[i] \in {"load", "save"} /\ store[i] \in Seq(Entry) /\ OldEntries \in Seq(Entry)
    BY <1>0, OldAssumption DEF ControlType
  <2>2. Bounded(store[i])
    BY DEF CountInv
  <2>3. old => Bounded(OldEntries)
    BY <1>0, BeforeIsCounted, OldAssumption DEF Bounded, TypeInv
  <2> QED BY <1>0, <1>5, <1>6, <1>7, <2>1, <2>2, <2>3 DEF MigrateOldCache, SaveTo
<1>8. ASSUME NEW i \in Instances, LoadFrom(i) \/ LoadFails(i) \/ Ends(i) PROVE CountInv'
  <2>1. \A j \in Instances : pc'[j] \in {"migrate", "copy"} => pc[j] \in {"migrate", "copy"}
    BY <1>0, <1>8 DEF LoadFrom, LoadFails, Ends, ControlType
  <2>2. UNCHANGED <<old, file, records>>
    BY <1>8 DEF LoadFrom, LoadFails, Ends
  <2>3. \A j \in Instances : store'[j] \in {store[j], file.entries, <<>>}
    BY <1>0, <1>8 DEF LoadFrom, LoadFails, Ends
  <2> QED BY <1>0, <2>1, <2>2, <2>3, CountKept
<1>9. ASSUME NEW i \in Instances, FileFails(i) \/ Start(i) PROVE CountInv'
  <2>1. \A j \in Instances : pc'[j] \in {"migrate", "copy"} => pc[j] \in {"migrate", "copy"}
    BY <1>0, <1>9 DEF FileFails, Start, ControlType
  <2>2. UNCHANGED <<old, store, records>> /\ file'.entries \in {file.entries, <<>>}
    BY <1>9 DEF FileFails, Start, NotWhole
  <2> QED BY <1>0, <2>1, <2>2, CountKept
<1>10. CASE UNCHANGED vars
  BY <1>0, <1>10, CountKept DEF vars
<1> QED BY <1>2, <1>3, <1>4, <1>7, <1>8, <1>9, <1>10 DEF Next, Records, Edits

(* Whatever is killed, fails or overlaps, and however often the old cache   *)
(* is migrated: the history counts no run that was not recorded.            *)
THEOREM NothingIsInvented == Spec => []NothingInvented
<1>1. CountInv => NothingInvented
  BY DEF CountInv, Bounded, NothingInvented
<1> QED BY <1>1, CountInit, CountStep, PTL DEF Spec
-----------------------------------------------------------------------------
(* Undisturbed, nothing that was recorded is lost *)

AllRuns == RunsBefore + records

(* What an instance that starts now will know. *)
FileKnows ==
  \/ file.state = "none" /\ records = 0
  \/ file.state = "whole" /\ Runs(file.entries) = AllRuns

Holds(i) == Runs(store[i]) = AllRuns

(* Where an instance is decides who has all the runs: the file, while it    *)
(* starts, the old cache, while that is migrated, the instance, as soon as  *)
(* it has loaded the file, and both when it has nothing to save.            *)
Knows(i) ==
  \/ pc[i] = "off"
  \/ pc[i] = "idle" /\ Holds(i) /\ FileKnows
  \/ pc[i] \in {"path", "migrate", "copy", "save", "write"} /\ task[i] = "save" /\ Holds(i)
  \/ pc[i] = "path" /\ task[i] = "load" /\ FileKnows
  \/ pc[i] = "migrate" /\ task[i] = "load" /\ old /\ records = 0 /\ file.state = "none"
  \/ pc[i] = "copy" /\ task[i] = "load" /\ old /\ records = 0
  \/ pc[i] = "load" /\ task[i] = "load" /\ FileKnows /\ (file.state = "none" => ~old)

Kept ==
  ~disturbed =>
    /\ (\A i \in Instances : pc[i] = "off") => FileKnows
    /\ \A i \in Instances : Knows(i)

KeepInv == TypeInv /\ FileInv /\ Kept

(* Undisturbed, a step of an instance that runs leaves the others off.      *)
LEMMA OneKnows ==
  ASSUME KeepInv, ~disturbed, NEW i \in Instances, pc[i] # "off", NEW next,
         pc' = [pc EXCEPT ![i] = next], Knows(i)', next = "off" => FileKnows'
  PROVE  Kept'
<1>1. \A j \in Instances : j # i => pc[j] = "off"
  BY OnlyWriter DEF KeepInv
<1>2. pc'[i] = next /\ \A j \in Instances : j # i => pc'[j] = "off"
  BY <1>1 DEF KeepInv, FileInv, ControlType
<1>3. \A j \in Instances : Knows(j)'
  BY <1>2 DEF Knows
<1> QED BY <1>2, <1>3 DEF Kept

LEMMA OneStays ==
  ASSUME KeepInv, ~disturbed, NEW i \in Instances, pc[i] # "off", NEW next, next # "off",
         pc' = [pc EXCEPT ![i] = next], Knows(i)'
  PROVE  Kept'
BY OneKnows

LEMMA RunsKnown ==
  ASSUME TypeInv
  PROVE  /\ AllRuns \in Nat /\ records \in Nat /\ RunsBefore \in Nat
         /\ \A i \in Instances : store[i] \in Seq(Entry) /\ Runs(store[i]) \in Nat
BY BeforeIsCounted, RunsAreFinite, OldAssumption DEF TypeInv, AllRuns

LEMMA KeepInit == Init => KeepInv
<1> SUFFICES ASSUME Init PROVE KeepInv
  OBVIOUS
<1>1. file.state = "none" /\ records = 0 /\ \A i \in Instances : pc[i] = "off"
  BY DEF Init, NotWhole
<1> QED BY <1>1, TypeInit, FileInit DEF KeepInv, Kept, FileKnows, Knows

(* What an instance does while the file stays as it is.                     *)
LEMMA MemoryKeeps ==
  ASSUME KeepInv, ~disturbed, NEW i \in Instances,
         Records(i) \/ Edits(i) \/ CachePath(i) \/ LoadFrom(i)
  PROVE  Kept'
<1>0. /\ TypeInv /\ ControlType /\ Knows(i) /\ pc \in [Instances -> {"off", "path", "migrate", "copy", "load", "idle", "save", "write"}]
      /\ task \in [Instances -> {"load", "save"}] /\ store \in [Instances -> Seq(Entry)]
  BY DEF KeepInv, Kept, TypeInv, ControlType
<1>1. CASE Records(i)
  <2>1. /\ pc[i] = "idle" /\ pc' = [pc EXCEPT ![i] = "path"] /\ task' = [task EXCEPT ![i] = "save"]
        /\ records' = records + 1 /\ UNCHANGED <<old, file, disturbed>>
    BY <1>0, <1>1, RecordsShape
  <2>2. Runs(store'[i]) = Runs(store[i]) + 1
    BY <1>0, <1>1, RecordsShape
  <2>3. Holds(i)'
    BY <1>0, <2>1, <2>2, RunsKnown DEF Knows, Holds, AllRuns, RunsBefore
  <2>4. Knows(i)'
    BY <1>0, <2>1, <2>3 DEF Knows
  <2> DEFINE next == "path"
  <2>5. pc[i] # "off" /\ pc' = [pc EXCEPT ![i] = next] /\ next # "off"
    BY <2>1
  <2> HIDE DEF next
  <2> QED BY <2>4, <2>5, OneStays
<1>2. CASE Edits(i)
  <2>1. UNCHANGED <<old, file, pc, task, records, made, disturbed>>
    BY <1>0, <1>2, EditsShape
  <2>2. Runs(store'[i]) = Runs(store[i])
    BY <1>0, <1>2, EditsShape
  <2>3. pc[i] = "idle" /\ pc' = [pc EXCEPT ![i] = "idle"]
    BY <1>0, <1>2, <2>1 DEF Edits, EditInput, InitializeInputs, ReplayEntry
  <2>4. Holds(i)' /\ FileKnows'
    BY <1>0, <2>1, <2>2, <2>3 DEF Knows, Holds, AllRuns, RunsBefore, FileKnows
  <2>5. Knows(i)'
    BY <2>1, <2>3, <2>4 DEF Knows
  <2> QED BY <2>3, <2>5, OneKnows
<1>3. CASE CachePath(i)
  <2>1. UNCHANGED <<old, file, task, store, records, disturbed>> /\ pc[i] = "path"
    BY <1>3 DEF CachePath
  <2> DEFINE next == IF old /\ file.state = "none" THEN "migrate" ELSE task[i]
  <2>2. pc' = [pc EXCEPT ![i] = next]
    BY <1>3 DEF CachePath
  <2>3. pc'[i] = next /\ (FileKnows' <=> FileKnows) /\ (Holds(i)' <=> Holds(i))
    BY <1>0, <2>1, <2>2 DEF FileKnows, Holds, AllRuns, RunsBefore
  <2>4. \/ task[i] = "save" /\ Holds(i)
        \/ task[i] = "load" /\ FileKnows
    BY <1>0, <2>1 DEF Knows
  <2>5. Knows(i)'
    <3>1. CASE task[i] = "save" /\ Holds(i)
      BY <2>1, <2>3, <3>1 DEF Knows
    <3>2. CASE task[i] = "load" /\ FileKnows /\ old /\ file.state = "none"
      <4>1. records = 0
        BY <3>2 DEF FileKnows
      <4> QED BY <2>1, <2>3, <3>2, <4>1 DEF Knows
    <3>3. CASE task[i] = "load" /\ FileKnows /\ ~(old /\ file.state = "none")
      BY <2>1, <2>3, <3>3 DEF Knows
    <3> QED BY <2>4, <3>1, <3>2, <3>3
  <2>6. next # "off"
    BY <1>0
  <2> HIDE DEF next
  <2> QED BY <2>1, <2>2, <2>5, <2>6, OneKnows
<1>4. CASE LoadFrom(i)
  <2>1. /\ pc[i] = "load" /\ pc' = [pc EXCEPT ![i] = "idle"]
        /\ store'[i] = file.entries
        /\ UNCHANGED <<old, file, records, disturbed>>
    BY <1>0, <1>4 DEF LoadFrom
  <2>2. FileKnows /\ (file.state = "none" => ~old)
    BY <1>0, <2>1 DEF Knows
  <2>3. Runs(file.entries) = AllRuns
    <3>1. CASE file.state = "none"
      <4>1. file.entries = <<>> /\ records = 0 /\ RunsBefore = 0
        BY <1>0, <2>2, <3>1 DEF TypeInv, FileKnows, RunsBefore
      <4> QED BY <4>1, EmptyRuns DEF AllRuns
    <3>2. CASE file.state # "none"
      BY <2>2, <3>2 DEF FileKnows
    <3> QED BY <3>1, <3>2
  <2>4. Holds(i)' /\ FileKnows' /\ pc'[i] = "idle"
    BY <1>0, <2>1, <2>2, <2>3 DEF Holds, FileKnows, AllRuns, RunsBefore
  <2>5. Knows(i)'
    BY <2>4 DEF Knows
  <2> DEFINE next == "idle"
  <2>6. pc[i] # "off" /\ pc' = [pc EXCEPT ![i] = next] /\ next # "off"
    BY <2>1
  <2> HIDE DEF next
  <2> QED BY <2>5, <2>6, OneStays
<1> QED BY <1>1, <1>2, <1>3, <1>4

(* What it does to the file. *)
LEMMA FileKeeps ==
  ASSUME KeepInv, ~disturbed, NEW i \in Instances, MigrateOldCache(i) \/ SaveTo(i)
  PROVE  Kept'
<1>0. /\ TypeInv /\ ControlType /\ Knows(i) /\ EmptyWhileWritten
      /\ store[i] \in Seq(Entry) /\ OldEntries \in Seq(Entry)
  BY OldAssumption DEF KeepInv, FileInv, Kept, TypeInv
<1>1. ASSUME NEW next, next # "off", pc[i] # "off", Opens(i, next),
             pc'[i] = next /\ (Holds(i)' <=> Holds(i)) => Knows(i)'
      PROVE  Kept'
  <2>1. pc' = [pc EXCEPT ![i] = next] /\ UNCHANGED <<store, records, old>>
    BY <1>1 DEF Opens
  <2>2. pc'[i] = next /\ (Holds(i)' <=> Holds(i))
    BY <1>0, <2>1 DEF ControlType, Holds, AllRuns, RunsBefore
  <2> QED BY <1>1, <2>1, <2>2, OneStays
<1>2. ASSUME NEW entries \in Seq(Entry), NEW next \in {"load", "save", "idle"},
             pc[i] \in {"copy", "write"}, Writes(i, entries, next)
      PROVE  /\ pc' = [pc EXCEPT ![i] = next] /\ pc'[i] = next
             /\ file'.state = "whole" /\ Runs(file'.entries) = Runs(entries)
             /\ UNCHANGED <<old, task, store, records, disturbed>>
  <2>1. file.state = "empty"
    BY <1>0, <1>2 DEF EmptyWhileWritten, Writing
  <2>2. file' = Whole(Unshared(entries))
    BY <1>2, <2>1 DEF Writes
  <2>3. file'.state = "whole" /\ file'.entries = Unshared(entries)
    BY <2>2 DEF Whole
  <2>4. pc' = [pc EXCEPT ![i] = next] /\ UNCHANGED <<old, task, store, records, disturbed>>
    BY <1>2 DEF Writes
  <2> QED BY <1>0, <2>3, <2>4, UnsharedRuns DEF ControlType
<1>3. CASE pc[i] = "copy" /\ Writes(i, OldEntries, task[i])
  <2>1. task[i] \in {"load", "save"}
    BY <1>0 DEF ControlType
  <2>2. /\ pc' = [pc EXCEPT ![i] = task[i]] /\ pc'[i] = task[i]
        /\ file'.state = "whole" /\ Runs(file'.entries) = Runs(OldEntries)
        /\ UNCHANGED <<old, task, store, records, disturbed>>
    BY <1>0, <1>2, <1>3, <2>1
  <2>3. Knows(i)'
    <3>1. CASE task[i] = "save"
      <4>1. Holds(i)'
        BY <1>0, <1>3, <2>2, <3>1 DEF Knows, Holds, AllRuns, RunsBefore
      <4> QED BY <2>2, <3>1, <4>1 DEF Knows
    <3>2. CASE task[i] = "load"
      <4>1. old /\ records = 0
        BY <1>0, <1>3, <3>2 DEF Knows
      <4>2. Runs(OldEntries) = RunsBefore + 0 /\ RunsBefore' = RunsBefore
        BY <2>2, <4>1, BeforeIsCounted DEF RunsBefore
      <4>3. FileKnows'
        BY <2>2, <4>1, <4>2 DEF FileKnows, AllRuns
      <4> QED BY <2>2, <3>2, <4>3 DEF Knows
    <3> QED BY <2>1, <3>1, <3>2
  <2> QED BY <1>3, <2>1, <2>2, <2>3, OneKnows
<1>4. CASE pc[i] = "write" /\ Writes(i, store[i], "idle")
  <2>1. /\ pc' = [pc EXCEPT ![i] = "idle"] /\ pc'[i] = "idle"
        /\ file'.state = "whole" /\ Runs(file'.entries) = Runs(store[i])
        /\ UNCHANGED <<old, task, store, records, disturbed>>
    BY <1>0, <1>2, <1>4
  <2>2. Holds(i)
    BY <1>0, <1>4 DEF Knows
  <2>3. Holds(i)' /\ FileKnows'
    BY <2>1, <2>2 DEF Holds, FileKnows, AllRuns, RunsBefore
  <2>4. Knows(i)'
    BY <2>1, <2>3 DEF Knows
  <2> QED BY <1>4, <2>1, <2>4, OneKnows
<1>5. CASE pc[i] = "migrate" /\ Opens(i, "copy")
  <2> DEFINE next == "copy"
  <2>1. next # "off" /\ pc[i] # "off" /\ Opens(i, next) /\ UNCHANGED <<old, task, records>>
    BY <1>5 DEF Opens
  <2>2. pc'[i] = next /\ (Holds(i)' <=> Holds(i)) => Knows(i)'
    BY <1>0, <1>5, <2>1 DEF Knows
  <2> HIDE DEF next
  <2> QED BY <1>1, <2>1, <2>2
<1>6. CASE pc[i] = "save" /\ Opens(i, "write")
  <2> DEFINE next == "write"
  <2>1. next # "off" /\ pc[i] # "off" /\ Opens(i, next) /\ UNCHANGED <<old, task, records>>
    BY <1>6 DEF Opens
  <2>2. pc'[i] = next /\ (Holds(i)' <=> Holds(i)) => Knows(i)'
    BY <1>0, <1>6, <2>1 DEF Knows
  <2> HIDE DEF next
  <2> QED BY <1>1, <2>1, <2>2
<1> QED BY <1>3, <1>4, <1>5, <1>6 DEF MigrateOldCache, SaveTo

LEMMA KeepStep == KeepInv /\ [Next]_vars => KeepInv'
<1> SUFFICES ASSUME KeepInv, [Next]_vars PROVE KeepInv'
  OBVIOUS
<1>0. TypeInv' /\ FileInv' /\ ControlType /\ disturbed \in BOOLEAN
  BY TypeStep, FileStep DEF KeepInv, FileInv, ControlType
<1> SUFFICES Kept'
  BY <1>0 DEF KeepInv
<1>1. CASE disturbed'
  BY <1>1 DEF Kept
<1>2. ASSUME NEW i \in Instances,
             Records(i) \/ Edits(i) \/ CachePath(i) \/ LoadFrom(i) \/ MigrateOldCache(i) \/ SaveTo(i),
             ~disturbed'
      PROVE  Kept'
  <2>1. UNCHANGED disturbed
    BY <1>2 DEF Records, DoExecuteWorkflow, RecordsChain, Edits, EditInput, InitializeInputs,
                ReplayEntry, CachePath, LoadFrom, MigrateOldCache, SaveTo, Opens, Writes
  <2> QED BY <1>2, <2>1, MemoryKeeps, FileKeeps
<1>3. ASSUME NEW i \in Instances, LoadFails(i) \/ FileFails(i) PROVE disturbed'
  BY <1>3 DEF LoadFails, FileFails
<1>4. ASSUME NEW i \in Instances, Start(i), ~disturbed' PROVE Kept'
  <2>1. ~disturbed /\ \A j \in Instances : pc[j] = "off"
    BY <1>0, <1>4 DEF Start
  <2>2. FileKnows /\ UNCHANGED <<old, file, records>>
    BY <1>4, <2>1 DEF KeepInv, Kept, Start
  <2>3. /\ \A j \in Instances : j # i => pc'[j] = "off"
        /\ pc'[i] = "path" /\ task'[i] = "load"
    BY <1>0, <1>4, <2>1 DEF Start, ControlType
  <2>4. FileKnows'
    BY <2>2 DEF FileKnows, AllRuns, RunsBefore
  <2> QED BY <2>3, <2>4 DEF Kept, Knows
<1>5. ASSUME NEW i \in Instances, Ends(i), ~disturbed' PROVE Kept'
  <2>1. /\ ~disturbed /\ pc[i] \notin {"off", "copy", "write"}
        /\ ~(task[i] = "save" /\ pc[i] \in {"path", "migrate", "save"})
        /\ pc' = [pc EXCEPT ![i] = "off"] /\ UNCHANGED <<old, file, records>>
    BY <1>0, <1>5 DEF Ends, Writing, Unsaved
  <2>2. Knows(i)
    BY <2>1 DEF KeepInv, Kept
  <2>3. FileKnows
    BY <2>1, <2>2 DEF Knows, FileKnows
  <2>4. FileKnows' /\ pc'[i] = "off"
    BY <1>0, <2>1, <2>3 DEF FileKnows, AllRuns, RunsBefore, ControlType
  <2>5. Knows(i)'
    BY <2>4 DEF Knows
  <2> QED BY <2>1, <2>4, <2>5, OneKnows
<1>6. CASE UNCHANGED vars
  BY <1>6 DEF vars, KeepInv, Kept, Knows, Holds, FileKnows, AllRuns, RunsBefore
<1> QED BY <1>1, <1>2, <1>3, <1>4, <1>5, <1>6 DEF Next, Records, Edits

(* As long as instances run one after the other and none is killed or fails *)
(* in a save, an instance knows every run that was recorded, by itself, by  *)
(* an earlier one or in the old cache.                                      *)
THEOREM AllRunsAreKept == Spec => []KeepsAllRuns
<1>1. KeepInv => KeepsAllRuns
  BY DEF KeepInv, Kept, Knows, Holds, AllRuns, KeepsAllRuns
<1> QED BY <1>1, KeepInit, KeepStep, PTL DEF Spec
=============================================================================
