-------------------------- MODULE RunWatcherProofs --------------------------
(***************************************************************************)
(* Proofs about RunWatcher, for every set of runs and of goroutines that   *)
(* call Watch, and every capacity of the channel.                          *)
(***************************************************************************)
EXTENDS RunWatcher, TLAPS

(* A goroutine inside pollRun, or about to call it, has a run to poll. *)
PollsARun == \A t \in Threads : pc[t] \in InPoll \cup {"ensure"} => poll[t] \in RunIDs

TypeInv == TypeOK /\ PollsARun

(* Stop closes the channel only when the loop is gone; one that is started  *)
(* afterwards never gets to poll.                                           *)
ClosedToLoop == stop = "closed" => pc[Loop] \in {"none", "select"}

(* The answer a goroutine has yet to store may be old, but was true once.   *)
AnswerWasTrue ==
  \A t \in Threads : pc[t] = "jobs" /\ got[t] = "completed" => github[poll[t]] = "completed"

SafeInv ==
  /\ TypeInv
  /\ PlaceholderIsBeingPolled
  /\ ClosedToLoop /\ LoopIsAwaited
  /\ AnswerWasTrue /\ CompletedHasCompleted

-----------------------------------------------------------------------------
(* Next, one step of one goroutine at a time. *)
LEMMA NextCases ==
  ASSUME NEW P,
         \A t \in Callers, r \in RunIDs : Watch(t, r) => P,
         \A t \in Callers : EnsurePolling(t) => P,
         Tick => P, LoopExits => P, PollNext => P,
         \A t \in Threads : GetWorkflowRun(t) => P,
         \A t \in Threads : PollFails(t) => P,
         \A t \in Threads : StoreRun(t) => P,
         \A t \in Threads : SendUpdate(t) => P,
         \A t \in Threads : SendPanics(t) => P,
         \A r \in RunIDs : Unwatch(r) => P,
         ClearCompleted => P, Cancel => P, Close => P,
         \A r \in RunIDs : RunAdvances(r) => P,
         UNCHANGED vars => P
  PROVE  [Next]_vars => P
BY DEF Next, PollRun

(* Entry puts one entry on the list and leaves the others as they are.      *)
LEMMA EntryFacts ==
  ASSUME DOMAIN runs \subseteq RunIDs, runs \in [DOMAIN runs -> WatchedRun],
         NEW r \in RunIDs, NEW entry \in WatchedRun
  PROVE  /\ DOMAIN Entry(r, entry) = DOMAIN runs \cup {r}
         /\ DOMAIN Entry(r, entry) \subseteq RunIDs
         /\ Entry(r, entry) \in [DOMAIN Entry(r, entry) -> WatchedRun]
         /\ Entry(r, entry)[r] = entry
         /\ \A s \in DOMAIN runs : s # r => Entry(r, entry)[s] = runs[s]
<1>1. Entry(r, entry) \in [DOMAIN runs \cup {r} -> WatchedRun]
  BY DEF Entry
<1>2. DOMAIN Entry(r, entry) = DOMAIN runs \cup {r}
  BY DEF Entry
<1> QED BY <1>1, <1>2 DEF Entry

(* A step that puts an entry on the list. *)
LEMMA EntryStep ==
  ASSUME DOMAIN runs \subseteq RunIDs, runs \in [DOMAIN runs -> WatchedRun],
         NEW r \in RunIDs, NEW entry \in WatchedRun, runs' = Entry(r, entry)
  PROVE  /\ DOMAIN runs' = DOMAIN runs \cup {r}
         /\ runs'[r] = entry
         /\ \A s \in DOMAIN runs : s # r => runs'[s] = runs[s]
BY EntryFacts

(* A failed poll changes nothing but LastError, of its run alone.           *)
LEMMA FailedFacts ==
  ASSUME runs \in [DOMAIN runs -> WatchedRun], NEW t \in Threads, PollFails(t)
  PROVE  /\ DOMAIN runs' = DOMAIN runs
         /\ runs' \in [DOMAIN runs -> WatchedRun]
         /\ \A r \in DOMAIN runs :
              /\ runs'[r].status = runs[r].status
              /\ runs'[r].polled = runs[r].polled
              /\ runs'[r].failed <=> (runs[r].failed \/ r = poll[t])
<1>1. runs' = [r \in DOMAIN runs |-> [runs[r] EXCEPT !.failed = @ \/ r = poll[t]]]
  BY DEF PollFails
<1>2. DOMAIN runs' = DOMAIN runs
  BY <1>1
<1>3. ASSUME NEW r \in DOMAIN runs
      PROVE  /\ runs'[r] \in WatchedRun
             /\ runs'[r].status = runs[r].status
             /\ runs'[r].polled = runs[r].polled
             /\ runs'[r].failed <=> (runs[r].failed \/ r = poll[t])
  <2>1. runs[r] \in WatchedRun
    OBVIOUS
  <2>2. runs'[r] = [runs[r] EXCEPT !.failed = @ \/ r = poll[t]]
    BY <1>1
  <2> QED BY <2>1, <2>2 DEF WatchedRun
<1>4. runs' \in [DOMAIN runs -> WatchedRun]
  BY <1>1, <1>2, <1>3
<1> QED BY <1>2, <1>3, <1>4

(* The names of the goroutines differ. *)
LEMMA ThreadFacts == Loop \in Threads /\ (\A t \in Callers : t \in Threads /\ t # Loop)
BY NamesAssumption DEF Threads

-----------------------------------------------------------------------------
(* Type correctness *)

LEMMA TypeInit == Init => TypeInv
<1> SUFFICES ASSUME Init PROVE TypeInv
  OBVIOUS
<1>1. DOMAIN runs = {} /\ runs \in [DOMAIN runs -> WatchedRun]
  BY DEF Init
<1>2. pc \in [Threads -> {"none", "idle"}] /\ poll \in [Threads -> {NoRun}]
  BY DEF Init
<1>3. got \in [Threads -> RunStatus] /\ github \in [RunIDs -> RunStatus]
  BY DEF Init, RunStatus
<1>4. queued = 0 /\ queued \in 0..UpdateCap
  BY CapAssumption DEF Init
<1>5. isPolling \in BOOLEAN /\ todo \subseteq RunIDs /\ stop = "no"
  BY DEF Init
<1>6. TypeOK
  BY <1>1, <1>2, <1>3, <1>4, <1>5 DEF TypeOK
<1>7. PollsARun
  BY <1>2 DEF PollsARun, InPoll
<1> QED BY <1>6, <1>7 DEF TypeInv

LEMMA TypeStep == TypeInv /\ [Next]_vars => TypeInv'
<1> SUFFICES ASSUME TypeInv, [Next]_vars PROVE TypeInv'
  OBVIOUS
<1> USE ThreadFacts DEF TypeInv, watcher
<1>1. ASSUME NEW t \in Callers, NEW r \in RunIDs, Watch(t, r) PROVE TypeInv'
  <2>1. [status |-> "active", polled |-> FALSE, failed |-> FALSE] \in WatchedRun
    BY DEF WatchedRun, RunStatus
  <2>2. DOMAIN runs' \subseteq RunIDs /\ runs' \in [DOMAIN runs' -> WatchedRun]
    BY <1>1, <2>1, EntryFacts DEF Watch, TypeOK
  <2>3. TypeOK'
    BY <1>1, <2>2 DEF Watch, TypeOK
  <2>4. PollsARun'
    BY <1>1 DEF Watch, TypeOK, PollsARun
  <2> QED BY <2>3, <2>4
<1>2. ASSUME NEW t \in Callers, EnsurePolling(t) PROVE TypeInv'
  <2>1. TypeOK'
    BY <1>2 DEF EnsurePolling, TypeOK, InPoll
  <2>2. PollsARun'
    BY <1>2 DEF EnsurePolling, TypeOK, PollsARun, InPoll
  <2> QED BY <2>1, <2>2
<1>3. ASSUME Tick PROVE TypeInv'
  BY <1>3 DEF Tick, TypeOK, PollsARun, InPoll
<1>4. ASSUME LoopExits PROVE TypeInv'
  BY <1>4 DEF LoopExits, TypeOK, PollsARun, InPoll
<1>5. ASSUME PollNext PROVE TypeInv'
  BY <1>5 DEF PollNext, TypeOK, PollsARun, InPoll
<1>6. ASSUME NEW t \in Threads, GetWorkflowRun(t) PROVE TypeInv'
  <2>1. github[poll[t]] \in RunStatus
    BY <1>6 DEF GetWorkflowRun, TypeOK, PollsARun, InPoll
  <2>2. TypeOK'
    BY <1>6, <2>1 DEF GetWorkflowRun, TypeOK, InPoll
  <2>3. PollsARun'
    BY <1>6 DEF GetWorkflowRun, TypeOK, PollsARun, InPoll
  <2> QED BY <2>2, <2>3
<1>7. ASSUME NEW t \in Threads, PollFails(t) PROVE TypeInv'
  <2>1. DOMAIN runs' \subseteq RunIDs /\ runs' \in [DOMAIN runs' -> WatchedRun]
    BY <1>7, FailedFacts DEF TypeOK
  <2>2. TypeOK'
    BY <1>7, <2>1 DEF PollFails, TypeOK, InPoll, RunStatus
  <2>3. PollsARun'
    BY <1>7 DEF PollFails, TypeOK, PollsARun, InPoll
  <2> QED BY <2>2, <2>3
<1>8. ASSUME NEW t \in Threads, StoreRun(t) PROVE TypeInv'
  <2>1. poll[t] \in RunIDs
    BY <1>8 DEF StoreRun, PollsARun, InPoll
  <2>2. [status |-> got[t], polled |-> TRUE, failed |-> FALSE] \in WatchedRun
    BY DEF WatchedRun, TypeOK
  <2>3. DOMAIN runs' \subseteq RunIDs /\ runs' \in [DOMAIN runs' -> WatchedRun]
    BY <1>8, <2>1, <2>2, EntryFacts DEF StoreRun, TypeOK
  <2>4. TypeOK'
    BY <1>8, <2>3 DEF StoreRun, TypeOK, InPoll, RunStatus
  <2>5. PollsARun'
    BY <1>8 DEF StoreRun, TypeOK, PollsARun, InPoll
  <2> QED BY <2>4, <2>5
<1>9. ASSUME NEW t \in Threads, SendUpdate(t) PROVE TypeInv'
  <2>1. queued' \in 0..UpdateCap
    BY <1>9, CapAssumption DEF SendUpdate, TypeOK
  <2>2. TypeOK'
    BY <1>9, <2>1 DEF SendUpdate, TypeOK
  <2>3. PollsARun'
    BY <1>9 DEF SendUpdate, TypeOK, PollsARun, InPoll
  <2> QED BY <2>2, <2>3
<1>10. ASSUME NEW t \in Threads, SendPanics(t) PROVE TypeInv'
  BY <1>10 DEF SendPanics, TypeOK, PollsARun, InPoll
<1>11. ASSUME NEW r \in RunIDs, Unwatch(r) PROVE TypeInv'
  BY <1>11 DEF Unwatch, TypeOK, PollsARun
<1>12. ASSUME ClearCompleted PROVE TypeInv'
  BY <1>12 DEF ClearCompleted, TypeOK, PollsARun
<1>13. ASSUME Cancel PROVE TypeInv'
  BY <1>13 DEF Cancel, TypeOK, PollsARun
<1>14. ASSUME Close PROVE TypeInv'
  BY <1>14 DEF Close, TypeOK, PollsARun
<1>15. ASSUME NEW r \in RunIDs, RunAdvances(r) PROVE TypeInv'
  <2>1. github' \in [RunIDs -> RunStatus]
    BY <1>15 DEF RunAdvances, TypeOK, RunStatus
  <2> QED BY <1>15, <2>1 DEF RunAdvances, TypeOK, PollsARun
<1>16. ASSUME UNCHANGED vars PROVE TypeInv'
  BY <1>16 DEF vars, TypeOK, PollsARun
<1> QED
  BY <1>1, <1>2, <1>3, <1>4, <1>5, <1>6, <1>7, <1>8, <1>9, <1>10, <1>11, <1>12,
     <1>13, <1>14, <1>15, <1>16, NextCases

(* The list holds runs only, the channel never holds more than fits, and    *)
(* every goroutine is where the code can be, whatever polls overlap.        *)
THEOREM TypeCorrect == Spec => []TypeOK
<1>1. TypeInv => TypeOK
  BY DEF TypeInv
<1> QED BY <1>1, TypeInit, TypeStep, PTL DEF Spec

-----------------------------------------------------------------------------
(* What a step must leave alone for the invariants to stay.                 *)

(* Placeholders stay polled while nobody who polls one goes elsewhere.      *)
LEMMA PlaceholderKept ==
  ASSUME PlaceholderIsBeingPolled, DOMAIN runs' \subseteq DOMAIN runs,
         \A r \in DOMAIN runs' : runs'[r] = runs[r],
         \A t \in Callers : pc[t] \in {"ensure", "fetch", "jobs"} =>
           pc'[t] \in {"ensure", "fetch", "jobs"} /\ poll'[t] = poll[t]
  PROVE  PlaceholderIsBeingPolled'
BY DEF PlaceholderIsBeingPolled

(* An entry on the list, and an answer, stay true while no run is undone.   *)
LEMMA CompletedKept ==
  ASSUME CompletedHasCompleted, DOMAIN runs \subseteq RunIDs,
         \A r \in DOMAIN runs' : r \in DOMAIN runs /\ runs'[r].status = runs[r].status,
         \A r \in RunIDs : github[r] = "completed" => github'[r] = "completed"
  PROVE  CompletedHasCompleted'
BY DEF CompletedHasCompleted

LEMMA AnswersKept ==
  ASSUME AnswerWasTrue, TypeInv,
         \A t \in Threads : pc'[t] = "jobs" =>
           pc[t] = "jobs" /\ got'[t] = got[t] /\ poll'[t] = poll[t],
         \A r \in RunIDs : github[r] = "completed" => github'[r] = "completed"
  PROVE  AnswerWasTrue'
BY DEF AnswerWasTrue, TypeInv, PollsARun, InPoll

-----------------------------------------------------------------------------
LEMMA SafeInit == Init => SafeInv
<1> SUFFICES ASSUME Init PROVE SafeInv
  OBVIOUS
<1>1. TypeInv
  BY TypeInit
<1>2. DOMAIN runs = {}
  BY DEF Init
<1>3. PlaceholderIsBeingPolled /\ CompletedHasCompleted
  BY <1>2 DEF PlaceholderIsBeingPolled, CompletedHasCompleted
<1>4. pc[Loop] = "none" /\ \A t \in Threads : pc[t] \in {"none", "idle"}
  BY ThreadFacts DEF Init
<1>5. ClosedToLoop /\ LoopIsAwaited /\ AnswerWasTrue
  BY <1>4 DEF ClosedToLoop, LoopIsAwaited, AnswerWasTrue
<1> QED BY <1>1, <1>3, <1>5 DEF SafeInv

LEMMA PlaceholderStep == SafeInv /\ [Next]_vars => PlaceholderIsBeingPolled'
<1> SUFFICES ASSUME SafeInv, [Next]_vars PROVE PlaceholderIsBeingPolled'
  OBVIOUS
<1>0. /\ PlaceholderIsBeingPolled
      /\ DOMAIN runs \subseteq RunIDs
      /\ runs \in [DOMAIN runs -> WatchedRun]
      /\ pc \in [Threads -> InPoll \cup {"none", "select", "next", "idle", "ensure", "panic"}]
      /\ poll \in [Threads -> RunIDs \cup {NoRun}]
      /\ got \in [Threads -> RunStatus]
  BY DEF SafeInv, TypeInv, TypeOK
<1> USE ThreadFacts DEF watcher
<1>1. ASSUME NEW t \in Callers, NEW r \in RunIDs, Watch(t, r)
      PROVE  PlaceholderIsBeingPolled'
  <2>1. pc[t] = "idle" /\ pc'[t] = "ensure" /\ poll'[t] = r
    BY <1>0, <1>1 DEF Watch
  <2>2. \A u \in Callers : u # t => pc'[u] = pc[u] /\ poll'[u] = poll[u]
    BY <1>0, <1>1 DEF Watch
  <2> DEFINE entry == [status |-> "active", polled |-> FALSE, failed |-> FALSE]
  <2>3. entry \in WatchedRun
    BY DEF WatchedRun, RunStatus
  <2>4. runs' = Entry(r, entry)
    BY <1>1 DEF Watch
  <2> HIDE DEF entry
  <2>5. /\ DOMAIN runs' = DOMAIN runs \cup {r}
        /\ \A s \in DOMAIN runs : s # r => runs'[s] = runs[s]
    BY <1>0, <2>3, <2>4, EntryStep
  <2> QED BY <1>0, <2>1, <2>2, <2>5 DEF PlaceholderIsBeingPolled
<1>2. ASSUME NEW t \in Callers, EnsurePolling(t) PROVE PlaceholderIsBeingPolled'
  <2>1. \A u \in Callers : pc'[u] = IF u = t THEN "fetch" ELSE pc[u]
    BY <1>0, <1>2 DEF EnsurePolling
  <2> QED BY <1>0, <1>2, <2>1, PlaceholderKept DEF EnsurePolling
<1>3. ASSUME Tick PROVE PlaceholderIsBeingPolled'
  BY <1>0, <1>3, PlaceholderKept DEF Tick
<1>4. ASSUME LoopExits PROVE PlaceholderIsBeingPolled'
  BY <1>0, <1>4, PlaceholderKept DEF LoopExits
<1>5. ASSUME PollNext PROVE PlaceholderIsBeingPolled'
  <2>1. \A u \in Callers : pc'[u] = pc[u] /\ poll'[u] = poll[u]
    BY <1>0, <1>5 DEF PollNext
  <2> QED BY <1>0, <1>5, <2>1, PlaceholderKept DEF PollNext
<1>6. ASSUME NEW t \in Threads, GetWorkflowRun(t) PROVE PlaceholderIsBeingPolled'
  <2>1. \A u \in Callers : pc'[u] = IF u = t THEN "jobs" ELSE pc[u]
    BY <1>0, <1>6 DEF GetWorkflowRun
  <2> QED BY <1>0, <1>6, <2>1, PlaceholderKept DEF GetWorkflowRun
<1>7. ASSUME NEW t \in Threads, PollFails(t) PROVE PlaceholderIsBeingPolled'
  <2>1. \A u \in Callers : u # t => pc'[u] = pc[u]
    BY <1>0, <1>7 DEF PollFails
  <2>2. /\ DOMAIN runs' = DOMAIN runs
        /\ \A r \in DOMAIN runs :
             /\ runs'[r].polled = runs[r].polled
             /\ runs'[r].failed <=> (runs[r].failed \/ r = poll[t])
    BY <1>0, <1>7, FailedFacts
  <2>3. UNCHANGED poll
    BY <1>7 DEF PollFails
  <2> QED BY <1>0, <2>1, <2>2, <2>3 DEF PlaceholderIsBeingPolled
<1>8. ASSUME NEW t \in Threads, StoreRun(t) PROVE PlaceholderIsBeingPolled'
  <2>1. \A u \in Callers : u # t => pc'[u] = pc[u]
    BY <1>0, <1>8 DEF StoreRun
  <2>2. poll[t] \in RunIDs
    BY <1>8 DEF StoreRun, SafeInv, TypeInv, PollsARun, InPoll
  <2> DEFINE entry == [status |-> got[t], polled |-> TRUE, failed |-> FALSE]
  <2>3. entry \in WatchedRun /\ entry.polled
    BY <1>0 DEF WatchedRun
  <2>4. runs' = Entry(poll[t], entry) /\ UNCHANGED poll
    BY <1>8 DEF StoreRun
  <2> HIDE DEF entry
  <2>5. /\ DOMAIN runs' = DOMAIN runs \cup {poll[t]}
        /\ runs'[poll[t]].polled
        /\ \A s \in DOMAIN runs : s # poll[t] => runs'[s] = runs[s]
    BY <1>0, <2>2, <2>3, <2>4, EntryStep
  <2> QED BY <1>0, <2>1, <2>4, <2>5 DEF PlaceholderIsBeingPolled
<1>9. ASSUME NEW t \in Threads, SendUpdate(t) PROVE PlaceholderIsBeingPolled'
  <2>1. \A u \in Callers : u # t => pc'[u] = pc[u] /\ poll'[u] = poll[u]
    BY <1>0, <1>9 DEF SendUpdate
  <2> QED BY <1>0, <1>9, <2>1, PlaceholderKept DEF SendUpdate
<1>10. ASSUME NEW t \in Threads, SendPanics(t) PROVE PlaceholderIsBeingPolled'
  <2>1. \A u \in Callers : u # t => pc'[u] = pc[u]
    BY <1>0, <1>10 DEF SendPanics
  <2> QED BY <1>0, <1>10, <2>1, PlaceholderKept DEF SendPanics
<1>11. ASSUME NEW r \in RunIDs, Unwatch(r) PROVE PlaceholderIsBeingPolled'
  BY <1>0, <1>11, PlaceholderKept DEF Unwatch
<1>12. ASSUME ClearCompleted PROVE PlaceholderIsBeingPolled'
  BY <1>0, <1>12, PlaceholderKept DEF ClearCompleted
<1>13. ASSUME Cancel PROVE PlaceholderIsBeingPolled'
  BY <1>0, <1>13, PlaceholderKept DEF Cancel
<1>14. ASSUME Close PROVE PlaceholderIsBeingPolled'
  BY <1>0, <1>14, PlaceholderKept DEF Close
<1>15. ASSUME NEW r \in RunIDs, RunAdvances(r) PROVE PlaceholderIsBeingPolled'
  BY <1>0, <1>15, PlaceholderKept DEF RunAdvances
<1>16. ASSUME UNCHANGED vars PROVE PlaceholderIsBeingPolled'
  BY <1>0, <1>16, PlaceholderKept DEF vars
<1> QED
  BY <1>1, <1>2, <1>3, <1>4, <1>5, <1>6, <1>7, <1>8, <1>9, <1>10, <1>11, <1>12,
     <1>13, <1>14, <1>15, <1>16, NextCases

(* Where the loop is after a step. *)
LEMMA LoopStep == SafeInv /\ [Next]_vars => ClosedToLoop' /\ LoopIsAwaited'
<1> SUFFICES ASSUME SafeInv, [Next]_vars PROVE ClosedToLoop' /\ LoopIsAwaited'
  OBVIOUS
<1>0. /\ ClosedToLoop /\ LoopIsAwaited
      /\ pc \in [Threads -> InPoll \cup {"none", "select", "next", "idle", "ensure", "panic"}]
  BY DEF SafeInv, TypeInv, TypeOK
<1> DEFINE Goal == ClosedToLoop' /\ LoopIsAwaited'
<1> USE ThreadFacts DEF ClosedToLoop, LoopIsAwaited
<1>1. ASSUME NEW t \in Callers, NEW r \in RunIDs, Watch(t, r) PROVE Goal
  BY <1>0, <1>1 DEF Watch
<1>2. ASSUME NEW t \in Callers, EnsurePolling(t) PROVE Goal
  BY <1>0, <1>2 DEF EnsurePolling
<1>3. ASSUME Tick PROVE Goal
  BY <1>0, <1>3 DEF Tick
<1>4. ASSUME LoopExits PROVE Goal
  BY <1>0, <1>4 DEF LoopExits
<1>5. ASSUME PollNext PROVE Goal
  BY <1>0, <1>5 DEF PollNext
<1>6. ASSUME NEW t \in Threads, GetWorkflowRun(t) PROVE Goal
  BY <1>0, <1>6 DEF GetWorkflowRun
<1>7. ASSUME NEW t \in Threads, PollFails(t) PROVE Goal
  BY <1>0, <1>7 DEF PollFails
<1>8. ASSUME NEW t \in Threads, StoreRun(t) PROVE Goal
  BY <1>0, <1>8 DEF StoreRun
<1>9. ASSUME NEW t \in Threads, SendUpdate(t) PROVE Goal
  BY <1>0, <1>9 DEF SendUpdate
<1>10. ASSUME NEW t \in Threads, SendPanics(t) PROVE Goal
  BY <1>0, <1>10 DEF SendPanics
<1>11. ASSUME NEW r \in RunIDs, Unwatch(r) PROVE Goal
  BY <1>0, <1>11 DEF Unwatch
<1>12. ASSUME ClearCompleted PROVE Goal
  BY <1>0, <1>12 DEF ClearCompleted
<1>13. ASSUME Cancel PROVE Goal
  BY <1>0, <1>13 DEF Cancel
<1>14. ASSUME Close PROVE Goal
  BY <1>0, <1>14 DEF Close
<1>15. ASSUME NEW r \in RunIDs, RunAdvances(r) PROVE Goal
  BY <1>0, <1>15 DEF RunAdvances
<1>16. ASSUME UNCHANGED vars PROVE Goal
  BY <1>0, <1>16 DEF vars
<1> QED
  BY <1>1, <1>2, <1>3, <1>4, <1>5, <1>6, <1>7, <1>8, <1>9, <1>10, <1>11, <1>12,
     <1>13, <1>14, <1>15, <1>16, NextCases

LEMMA CompletedStep ==
  SafeInv /\ [Next]_vars => AnswerWasTrue' /\ CompletedHasCompleted'
<1> SUFFICES ASSUME SafeInv, [Next]_vars PROVE AnswerWasTrue' /\ CompletedHasCompleted'
  OBVIOUS
<1>0. /\ AnswerWasTrue /\ CompletedHasCompleted /\ TypeInv
      /\ DOMAIN runs \subseteq RunIDs
      /\ runs \in [DOMAIN runs -> WatchedRun]
      /\ pc \in [Threads -> InPoll \cup {"none", "select", "next", "idle", "ensure", "panic"}]
      /\ poll \in [Threads -> RunIDs \cup {NoRun}]
      /\ got \in [Threads -> RunStatus]
      /\ github \in [RunIDs -> RunStatus]
  BY DEF SafeInv, TypeInv, TypeOK
<1> DEFINE Goal == AnswerWasTrue' /\ CompletedHasCompleted'
<1> USE ThreadFacts DEF watcher
<1>1. ASSUME NEW t \in Callers, NEW r \in RunIDs, Watch(t, r) PROVE Goal
  <2> DEFINE entry == [status |-> "active", polled |-> FALSE, failed |-> FALSE]
  <2>1. entry \in WatchedRun /\ entry.status = "active"
    BY DEF WatchedRun, RunStatus
  <2>2. runs' = Entry(r, entry) /\ UNCHANGED github
    BY <1>1 DEF Watch
  <2> HIDE DEF entry
  <2>3. /\ DOMAIN runs' = DOMAIN runs \cup {r}
        /\ runs'[r].status = "active"
        /\ \A s \in DOMAIN runs : s # r => runs'[s] = runs[s]
    BY <1>0, <2>1, <2>2, EntryStep
  <2>4. CompletedHasCompleted'
    BY <1>0, <2>2, <2>3 DEF CompletedHasCompleted
  <2>5. AnswerWasTrue'
    BY <1>0, <1>1, AnswersKept DEF Watch
  <2> QED BY <2>4, <2>5
<1>2. ASSUME NEW t \in Callers, EnsurePolling(t) PROVE Goal
  <2>1. \A u \in Threads : pc'[u] = "jobs" => pc[u] = "jobs"
    BY <1>0, <1>2 DEF EnsurePolling
  <2> QED BY <1>0, <1>2, <2>1, AnswersKept, CompletedKept DEF EnsurePolling
<1>3. ASSUME Tick PROVE Goal
  <2>1. \A u \in Threads : pc'[u] = "jobs" => pc[u] = "jobs"
    BY <1>0, <1>3 DEF Tick
  <2> QED BY <1>0, <1>3, <2>1, AnswersKept, CompletedKept DEF Tick
<1>4. ASSUME LoopExits PROVE Goal
  <2>1. \A u \in Threads : pc'[u] = "jobs" => pc[u] = "jobs"
    BY <1>0, <1>4 DEF LoopExits
  <2> QED BY <1>0, <1>4, <2>1, AnswersKept, CompletedKept DEF LoopExits
<1>5. ASSUME PollNext PROVE Goal
  <2>1. \A u \in Threads : pc'[u] = "jobs" => pc[u] = "jobs" /\ poll'[u] = poll[u]
    BY <1>0, <1>5 DEF PollNext
  <2> QED BY <1>0, <1>5, <2>1, AnswersKept, CompletedKept DEF PollNext
<1>6. ASSUME NEW t \in Threads, GetWorkflowRun(t) PROVE Goal
  <2>1. UNCHANGED <<runs, poll, github>> /\ got'[t] = github[poll[t]]
    BY <1>0, <1>6 DEF GetWorkflowRun
  <2>2. \A u \in Threads : u # t => pc'[u] = pc[u] /\ got'[u] = got[u]
    BY <1>0, <1>6 DEF GetWorkflowRun
  <2>3. AnswerWasTrue'
    BY <1>0, <2>1, <2>2 DEF AnswerWasTrue
  <2> QED BY <1>0, <2>1, <2>3, CompletedKept
<1>7. ASSUME NEW t \in Threads, PollFails(t) PROVE Goal
  <2>1. /\ DOMAIN runs' = DOMAIN runs
        /\ \A r \in DOMAIN runs : runs'[r].status = runs[r].status
    BY <1>0, <1>7, FailedFacts
  <2>2. UNCHANGED <<poll, github>>
    BY <1>7 DEF PollFails
  <2>3. \A u \in Threads : pc'[u] = "jobs" => pc[u] = "jobs" /\ got'[u] = got[u]
    BY <1>0, <1>7 DEF PollFails
  <2> QED BY <1>0, <2>1, <2>2, <2>3, AnswersKept, CompletedKept
<1>8. ASSUME NEW t \in Threads, StoreRun(t) PROVE Goal
  <2>1. poll[t] \in RunIDs /\ (got[t] = "completed" => github[poll[t]] = "completed")
    BY <1>0, <1>8 DEF StoreRun, TypeInv, PollsARun, InPoll, AnswerWasTrue
  <2> DEFINE entry == [status |-> got[t], polled |-> TRUE, failed |-> FALSE]
  <2>2. entry \in WatchedRun /\ entry.status = got[t]
    BY <1>0 DEF WatchedRun
  <2>3. runs' = Entry(poll[t], entry) /\ UNCHANGED <<poll, github>>
    BY <1>8 DEF StoreRun
  <2> HIDE DEF entry
  <2>4. /\ DOMAIN runs' = DOMAIN runs \cup {poll[t]}
        /\ runs'[poll[t]].status = got[t]
        /\ \A s \in DOMAIN runs : s # poll[t] => runs'[s] = runs[s]
    BY <1>0, <2>1, <2>2, <2>3, EntryStep
  <2>5. CompletedHasCompleted'
    BY <1>0, <2>1, <2>3, <2>4 DEF CompletedHasCompleted
  <2>6. \A u \in Threads : pc'[u] = "jobs" => pc[u] = "jobs" /\ got'[u] = got[u]
    BY <1>0, <1>8 DEF StoreRun
  <2> QED BY <1>0, <2>3, <2>5, <2>6, AnswersKept
<1>9. ASSUME NEW t \in Threads, SendUpdate(t) PROVE Goal
  <2>1. \A u \in Threads : pc'[u] = "jobs" => pc[u] = "jobs" /\ poll'[u] = poll[u]
    BY <1>0, <1>9 DEF SendUpdate
  <2> QED BY <1>0, <1>9, <2>1, AnswersKept, CompletedKept DEF SendUpdate
<1>10. ASSUME NEW t \in Threads, SendPanics(t) PROVE Goal
  <2>1. \A u \in Threads : pc'[u] = "jobs" => pc[u] = "jobs"
    BY <1>0, <1>10 DEF SendPanics
  <2> QED BY <1>0, <1>10, <2>1, AnswersKept, CompletedKept DEF SendPanics
<1>11. ASSUME NEW r \in RunIDs, Unwatch(r) PROVE Goal
  BY <1>0, <1>11, AnswersKept, CompletedKept DEF Unwatch
<1>12. ASSUME ClearCompleted PROVE Goal
  BY <1>0, <1>12, AnswersKept, CompletedKept DEF ClearCompleted
<1>13. ASSUME Cancel PROVE Goal
  BY <1>0, <1>13, AnswersKept, CompletedKept DEF Cancel
<1>14. ASSUME Close PROVE Goal
  BY <1>0, <1>14, AnswersKept, CompletedKept DEF Close
<1>15. ASSUME NEW r \in RunIDs, RunAdvances(r) PROVE Goal
  <2>1. \A s \in RunIDs : github[s] = "completed" => github'[s] = "completed"
    BY <1>0, <1>15 DEF RunAdvances
  <2>2. UNCHANGED <<runs, pc, poll, got>>
    BY <1>15 DEF RunAdvances
  <2> QED BY <1>0, <2>1, <2>2, AnswersKept, CompletedKept
<1>16. ASSUME UNCHANGED vars PROVE Goal
  BY <1>0, <1>16, AnswersKept, CompletedKept DEF vars
<1> QED
  BY <1>1, <1>2, <1>3, <1>4, <1>5, <1>6, <1>7, <1>8, <1>9, <1>10, <1>11, <1>12,
     <1>13, <1>14, <1>15, <1>16, NextCases

LEMMA SafeStep == SafeInv /\ [Next]_vars => SafeInv'
BY TypeStep, PlaceholderStep, LoopStep, CompletedStep DEF SafeInv

-----------------------------------------------------------------------------
(* Whatever is watched, unwatched, cleared and polled at once, an entry     *)
(* that neither comes from GitHub nor carries an error is about to be       *)
(* polled by the call of Watch that made it, so it does not stay.           *)
THEOREM PlaceholdersDoNotStay == Spec => []PlaceholderIsBeingPolled
<1>1. SafeInv => PlaceholderIsBeingPolled
  BY DEF SafeInv
<1> QED BY <1>1, SafeInit, SafeStep, PTL DEF Spec

(* The poll loop never sends on the channel that Stop has closed, however   *)
(* late it is started.                                                      *)
THEOREM LoopNeverPanics == Spec => []LoopIsAwaited
<1>1. SafeInv => LoopIsAwaited
  BY DEF SafeInv
<1> QED BY <1>1, SafeInit, SafeStep, PTL DEF Spec

(* However late an answer of GitHub is stored, and over what, no run is     *)
(* listed as completed that has not completed.                              *)
THEOREM NoInventedEnd == Spec => []CompletedHasCompleted
<1>1. SafeInv => CompletedHasCompleted
  BY DEF SafeInv
<1> QED BY <1>1, SafeInit, SafeStep, PTL DEF Spec

-----------------------------------------------------------------------------
(* Refinement *)

Asking == InPoll \cup {"ensure"}

(* Who is asked about, and what the list is made of.                        *)
LEMMA AskedFacts ==
  /\ DOMAIN Listed = DOMAIN runs /\ \A r \in DOMAIN runs : Listed[r] = runs[r].status
  /\ DOMAIN runs \subseteq Asked /\ todo \subseteq Asked
  /\ \A t \in Threads : pc[t] \in Asking => poll[t] \in Asked
BY DEF Listed, Asked, Asking

(* A step that puts nothing on the list, and makes no goroutine poll what   *)
(* was not asked about before, asks about no more.                          *)
LEMMA AskedNoMore ==
  ASSUME DOMAIN runs' \subseteq Asked, todo' \subseteq Asked,
         \A t \in Threads : pc'[t] \in Asking => poll'[t] \in Asked
  PROVE  Asked' \subseteq Asked /\ DOMAIN runs' \subseteq Asked'
BY DEF Asked, Asking

(* Such a step forgets, if anything, when it leaves the statuses alone.     *)
LEMMA ForgetStep ==
  ASSUME DOMAIN runs' = DOMAIN runs, \A r \in DOMAIN runs : runs'[r].status = runs[r].status,
         todo' \subseteq Asked, UNCHANGED github,
         \A t \in Threads : pc'[t] \in Asking => poll'[t] \in Asked
  PROVE  List!Forget
<1>1. Asked' \subseteq Asked /\ DOMAIN runs' \subseteq Asked'
  BY AskedFacts, AskedNoMore
<1>2. Listed' = Listed
  BY DEF Listed
<1>3. DOMAIN Listed' = DOMAIN runs'
  BY DEF Listed
<1> QED BY <1>1, <1>2, <1>3 DEF List!Forget, List!MayForget

(* An entry that is put on the list.                                        *)
LEMMA ListedWith ==
  ASSUME DOMAIN runs \subseteq RunIDs, runs \in [DOMAIN runs -> WatchedRun],
         NEW r \in RunIDs, NEW entry \in WatchedRun, runs' = Entry(r, entry)
  PROVE  Listed' = List!With(r, entry.status)
<1>1. /\ DOMAIN runs' = DOMAIN runs \cup {r}
      /\ runs'[r] = entry
      /\ \A s \in DOMAIN runs : s # r => runs'[s] = runs[s]
  BY EntryStep
<1>2. Listed' = [s \in DOMAIN runs \cup {r} |-> IF s = r THEN entry.status ELSE runs[s].status]
  BY <1>1 DEF Listed
<1>3. List!With(r, entry.status)
        = [s \in DOMAIN runs \cup {r} |-> IF s = r THEN entry.status ELSE runs[s].status]
  BY DEF List!With, Listed
<1> QED BY <1>2, <1>3

(* Part of the list that is left when entries are taken off.                *)
LEMMA ListedPart ==
  ASSUME NEW S, S \subseteq DOMAIN runs, runs' = [r \in S |-> runs[r]]
  PROVE  Listed' = [r \in S |-> Listed[r]] /\ DOMAIN runs' = S
BY DEF Listed

LEMMA ListInit == Init => List!Init
<1> SUFFICES ASSUME Init PROVE List!Init
  OBVIOUS
<1>1. DOMAIN runs = {} /\ todo = {} /\ github = [r \in RunIDs |-> "active"]
  BY DEF Init
<1>2. \A t \in Threads : pc[t] \notin InPoll \cup {"ensure"}
  BY DEF Init, InPoll
<1>3. Asked = {}
  BY <1>1, <1>2 DEF Asked
<1>4. Listed = [r \in {} |-> "active"]
  BY <1>1 DEF Listed
<1> QED BY <1>1, <1>3, <1>4 DEF List!Init

(* Every step is one of the list, or changes nothing that is seen of it.    *)
LEMMA ListStep == SafeInv /\ [Next]_vars => [List!Next]_(List!vars)
<1> SUFFICES ASSUME SafeInv, [Next]_vars PROVE [List!Next]_(List!vars)
  OBVIOUS
<1> DEFINE Goal == [List!Next]_(List!vars)
<1>0. /\ AnswerWasTrue /\ PollsARun
      /\ DOMAIN runs \subseteq RunIDs
      /\ runs \in [DOMAIN runs -> WatchedRun]
      /\ pc \in [Threads -> InPoll \cup {"none", "select", "next", "idle", "ensure", "panic"}]
      /\ poll \in [Threads -> RunIDs \cup {NoRun}]
      /\ got \in [Threads -> RunStatus]
      /\ github \in [RunIDs -> RunStatus]
  BY DEF SafeInv, TypeInv, TypeOK
<1>f. List!Forget => Goal
  BY DEF List!Next, List!GoesOn
<1> HIDE DEF Goal
<1> USE ThreadFacts DEF watcher
<1>1. ASSUME NEW t \in Callers, NEW r \in RunIDs, Watch(t, r) PROVE Goal
  <2> DEFINE entry == [status |-> "active", polled |-> FALSE, failed |-> FALSE]
  <2>1. entry \in WatchedRun /\ entry.status = "active"
    BY DEF WatchedRun, RunStatus
  <2>2. runs' = Entry(r, entry) /\ UNCHANGED <<todo, github>>
    BY <1>1 DEF Watch
  <2> HIDE DEF entry
  <2>3. Listed' = List!With(r, "active") /\ DOMAIN runs' = DOMAIN runs \cup {r}
    <3>1. Listed' = List!With(r, entry.status)
      BY <1>0, <2>1, <2>2, ListedWith
    <3>2. DOMAIN runs' = DOMAIN runs \cup {r}
      BY <1>0, <2>1, <2>2, EntryStep
    <3> QED BY <2>1, <3>1, <3>2
  <2>4. /\ pc[t] = "idle" /\ pc'[t] = "ensure" /\ poll'[t] = r
        /\ \A u \in Threads : u # t => pc'[u] = pc[u] /\ poll'[u] = poll[u]
    BY <1>0, <1>1 DEF Watch
  <2>5. Asked' = Asked \cup {r}
    BY <2>2, <2>3, <2>4 DEF Asked, InPoll
  <2>6. List!Watch(r)
    BY <2>2, <2>3, <2>5 DEF List!Watch
  <2> QED BY <2>6 DEF Goal, List!Next, List!GoesOn
<1>2. ASSUME NEW t \in Callers, EnsurePolling(t) PROVE Goal
  <2>1. \A u \in Threads : pc'[u] \in Asking => pc[u] \in Asking
    BY <1>0, <1>2 DEF EnsurePolling, Asking, InPoll
  <2> QED BY <1>2, <1>f, <2>1, AskedFacts, ForgetStep DEF EnsurePolling
<1>3. ASSUME Tick PROVE Goal
  <2>1. \A u \in Threads : pc'[u] \in Asking => pc[u] \in Asking
    BY <1>0, <1>3 DEF Tick, Asking, InPoll
  <2>2. todo' \subseteq DOMAIN runs
    BY <1>3 DEF Tick
  <2> QED BY <1>3, <1>f, <2>1, <2>2, AskedFacts, ForgetStep DEF Tick
<1>4. ASSUME LoopExits PROVE Goal
  <2>1. \A u \in Threads : pc'[u] \in Asking => pc[u] \in Asking
    BY <1>0, <1>4 DEF LoopExits, Asking, InPoll
  <2> QED BY <1>4, <1>f, <2>1, AskedFacts, ForgetStep DEF LoopExits
<1>5. ASSUME PollNext PROVE Goal
  <2>1. \A u \in Threads : u # Loop => pc'[u] = pc[u] /\ poll'[u] = poll[u]
    BY <1>0, <1>5 DEF PollNext
  <2>2. todo' \subseteq todo /\ (pc'[Loop] \in Asking => poll'[Loop] \in todo)
    BY <1>0, <1>5 DEF PollNext, Asking, InPoll
  <2>3. UNCHANGED <<runs, github>>
    BY <1>5 DEF PollNext
  <2> QED BY <1>f, <2>1, <2>2, <2>3, AskedFacts, ForgetStep
<1>6. ASSUME NEW t \in Threads, GetWorkflowRun(t) PROVE Goal
  <2>1. \A u \in Threads : pc'[u] \in Asking => pc[u] \in Asking
    BY <1>0, <1>6 DEF GetWorkflowRun, Asking, InPoll
  <2> QED BY <1>6, <1>f, <2>1, AskedFacts, ForgetStep DEF GetWorkflowRun
<1>7. ASSUME NEW t \in Threads, PollFails(t) PROVE Goal
  <2>1. \A u \in Threads : pc'[u] \in Asking => pc[u] \in Asking
    BY <1>0, <1>7 DEF PollFails, Asking, InPoll
  <2>2. DOMAIN runs' = DOMAIN runs /\ \A r \in DOMAIN runs : runs'[r].status = runs[r].status
    BY <1>0, <1>7, FailedFacts
  <2>3. UNCHANGED <<todo, poll, github>>
    BY <1>7 DEF PollFails
  <2> QED BY <1>f, <2>1, <2>2, <2>3, AskedFacts, ForgetStep
<1>8. ASSUME NEW t \in Threads, StoreRun(t) PROVE Goal
  <2>1. /\ poll[t] \in RunIDs /\ got[t] \in RunStatus
        /\ got[t] = "completed" => github[poll[t]] = "completed"
    BY <1>0, <1>8 DEF StoreRun, PollsARun, InPoll, AnswerWasTrue
  <2> DEFINE entry == [status |-> got[t], polled |-> TRUE, failed |-> FALSE]
  <2>2. entry \in WatchedRun /\ entry.status = got[t]
    BY <2>1 DEF WatchedRun
  <2>3. runs' = Entry(poll[t], entry) /\ UNCHANGED <<todo, poll, github>>
    BY <1>8 DEF StoreRun
  <2> HIDE DEF entry
  <2>4. Listed' = List!With(poll[t], got[t]) /\ DOMAIN runs' = DOMAIN runs \cup {poll[t]}
    BY <1>0, <2>1, <2>2, <2>3, ListedWith, EntryStep
  <2>5. /\ pc[t] \in Asking /\ pc'[t] \in Asking
        /\ \A u \in Threads : u # t => pc'[u] = pc[u]
    BY <1>0, <1>8 DEF StoreRun, Asking, InPoll
  <2>6. Asked' = Asked /\ poll[t] \in Asked
    BY <2>3, <2>4, <2>5 DEF Asked, Asking
  <2>7. List!Answer(poll[t], got[t])
    BY <2>1, <2>3, <2>4, <2>6 DEF List!Answer
  <2>8. got[t] \in List!RunStatus
    BY <2>1 DEF List!RunStatus, RunStatus
  <2> QED BY <2>1, <2>7, <2>8 DEF Goal, List!Next, List!GoesOn
<1>9. ASSUME NEW t \in Threads, SendUpdate(t) PROVE Goal
  <2>1. \A u \in Threads : pc'[u] \in Asking => pc[u] \in Asking /\ poll'[u] = poll[u]
    BY <1>0, <1>9 DEF SendUpdate, Asking, InPoll
  <2> QED BY <1>9, <1>f, <2>1, AskedFacts, ForgetStep DEF SendUpdate
<1>10. ASSUME NEW t \in Threads, SendPanics(t) PROVE Goal
  <2>1. \A u \in Threads : pc'[u] \in Asking => pc[u] \in Asking
    BY <1>0, <1>10 DEF SendPanics, Asking, InPoll
  <2> QED BY <1>10, <1>f, <2>1, AskedFacts, ForgetStep DEF SendPanics
<1>11. ASSUME NEW r \in RunIDs, Unwatch(r) PROVE Goal
  <2>1. runs' = [s \in DOMAIN runs \ {r} |-> runs[s]] /\ UNCHANGED <<todo, pc, poll, github>>
    BY <1>11 DEF Unwatch
  <2>2. Listed' = [s \in DOMAIN Listed \ {r} |-> Listed[s]] /\ DOMAIN runs' = DOMAIN runs \ {r}
    BY <2>1, ListedPart, AskedFacts
  <2>3. Asked' \in {Asked, Asked \ {r}}
    BY <2>1, <2>2 DEF Asked
  <2>4. List!Unwatch(r)
    BY <2>1, <2>2, <2>3 DEF List!Unwatch
  <2> QED BY <2>4 DEF Goal, List!Next
<1>12. ASSUME ClearCompleted PROVE Goal
  <2> DEFINE S == {r \in DOMAIN runs : IsActive(runs[r])}
  <2>1. runs' = [r \in S |-> runs[r]] /\ UNCHANGED <<todo, pc, poll, github>>
    BY <1>12 DEF ClearCompleted
  <2>2. S = {r \in DOMAIN Listed : Listed[r] = "active"} /\ S \subseteq DOMAIN runs
    BY AskedFacts DEF IsActive
  <2> HIDE DEF S
  <2>3. Listed' = [r \in S |-> Listed[r]] /\ DOMAIN runs' = S /\ DOMAIN Listed' = S
    BY <2>1, <2>2, ListedPart
  <2>4. Asked' \subseteq Asked /\ DOMAIN runs' \subseteq Asked'
    BY <2>1, <2>2, <2>3, AskedFacts, AskedNoMore
  <2>5. List!ClearCompleted
    BY <2>1, <2>2, <2>3, <2>4 DEF List!ClearCompleted, List!MayForget
  <2> QED BY <2>5 DEF Goal, List!Next
<1>13. ASSUME Cancel PROVE Goal
  BY <1>13, <1>f, AskedFacts, ForgetStep DEF Cancel
<1>14. ASSUME Close PROVE Goal
  BY <1>14, <1>f, AskedFacts, ForgetStep DEF Close
<1>15. ASSUME NEW r \in RunIDs, RunAdvances(r) PROVE Goal
  <2>1. UNCHANGED <<runs, todo, pc, poll>>
    BY <1>15 DEF RunAdvances
  <2>2. UNCHANGED <<Listed, Asked>>
    BY <2>1 DEF Listed, Asked
  <2>3. List!RunAdvances(r)
    BY <1>15, <2>2 DEF RunAdvances, List!RunAdvances
  <2> QED BY <2>3 DEF Goal, List!Next, List!GoesOn
<1>16. ASSUME UNCHANGED vars PROVE Goal
  BY <1>16, <1>f, AskedFacts, ForgetStep DEF vars
<1> QED
  BY <1>1, <1>2, <1>3, <1>4, <1>5, <1>6, <1>7, <1>8, <1>9, <1>10, <1>11, <1>12,
     <1>13, <1>14, <1>15, <1>16, NextCases DEF Goal

(* The watcher implements WatchList, for every number of runs and of        *)
(* goroutines that call Watch: whatever overlaps, the list holds what was   *)
(* put on it and not taken off, and what late answers of GitHub say.        *)
THEOREM WatcherKeepsList == Spec => KeepsList
<1>1. SafeInv /\ [Next]_vars => [List!Next]_(List!vars)
  BY ListStep
<1> QED BY <1>1, ListInit, SafeInit, SafeStep, PTL DEF Spec, KeepsList, List!Spec
=============================================================================
