----------------------------- MODULE RunWatcher -----------------------------
(***************************************************************************)
(* The run watcher (internal/watcher/watcher.go): the list of workflow     *)
(* runs the user is shown, kept up to date by one polling goroutine and by *)
(* the poll every call of Watch makes itself.  Watch is called by the      *)
(* goroutines of chain executors, Unwatch and ClearCompleted by the user   *)
(* interface.  Nobody receives from Updates(): the subscription of the     *)
(* user interface is only renewed on a RunUpdateMsg, and never begun.      *)
(*                                                                         *)
(* Actions are split where a lock is released and at every call of gh.     *)
(***************************************************************************)
EXTENDS Naturals, FiniteSets

CONSTANTS
  RunIDs,     \* workflow runs
  Callers,    \* goroutines that call Watch
  UpdateCap   \* capacity of the updates channel (100 in the code)

ASSUME CapAssumption == UpdateCap \in Nat \ {0}

Loop == "loop"   \* the goroutine of pollLoop
NoRun == "none"  \* a goroutine that polls nothing

ASSUME NamesAssumption == Loop \notin Callers /\ NoRun \notin RunIDs

Threads == Callers \cup {Loop}

(* "active" is a run that is queued or in progress, which the watcher       *)
(* treats alike; "waiting" stands for GitHub's other statuses (a run waits  *)
(* for an approval), which the program has no names for.                    *)
RunStatus == {"active", "waiting", "completed"}

(* polled: the entry comes from GitHub; failed: LastError is set. *)
WatchedRun == [status : RunStatus, polled : BOOLEAN, failed : BOOLEAN]

VARIABLES
  runs,       \* the watch list: a function from the watched runs to WatchedRun
  queued,     \* number of updates in the channel
  isPolling,  \* a pollLoop was started
  todo,       \* the run IDs pollAllRuns has left to poll
  pc,         \* where each goroutine is
  poll,       \* the run each goroutine polls
  got,        \* the status its GetWorkflowRun returned, until it is used
  stop,       \* how far Stop got
  github      \* the status of every run

watcher == <<runs, queued, isPolling>>
vars    == <<watcher, todo, pc, poll, got, stop, github>>

IsActive(run) == run.status = "active"

(* A send on a closed channel ends the program: nothing happens any more.  *)
Panicked == \E t \in Threads : pc[t] = "panic"

Init ==
  /\ runs = [r \in {} |-> [status |-> "active", polled |-> FALSE, failed |-> FALSE]]
  /\ queued = 0
  /\ isPolling = FALSE
  /\ todo = {}
  /\ pc = [t \in Threads |-> IF t = Loop THEN "none" ELSE "idle"]
  /\ poll = [t \in Threads |-> NoRun]
  /\ got = [t \in Threads |-> "active"]
  /\ stop = "no"
  /\ github = [r \in RunIDs |-> "active"]

----------------------------------------------------------------------------
(* Watch *)

Entry(r, entry) == [s \in DOMAIN runs \cup {r} |-> IF s = r THEN entry ELSE runs[s]]

Watch(t, r) ==
  /\ ~Panicked
  /\ pc[t] = "idle"
  /\ runs' = Entry(r, [status |-> "active", polled |-> FALSE, failed |-> FALSE])
  /\ pc' = [pc EXCEPT ![t] = "ensure"]
  /\ poll' = [poll EXCEPT ![t] = r]
  /\ UNCHANGED <<queued, isPolling, todo, got, stop, github>>

(* Mutant of EnsurePolling: the first poll is left to the loop.             *)
EnsurePollingOnly(t) ==
  /\ ~Panicked
  /\ pc[t] = "ensure"
  /\ pc' = [pc EXCEPT ![t] = "idle", ![Loop] = IF isPolling THEN @ ELSE "select"]
  /\ isPolling' = TRUE
  /\ poll' = [poll EXCEPT ![t] = NoRun]
  /\ UNCHANGED <<runs, queued, todo, got, stop, github>>

(* ensurePolling starts the loop, once; then Watch calls pollRun. *)
EnsurePolling(t) ==
  /\ ~Panicked
  /\ pc[t] = "ensure"
  /\ pc' = [pc EXCEPT ![t] = "fetch", ![Loop] = IF isPolling THEN @ ELSE "select"]
  /\ isPolling' = TRUE
  /\ UNCHANGED <<runs, queued, todo, poll, got, stop, github>>

----------------------------------------------------------------------------
(* pollLoop and pollAllRuns *)

(* The ticker's channel is ready.  Once the context is done as well, the    *)
(* select may still choose it, until Stop has stopped the ticker.  A loop   *)
(* that Watch starts after Stop has returned finds the context done a poll  *)
(* interval before its ticker's first tick.                                 *)
Tick ==
  /\ ~Panicked
  /\ pc[Loop] = "select"
  /\ stop # "closed"
  /\ todo' = {r \in DOMAIN runs : IsActive(runs[r])}
  /\ pc' = [pc EXCEPT ![Loop] = "next"]
  /\ UNCHANGED <<watcher, poll, got, stop, github>>

LoopExits ==
  /\ ~Panicked
  /\ pc[Loop] = "select"
  /\ stop # "no"
  /\ pc' = [pc EXCEPT ![Loop] = "none"]
  /\ UNCHANGED <<watcher, todo, poll, got, stop, github>>

(* The loop polls the runs of its snapshot one after the other.             *)
PollNext ==
  /\ ~Panicked
  /\ pc[Loop] = "next"
  /\ \/ \E r \in todo :
          /\ todo' = todo \ {r}
          /\ poll' = [poll EXCEPT ![Loop] = r]
          /\ pc' = [pc EXCEPT ![Loop] = "fetch"]
     \/ /\ todo = {}
        /\ pc' = [pc EXCEPT ![Loop] = "select"]
        /\ UNCHANGED <<todo, poll>>
  /\ UNCHANGED <<watcher, got, stop, github>>

----------------------------------------------------------------------------
(* pollRun, by goroutine t *)

(* Mutant of GetWorkflowRun: the goroutines share the variable run.         *)
GetWorkflowRunShared(t) ==
  /\ ~Panicked
  /\ pc[t] = "fetch"
  /\ got' = [u \in Threads |-> github[poll[t]]]
  /\ pc' = [pc EXCEPT ![t] = "jobs"]
  /\ UNCHANGED <<watcher, todo, poll, stop, github>>

GetWorkflowRun(t) ==
  /\ ~Panicked
  /\ pc[t] = "fetch"
  /\ got' = [got EXCEPT ![t] = github[poll[t]]]
  /\ pc' = [pc EXCEPT ![t] = "jobs"]
  /\ UNCHANGED <<watcher, todo, poll, stop, github>>

(* GetWorkflowRun or GetWorkflowRunJobs fails: the entry, if there still is *)
(* one, keeps its status.                                                   *)
PollFails(t) ==
  /\ ~Panicked
  /\ pc[t] \in {"fetch", "jobs"}
  /\ runs' = [r \in DOMAIN runs |-> [runs[r] EXCEPT !.failed = @ \/ r = poll[t]]]
  /\ pc' = [pc EXCEPT ![t] = "send"]
  /\ got' = [got EXCEPT ![t] = "active"]
  /\ UNCHANGED <<queued, isPolling, todo, poll, stop, github>>

(* Mutant of StoreRun: nothing is stored for a run that has completed.      *)
StoreRunUnlessCompleted(t) ==
  /\ ~Panicked
  /\ pc[t] = "jobs"
  /\ IF got[t] = "completed" THEN UNCHANGED runs
     ELSE runs' = Entry(poll[t], [status |-> got[t], polled |-> TRUE, failed |-> FALSE])
  /\ pc' = [pc EXCEPT ![t] = "send"]
  /\ got' = [got EXCEPT ![t] = "active"]
  /\ UNCHANGED <<queued, isPolling, todo, poll, stop, github>>

(* Both calls succeeded: the entry is replaced, or made anew.               *)
StoreRun(t) ==
  /\ ~Panicked
  /\ pc[t] = "jobs"
  /\ runs' = Entry(poll[t], [status |-> got[t], polled |-> TRUE, failed |-> FALSE])
  /\ pc' = [pc EXCEPT ![t] = "send"]
  /\ got' = [got EXCEPT ![t] = "active"]
  /\ UNCHANGED <<queued, isPolling, todo, poll, stop, github>>

(* Mutant of SendUpdate: it does not look at the channel's capacity.        *)
SendUpdateUnbounded(t) ==
  /\ ~Panicked
  /\ pc[t] = "send"
  /\ stop # "closed"
  /\ queued' = queued + 1
  /\ pc' = [pc EXCEPT ![t] = IF t = Loop THEN "next" ELSE "idle"]
  /\ poll' = [poll EXCEPT ![t] = NoRun]
  /\ UNCHANGED <<runs, isPolling, todo, got, stop, github>>

(* Mutant of SendUpdate: it waits for room in the channel.                  *)
SendUpdateBlocks(t) ==
  /\ ~Panicked
  /\ pc[t] = "send"
  /\ queued < UpdateCap
  /\ queued' = queued + 1
  /\ pc' = [pc EXCEPT ![t] = IF t = Loop THEN "next" ELSE "idle"]
  /\ poll' = [poll EXCEPT ![t] = NoRun]
  /\ UNCHANGED <<runs, isPolling, todo, got, stop, github>>

(* sendUpdate, and the return from pollRun: a select over the context's     *)
(* end, the send and a default.  A send on the closed channel is ready too, *)
(* and panics.                                                              *)
SendUpdate(t) ==
  /\ ~Panicked
  /\ pc[t] = "send"
  /\ \/ /\ stop # "closed" /\ queued < UpdateCap
        /\ queued' = queued + 1
     \/ /\ stop # "no" \/ queued = UpdateCap
        /\ UNCHANGED queued
  /\ pc' = [pc EXCEPT ![t] = IF t = Loop THEN "next" ELSE "idle"]
  /\ poll' = [poll EXCEPT ![t] = NoRun]
  /\ UNCHANGED <<runs, isPolling, todo, got, stop, github>>

SendPanics(t) ==
  /\ ~Panicked
  /\ pc[t] = "send"
  /\ stop = "closed"
  /\ pc' = [pc EXCEPT ![t] = "panic"]
  /\ UNCHANGED <<watcher, todo, poll, got, stop, github>>

----------------------------------------------------------------------------
(* The user interface, and Stop *)

Unwatch(r) ==
  /\ ~Panicked
  /\ runs' = [s \in DOMAIN runs \ {r} |-> runs[s]]
  /\ UNCHANGED <<queued, isPolling, todo, pc, poll, got, stop, github>>

ClearCompleted ==
  /\ ~Panicked
  /\ runs' = [s \in {r \in DOMAIN runs : IsActive(runs[r])} |-> runs[s]]
  /\ UNCHANGED <<queued, isPolling, todo, pc, poll, got, stop, github>>

(* Stop cancels the context and stops the ticker. *)
Cancel ==
  /\ ~Panicked
  /\ stop = "no"
  /\ stop' = "cancelled"
  /\ UNCHANGED <<watcher, todo, pc, poll, got, github>>

(* Mutant of Close: Stop does not wait for the loop.                        *)
CloseAtOnce ==
  /\ ~Panicked
  /\ stop = "cancelled"
  /\ stop' = "closed"
  /\ UNCHANGED <<watcher, todo, pc, poll, got, github>>

(* Stop has waited for the loop and closes the channel. *)
Close ==
  /\ ~Panicked
  /\ stop = "cancelled"
  /\ pc[Loop] = "none"
  /\ stop' = "closed"
  /\ UNCHANGED <<watcher, todo, pc, poll, got, github>>

----------------------------------------------------------------------------
(* GitHub *)

(* A run is started, waits for an approval, gets it, completes. *)
RunAdvances(r) ==
  /\ ~Panicked
  /\ \/ github[r] = "active" /\ github' \in {[github EXCEPT ![r] = s] : s \in {"waiting", "completed"}}
     \/ github[r] = "waiting" /\ github' = [github EXCEPT ![r] = "active"]
  /\ UNCHANGED <<watcher, todo, pc, poll, got, stop>>

----------------------------------------------------------------------------
PollRun(t) == GetWorkflowRun(t) \/ PollFails(t) \/ StoreRun(t) \/ SendUpdate(t) \/ SendPanics(t)

Next ==
  \/ \E t \in Callers, r \in RunIDs : Watch(t, r)
  \/ \E t \in Callers : EnsurePolling(t)
  \/ Tick \/ LoopExits \/ PollNext
  \/ \E t \in Threads : PollRun(t)
  \/ \E r \in RunIDs : Unwatch(r)
  \/ ClearCompleted
  \/ Cancel \/ Close
  \/ \E r \in RunIDs : RunAdvances(r)

(* Goroutines are scheduled, the ticker ticks and calls of gh return, with  *)
(* or without an error.  A select that finds its channel ready again and    *)
(* again chooses it at last, so the loop does not miss the cancelled        *)
(* context for ever.  Nothing is assumed of callers, user or GitHub.        *)
Fairness ==
  /\ WF_vars(Tick)
  /\ SF_vars(LoopExits)
  /\ WF_vars(PollNext)
  /\ \A t \in Threads : WF_vars(PollRun(t))
  /\ \A t \in Callers : WF_vars(EnsurePolling(t))
  /\ WF_vars(Close)

Spec == Init /\ [][Next]_vars /\ Fairness

----------------------------------------------------------------------------
(* Properties *)

InPoll == {"fetch", "jobs", "send"}

(* The values every variable of the watcher can take. *)
TypeOK ==
  /\ DOMAIN runs \subseteq RunIDs
  /\ runs \in [DOMAIN runs -> WatchedRun]
  /\ queued \in 0..UpdateCap
  /\ isPolling \in BOOLEAN
  /\ todo \subseteq RunIDs
  /\ pc \in [Threads -> InPoll \cup {"none", "select", "next", "idle", "ensure", "panic"}]
  /\ poll \in [Threads -> RunIDs \cup {NoRun}]
  /\ got \in [Threads -> RunStatus]
  /\ stop \in {"no", "cancelled", "closed"}
  /\ github \in [RunIDs -> RunStatus]

(* The entry Watch makes up is on its way to be replaced: once no call of   *)
(* Watch for the run is in progress any more, the entry comes from GitHub   *)
(* or carries the error that kept it from doing so.                         *)
PlaceholderIsBeingPolled ==
  \A r \in DOMAIN runs :
    runs[r].polled \/ runs[r].failed \/
    \E t \in Callers : poll[t] = r /\ pc[t] \in {"ensure", "fetch", "jobs"}

(* The poll loop never sends on the closed channel: Stop waits for it.      *)
(* (A call of Watch that overlaps Stop is not waited for, and may panic.)   *)
LoopIsAwaited == pc[Loop] # "panic"

(* A stale answer of GitHub may put back an older status, but never invents *)
(* an end: a run listed as completed has completed.                         *)
CompletedHasCompleted ==
  \A r \in DOMAIN runs : runs[r].status = "completed" => github[r] = "completed"

(* The goroutines, locks and snapshots of the watcher come to the list of   *)
(* WatchList: each entry is what an answer of GitHub or a call of Watch     *)
(* says, and a run comes back only while it is still being asked about.     *)
Listed == [r \in DOMAIN runs |-> runs[r].status]

Asked ==
  DOMAIN runs \cup todo \cup {poll[t] : t \in {u \in Threads : pc[u] \in InPoll \cup {"ensure"}}}

List == INSTANCE WatchList WITH list <- Listed, asked <- Asked

KeepsList == List!Spec

(* A run shown as active that is no longer so on GitHub is not forgotten,   *)
(* although nobody takes the updates from the channel: the list catches up, *)
(* or shows an error.                                                       *)
Stale(r) ==
  /\ stop = "no"
  /\ r \in DOMAIN runs
  /\ IsActive(runs[r]) /\ ~runs[r].failed
  /\ github[r] = "completed"

NoneForgotten == \A r \in RunIDs : Stale(r) ~> ~Stale(r)

(* Stop returns: neither a full channel nor a poll in progress holds it up. *)
StopReturns == (stop = "cancelled") ~> (stop = "closed" \/ Panicked)
=============================================================================
