--------------------------- MODULE ChainExecutor ---------------------------
(***************************************************************************)
(* The chain executor (internal/chain/executor.go): the goroutine that     *)
(* dispatches the workflows of a chain one after the other, waits for      *)
(* their runs, and reports each change on a buffered channel, together     *)
(* with its caller (Start, Stop, receiving from Updates()) and with        *)
(* GitHub, as far as the executor can observe it.                          *)
(*                                                                         *)
(* Steps are numbered from 1, the code's slice indices from 0.  The        *)
(* goroutine's actions are split where it can be interleaved with Stop     *)
(* or with GitHub: at selects and at calls of gh.  Template interpolation  *)
(* never fails (Interpolate returns no error), so it is not a step here.   *)
(***************************************************************************)
EXTENDS Naturals, Sequences, FiniteSets

CONSTANTS
  Chains,      \* the chains of the configuration file: sequences of Step
  Histories,   \* sequences of PreviousStepResult an executor may resume from
  UpdateCap,   \* capacity of the updates channel (10 in the code)
  MaxForeign   \* bound: runs that other users of the repository start

WaitConditions == {"success", "completion", "none"}

(* "other" is a misspelled on_failure: LoadFrom only fills in empty values. *)
FailureActions == {"abort", "skip", "continue", "other"}

Step == [waitFor : WaitConditions, onFailure : FailureActions]

PreviousStepResult ==
  [status : {"completed", "failed", "skipped", "running"},
   conclusion : {"", "success", "failure"}]

ASSUME ChainsAssumption == Chains \subseteq Seq(Step)
ASSUME HistoriesAssumption == Histories \subseteq Seq(PreviousStepResult)
ASSUME BoundsAssumption == UpdateCap \in Nat \ {0} /\ MaxForeign \in Nat

VARIABLES
  chain,         \* the chain being run; chosen once
  status,        \* state.Status
  currentStep,   \* state.CurrentStep
  stepStatuses,  \* state.StepStatuses
  stepResults,   \* state.StepResults: a function on the steps that have one
  error,         \* state.Error: "" or the kind of error it wraps
  pc,            \* where the goroutine of runChain is; see Ended
  idx,           \* the loop variable of runChain
  runID,         \* runStep's runID, an index of runs
  stopCh,        \* TRUE once stopCh is closed
  updates,       \* the buffered channel of ChainUpdates
  seen,          \* the last ChainUpdate the caller received
  seenClose,     \* the caller received from the closed channel
  watched,       \* runs handed to the run watcher
  runs           \* GitHub's runs, oldest first

state   == <<status, currentStep, stepStatuses, stepResults, error>>
caller  == <<seen, seenClose>>
vars    == <<chain, state, pc, idx, runID, stopCh, updates, caller, watched, runs>>

Steps   == 1..Len(chain)

(* runChain has returned and closed the channel: "stopped" from the check at *)
(* the head of the loop, "closed" from anywhere else.                       *)
Ended   == pc \in {"stopped", "closed"}

Settled == {"completed", "failed", "skipped"}

ChainStatus == {"pending", "running", "completed", "failed"}
StepStatus  == {"pending", "running", "waiting"} \cup Settled
StepResult  == [run : Nat, status : Settled, conclusion : {"", "success", "failure"}]
ChainUpdate == [status : ChainStatus, step : Nat]

(* A workflow run: the step that dispatched it (0: somebody else), its      *)
(* conclusion ("" while it is queued or in progress), and whether it was    *)
(* dispatched after Stop.                                                   *)
WorkflowRun == [by : Nat, conclusion : {"", "success", "failure"}, late : BOOLEAN]

Foreign == {r \in DOMAIN runs : runs[r].by = 0}

----------------------------------------------------------------------------
(* Construction *)

InitRest ==
  /\ status = "pending"
  /\ error = ""
  /\ pc = "new"
  /\ idx = 1
  /\ runID = 0
  /\ stopCh = FALSE
  /\ updates = <<>>
  /\ seen = [status |-> "pending", step |-> 0]
  /\ seenClose = FALSE
  /\ watched = {}
  /\ runs = <<>>

NewExecutor ==
  /\ chain \in Chains
  /\ currentStep = 1
  /\ stepStatuses = [i \in Steps |-> "pending"]
  /\ stepResults = [i \in {} |-> [run |-> 0, status |-> "completed", conclusion |-> ""]]
  /\ InitRest

(* The status a step restored from history gets. *)
RestoredStatus(prev) ==
  IF prev.status = "failed" \/ prev.conclusion = "failure" THEN "failed"
  ELSE IF prev.status = "skipped" THEN "skipped"
  ELSE "completed"

NewExecutorFromHistory ==
  /\ chain \in Chains
  /\ \E previous \in Histories, resumeFrom \in Steps :
       LET Restored == {i \in Steps : i < resumeFrom /\ i <= Len(previous)} IN
       /\ currentStep = resumeFrom
       /\ stepStatuses =
            [i \in Steps |-> IF i \in Restored THEN RestoredStatus(previous[i]) ELSE "pending"]
       /\ stepResults =
            [i \in Restored |-> [run |-> 0, status |-> RestoredStatus(previous[i]),
                                 conclusion |-> previous[i].conclusion]]
  /\ InitRest

Init == NewExecutor \/ NewExecutorFromHistory

----------------------------------------------------------------------------
(* The goroutine of runChain *)

(* Mutant of SendUpdate: the last slot of the channel is never used.        *)
SendUpdateSpareSlot(update) ==
  \/ /\ Len(updates) + 1 < UpdateCap
     /\ updates' = Append(updates, update)
  \/ /\ stopCh \/ Len(updates) + 1 >= UpdateCap
     /\ UNCHANGED updates

(* sendUpdate: a select over the closed stopCh, a send and a default.  A    *)
(* full channel drops the update; after Stop either ready case may win.     *)
SendUpdate(update) ==
  \/ /\ Len(updates) < UpdateCap
     /\ updates' = Append(updates, update)
  \/ /\ stopCh \/ Len(updates) >= UpdateCap
     /\ UNCHANGED updates

(* Mutant of NextStep: a step is passed over. *)
NextStepSkipsOne == pc' = "loop" /\ idx' = idx + 2

(* Mutant of NextStep: a step that ended is tried again. *)
NextStepRetries == pc' = "begin" /\ UNCHANGED idx

NextStep == pc' = "loop" /\ idx' = idx + 1
Return   == pc' = "closed" /\ UNCHANGED idx

(* Mutant of CheckStop: the head of the loop does not look at stopCh.       *)
CheckStopMissing ==
  /\ pc = "loop"
  /\ idx \in Steps
  /\ pc' = "begin"
  /\ UNCHANGED <<chain, state, idx, runID, stopCh, updates, caller, watched, runs>>

CheckStop ==
  /\ pc = "loop"
  /\ idx \in Steps
  /\ pc' = IF stopCh THEN "stopped" ELSE "begin"
  /\ UNCHANGED <<chain, state, idx, runID, stopCh, updates, caller, watched, runs>>

BeginStep ==
  /\ pc = "begin"
  /\ pc' = "dispatch"
  /\ currentStep' = idx
  /\ stepStatuses' = [stepStatuses EXCEPT ![idx] = "running"]
  /\ SendUpdate([status |-> status, step |-> idx])
  /\ UNCHANGED <<chain, status, stepResults, error, idx, runID, stopCh, caller, watched, runs>>

(* The loop is over: no look at stopCh on this path. *)
Complete ==
  /\ pc = "loop"
  /\ idx \notin Steps
  /\ status' = "completed"
  /\ SendUpdate([status |-> "completed", step |-> currentStep])
  /\ Return
  /\ UNCHANGED <<chain, currentStep, stepStatuses, stepResults, error, runID, stopCh,
                 caller, watched, runs>>

(* Mutant of HandleStepError: every policy is treated as skip.              *)
HandleStepErrorSkips(err) ==
  /\ stepStatuses' = [stepStatuses EXCEPT ![idx] = "skipped"]
  /\ NextStep
  /\ UNCHANGED <<chain, status, currentStep, stepResults, error, stopCh, updates, caller>>

(* handleStepError, and what runChain does after it. *)
HandleStepError(err) ==
  /\ \/ /\ chain[idx].onFailure = "abort"
        /\ stepStatuses' = [stepStatuses EXCEPT ![idx] = "failed"]
        /\ status' = "failed"
        /\ error' = err
        /\ Return
     \/ /\ chain[idx].onFailure = "skip"
        /\ stepStatuses' = [stepStatuses EXCEPT ![idx] = "skipped"]
        /\ NextStep
        /\ UNCHANGED <<status, error>>
     \/ /\ chain[idx].onFailure = "continue"
        /\ stepStatuses' = [stepStatuses EXCEPT ![idx] = "failed"]
        /\ NextStep
        /\ UNCHANGED <<status, error>>
     \/ /\ chain[idx].onFailure = "other"
        /\ NextStep
        /\ UNCHANGED <<stepStatuses, status, error>>
  /\ UNCHANGED <<chain, currentStep, stepResults, stopCh, updates, caller>>

NewRun(by) == Append(runs, [by |-> by, conclusion |-> "", late |-> by # 0 /\ stopCh])

(* gh workflow run exits with 0: GitHub has created the run. *)
Dispatch ==
  /\ pc = "dispatch"
  /\ pc' = "getRun"
  /\ runs' = NewRun(idx)
  /\ UNCHANGED <<chain, state, idx, runID, stopCh, updates, caller, watched>>

(* gh workflow run fails; GitHub may have created the run all the same.     *)
DispatchFails ==
  /\ pc = "dispatch"
  /\ runs' \in {runs, NewRun(idx)}
  /\ HandleStepError("dispatch")
  /\ UNCHANGED <<runID, watched>>

(* GetLatestRun fails or returns nil. *)
GetLatestRunFails ==
  /\ pc = "getRun"
  /\ HandleStepError("dispatch")
  /\ UNCHANGED <<runID, watched, runs>>

(* GetLatestRun answers with the run it believes to be the latest one: that *)
(* of another user, or an older one while the new one is not listed yet.    *)
(* The run is handed to the watcher.                                        *)
GetLatestRun(r) ==
  /\ pc = "getRun"
  /\ pc' = "watched"
  /\ runID' = r
  /\ watched' = watched \cup {r}
  /\ UNCHANGED <<chain, state, idx, stopCh, updates, caller, runs>>

MarkWaiting ==
  /\ pc = "watched"
  /\ pc' = IF chain[idx].waitFor = "none" THEN "record" ELSE "wait"
  /\ stepStatuses' = [stepStatuses EXCEPT ![idx] = "waiting"]
  /\ SendUpdate([status |-> status, step |-> idx])
  /\ UNCHANGED <<chain, status, currentStep, stepResults, error, idx, runID, stopCh,
                 caller, watched, runs>>

(* runStep returned a result: store it, report it, look at its status.      *)
RecordResult(stepStatus, conclusion) ==
  /\ stepResults' = [i \in DOMAIN stepResults \cup {idx} |->
                       IF i = idx
                       THEN [run |-> runID, status |-> stepStatus, conclusion |-> conclusion]
                       ELSE stepResults[i]]
  /\ stepStatuses' = [stepStatuses EXCEPT ![idx] = stepStatus]
  /\ SendUpdate([status |-> status, step |-> currentStep])
  /\ \/ /\ stepStatus = "failed"
        /\ pc' = "failed"
        /\ UNCHANGED idx
     \/ /\ stepStatus # "failed"
        /\ NextStep
  /\ UNCHANGED <<chain, status, currentStep, error, runID, stopCh, caller, watched, runs>>

RecordUnawaited ==
  /\ pc = "record"
  /\ RecordResult("completed", "")

(* Mutant of PollCompleted: any conclusion counts as success.               *)
PollCompletedIgnoresConclusion ==
  /\ pc = "wait"
  /\ runs[runID].conclusion # ""
  /\ RecordResult("completed", runs[runID].conclusion)

(* The poll of waitForRun finds the run completed. *)
PollCompleted ==
  /\ pc = "wait"
  /\ runs[runID].conclusion # ""
  /\ LET failed == runs[runID].conclusion # "success" /\ chain[idx].waitFor = "success" IN
     RecordResult(IF failed THEN "failed" ELSE "completed", runs[runID].conclusion)

PollFails ==
  /\ pc = "wait"
  /\ HandleStepError("wait")
  /\ UNCHANGED <<runID, watched, runs>>

(* Mutant of WaitStopped: waitForRun does not select on stopCh.             *)
WaitStoppedNever == FALSE

WaitStopped ==
  /\ pc = "wait"
  /\ stopCh
  /\ HandleStepError("stopped")
  /\ UNCHANGED <<runID, watched, runs>>

(* Mutant of HandleStepFailure: on_failure is not looked at.                *)
HandleStepFailureGoesOn ==
  /\ pc = "failed"
  /\ NextStep
  /\ UNCHANGED <<chain, state, runID, stopCh, updates, caller, watched, runs>>

HandleStepFailure ==
  /\ pc = "failed"
  /\ \/ /\ chain[idx].onFailure = "abort"
        /\ status' = "failed"
        /\ Return
     \/ /\ chain[idx].onFailure \in {"skip", "continue"}
        /\ UNCHANGED status
        /\ NextStep
     \/ /\ chain[idx].onFailure = "other"
        /\ UNCHANGED status
        /\ Return
  /\ UNCHANGED <<chain, currentStep, stepStatuses, stepResults, error, runID, stopCh,
                 updates, caller, watched, runs>>

----------------------------------------------------------------------------
(* The caller *)

Start ==
  /\ pc = "new"
  /\ pc' = "loop"
  /\ status' = "running"
  /\ UNCHANGED <<chain, currentStep, stepStatuses, stepResults, error, idx, runID, stopCh,
                 updates, caller, watched, runs>>

Stop ==
  /\ ~stopCh
  /\ stopCh' = TRUE
  /\ UNCHANGED <<chain, state, pc, idx, runID, updates, caller, watched, runs>>

Receive ==
  /\ updates # <<>>
  /\ seen' = Head(updates)
  /\ updates' = Tail(updates)
  /\ UNCHANGED <<chain, state, pc, idx, runID, stopCh, seenClose, watched, runs>>

(* A receive from the drained, closed channel: it never blocks.             *)
ReceiveClosed ==
  /\ Ended
  /\ updates = <<>>
  /\ seenClose' = TRUE
  /\ UNCHANGED <<chain, state, pc, idx, runID, stopCh, updates, seen, watched, runs>>

----------------------------------------------------------------------------
(* GitHub *)

(* The run a step waits for completes.  The executor looks at a run's       *)
(* status only in the polls of waitForRun, so a run that completed earlier  *)
(* makes no difference to one that completes just before the poll.          *)
RunCompletes ==
  /\ pc = "wait"
  /\ runs[runID].conclusion = ""
  /\ \E conclusion \in {"success", "failure"} :
       runs' = [runs EXCEPT ![runID].conclusion = conclusion]
  /\ UNCHANGED <<chain, state, pc, idx, runID, stopCh, updates, caller, watched>>

(* Another user starts a run.  The executor only looks at the list of runs  *)
(* when it asks for the latest one, so a run started earlier makes no       *)
(* difference to one started just then.                                     *)
ForeignDispatch ==
  /\ pc = "getRun"
  /\ Cardinality(Foreign) < MaxForeign
  /\ runs' = NewRun(0)
  /\ UNCHANGED <<chain, state, pc, idx, runID, stopCh, updates, caller, watched>>

----------------------------------------------------------------------------
RunChain ==
  \/ CheckStop
  \/ BeginStep
  \/ Complete
  \/ Dispatch
  \/ DispatchFails
  \/ GetLatestRunFails
  \/ \E r \in DOMAIN runs : GetLatestRun(r)
  \/ MarkWaiting
  \/ RecordUnawaited
  \/ PollCompleted
  \/ PollFails
  \/ WaitStopped
  \/ HandleStepFailure

Next ==
  \/ RunChain
  \/ Start
  \/ Stop
  \/ Receive
  \/ ReceiveClosed
  \/ RunCompletes
  \/ ForeignDispatch

(* The goroutine is scheduled and the gh calls return, with or without an   *)
(* error.  Nothing is assumed of the runs, of the caller, nor that a poll   *)
(* ever fails: PollFails is always enabled while the goroutine waits.       *)
Fairness ==
  /\ WF_vars(CheckStop \/ BeginStep \/ Complete)
  /\ WF_vars(Dispatch \/ DispatchFails)
  /\ WF_vars(GetLatestRunFails \/ \E r \in DOMAIN runs : GetLatestRun(r))
  /\ WF_vars(MarkWaiting \/ RecordUnawaited \/ HandleStepFailure)
  /\ WF_vars(PollCompleted)
  /\ WF_vars(WaitStopped)

Spec == Init /\ [][Next]_vars /\ Fairness

----------------------------------------------------------------------------
(* Properties *)

StateType ==
  /\ chain \in Seq(Step)
  /\ status \in ChainStatus
  /\ currentStep \in Nat
  /\ stepStatuses \in [Steps -> StepStatus]
  /\ DOMAIN stepResults \subseteq Steps
  /\ stepResults \in [DOMAIN stepResults -> StepResult]
  /\ error \in {"", "dispatch", "wait", "stopped"}

GoroutineType ==
  /\ pc \in {"new", "loop", "begin", "dispatch", "getRun", "watched", "record", "wait",
             "failed", "stopped", "closed"}
  /\ idx \in 1..Len(chain) + 1
  /\ runID \in Nat

ChannelType ==
  /\ stopCh \in BOOLEAN
  /\ updates \in Seq(ChainUpdate)
  /\ Len(updates) <= UpdateCap
  /\ seen \in ChainUpdate
  /\ seenClose \in BOOLEAN

GitHubType ==
  /\ watched \subseteq DOMAIN runs
  /\ runs \in Seq(WorkflowRun)

(* The values every variable of the executor can take.                      *)
TypeOK == StateType /\ GoroutineType /\ ChannelType /\ GitHubType

(* Step j no longer holds up the steps after it: it has an outcome, or its  *)
(* on_failure is one the executor does not know, which it passes over.      *)
Passed(j) == stepStatuses[j] \in Settled \/ chain[j].onFailure = "other"

(* "A chain runs several workflows in sequence": a workflow is dispatched   *)
(* only once every earlier step has its outcome, and at most once per step. *)
SequentialDispatch ==
  /\ \A r \in DOMAIN runs : \A j \in Steps : j < runs[r].by => Passed(j)
  /\ \A r, s \in DOMAIN runs : runs[r].by = runs[s].by /\ runs[r].by # 0 => r = s

(* on_failure: abort.  Once a step with this policy has failed, whether by  *)
(* its run's conclusion or by an error of the executor, no workflow of a    *)
(* later step is ever dispatched.                                           *)
AbortIsFinal ==
  \A j \in Steps :
    /\ chain[j].onFailure = "abort"
    /\ stepStatuses[j] = "failed"
    /\ j < idx \/ pc \in {"failed", "closed"}
    => \A r \in DOMAIN runs : runs[r].by <= j

(* wait_for: a result is the outcome of the run the step followed, which    *)
(* the run watcher was told about; with wait_for success a step counts as   *)
(* completed only if that run concluded with success.                       *)
ResultsAreOutcomes ==
  \A i \in DOMAIN stepResults :
    LET result == stepResults[i] IN
    result.run # 0 =>
      /\ result.run \in watched
      /\ chain[i].waitFor # "none" => result.conclusion = runs[result.run].conclusion
      /\ chain[i].waitFor # "none" => result.conclusion # ""
      /\ chain[i].waitFor = "success" =>
           (result.status = "completed" <=> result.conclusion = "success")

(* A chain is reported completed only when no step is left without an       *)
(* outcome and none failed under on_failure: abort.                         *)
CompletedMeansAllPassed ==
  status = "completed" =>
    \A j \in Steps : Passed(j) /\ ~(chain[j].onFailure = "abort" /\ stepStatuses[j] = "failed")

(* Stop may come at any point, between the check at the head of the loop    *)
(* and the dispatch included: at most one workflow is dispatched after it.  *)
AtMostOneLateDispatch ==
  \A r, s \in DOMAIN runs : runs[r].late /\ runs[s].late => r = s

(* A step makes at most three updates and the end of the loop one: in a     *)
(* chain that fits the channel, a caller that receives nothing in time      *)
(* still finds the chain's completion there, unless it called Stop.         *)
CompletionAnnounced ==
  /\ status = "completed"
  /\ ~stopCh
  /\ 3 * Len(chain) + 1 <= UpdateCap
  => IF updates = <<>> THEN seen.status = "completed"
                       ELSE updates[Len(updates)].status = "completed"

(* What the loop has passed stays: neither the status nor the result of a   *)
(* step behind the loop variable changes any more, and an aborted or        *)
(* completed chain stays that way.                                          *)
OutcomesAreFinal ==
  [][/\ \A j \in Steps : j < idx => stepStatuses'[j] = stepStatuses[j]
     /\ \A j \in DOMAIN stepResults : j < idx =>
          j \in DOMAIN stepResults' /\ stepResults'[j] = stepResults[j]
     /\ status \in {"completed", "failed"} => status' = status]_vars

(* A started executor does not hang on anything but an unfinished run: in   *)
(* particular Stop always ends it.                                          *)
Blocked == pc = "wait" /\ ~stopCh /\ runs[runID].conclusion = ""
EndsUnlessRunHangs == (pc # "new") ~> (Ended \/ Blocked)

(* The executor keeps the promise of ChainPromise: the steps begun so far   *)
(* are those up to the loop variable, once the loop body has started.       *)
Begun(i) == i < idx \/ (i = idx /\ pc \notin {"new", "loop", "begin", "stopped"})

Outcome ==
  [i \in Steps |-> IF ~Begun(i) THEN "pending"
                   ELSE IF stepStatuses[i] \in {"running", "waiting"} THEN "active"
                   ELSE stepStatuses[i]]

Promise == INSTANCE ChainPromise WITH
             outcome <- Outcome, verdict <- status, stopped <- stopCh, open <- ~Ended

KeepsPromise == Promise!Spec
=============================================================================
