------------------------ MODULE ChainExecutorProofs ------------------------
(***************************************************************************)
(* Proofs about ChainExecutor, for every set of chains and histories,      *)
(* every capacity of the channel and any number of foreign runs.           *)
(***************************************************************************)
EXTENDS ChainInputs, SequenceTheorems, WellFoundedInduction, TLAPS

(* The goroutine is inside the body of the loop, working on step idx.       *)
InBody == {"begin", "dispatch", "getRun", "watched", "record", "wait", "failed"}

(* runStep knows its run. *)
HasRun == {"watched", "record", "wait", "failed"}

(* Where the goroutine is determines which of its variables mean something. *)
Control ==
  /\ pc \in InBody => idx \in Steps
  /\ pc \in HasRun => runID \in DOMAIN runs /\ runID \in watched
  /\ pc = "wait" => chain[idx].waitFor # "none"
  /\ pc = "record" => chain[idx].waitFor = "none"
  /\ pc = "failed" => stepStatuses[idx] = "failed"
  /\ status \in {"completed", "failed"} => pc = "closed"
  /\ status = "completed" => idx \notin Steps

TypeInv == TypeOK /\ Control

-----------------------------------------------------------------------------
(* Parts of the type invariant that a step leaves alone. *)
LEMMA Untouched ==
  /\ StateType /\ UNCHANGED <<chain, state>> => StateType'
  /\ GoroutineType /\ UNCHANGED <<chain, pc, idx, runID>> => GoroutineType'
  /\ ChannelType /\ UNCHANGED <<stopCh, updates, caller>> => ChannelType'
  /\ GitHubType /\ UNCHANGED <<watched, runs>> => GitHubType'
<1>1. StateType /\ UNCHANGED <<chain, state>> => StateType'
  BY DEF StateType, state, Steps
<1>2. GoroutineType /\ UNCHANGED <<chain, pc, idx, runID>> => GoroutineType'
  BY DEF GoroutineType
<1>3. ChannelType /\ UNCHANGED <<stopCh, updates, caller>> => ChannelType'
  BY DEF ChannelType, caller
<1>4. GitHubType /\ UNCHANGED <<watched, runs>> => GitHubType'
  BY DEF GitHubType
<1> QED BY <1>1, <1>2, <1>3, <1>4

(* sendUpdate keeps the channel a sequence of at most UpdateCap updates.    *)
LEMMA SendUpdateType ==
  ASSUME NEW u \in ChainUpdate, ChannelType, SendUpdate(u), UNCHANGED <<stopCh, caller>>
  PROVE  ChannelType'
<1>1. updates \in Seq(ChainUpdate) /\ Len(updates) \in Nat /\ Len(updates) <= UpdateCap
  BY LenProperties DEF ChannelType
<1>2. updates' \in Seq(ChainUpdate) /\ Len(updates') <= UpdateCap
  <2>1. CASE Len(updates) < UpdateCap /\ updates' = Append(updates, u)
    <3>1. updates' \in Seq(ChainUpdate) /\ Len(updates') = Len(updates) + 1
      BY <1>1, <2>1, AppendProperties
    <3> QED BY <1>1, <2>1, <3>1, BoundsAssumption
  <2>2. CASE UNCHANGED updates
    BY <1>1, <2>2
  <2> QED BY <2>1, <2>2 DEF SendUpdate
<1> QED BY <1>2 DEF ChannelType, caller

(* A new run is added at the end of GitHub's list. *)
LEMMA NewRunType ==
  ASSUME runs \in Seq(WorkflowRun), NEW by \in Nat, stopCh \in BOOLEAN
  PROVE  /\ NewRun(by) \in Seq(WorkflowRun)
         /\ Len(runs) \in Nat
         /\ DOMAIN runs = 1..Len(runs)
         /\ DOMAIN NewRun(by) = 1..(Len(runs) + 1)
         /\ \A r \in DOMAIN runs : NewRun(by)[r] = runs[r]
         /\ NewRun(by)[Len(runs) + 1].by = by
         /\ NewRun(by)[Len(runs) + 1].late <=> (by # 0 /\ stopCh)
<1> DEFINE run == [by |-> by, conclusion |-> "", late |-> by # 0 /\ stopCh]
<1>1. run \in WorkflowRun BY DEF WorkflowRun
<1>2. run.by = by /\ (run.late <=> (by # 0 /\ stopCh)) OBVIOUS
<1>3. NewRun(by) = Append(runs, run) BY DEF NewRun
<1> HIDE DEF run
<1>4. /\ Append(runs, run) \in Seq(WorkflowRun)
      /\ Len(runs) \in Nat
      /\ DOMAIN runs = 1..Len(runs)
      /\ Len(Append(runs, run)) = Len(runs) + 1
      /\ \A r \in 1..Len(runs) : Append(runs, run)[r] = runs[r]
      /\ Append(runs, run)[Len(runs) + 1] = run
  BY <1>1, AppendProperties, LenProperties
<1>5. DOMAIN Append(runs, run) = 1..(Len(runs) + 1)
  BY <1>4, LenProperties
<1> QED BY <1>2, <1>3, <1>4, <1>5

LEMMA NewRunGitHub ==
  ASSUME GitHubType, NEW by \in Nat, stopCh \in BOOLEAN, runs' = NewRun(by),
         UNCHANGED watched
  PROVE  GitHubType' /\ DOMAIN runs \subseteq DOMAIN runs'
<1>1. runs \in Seq(WorkflowRun) /\ watched \subseteq DOMAIN runs
  BY DEF GitHubType
<1>2. runs' \in Seq(WorkflowRun) /\ DOMAIN runs \subseteq DOMAIN runs'
  BY <1>1, NewRunType
<1> QED BY <1>1, <1>2 DEF GitHubType

(* The loop variable stays in the chain or one past its end.                *)
LEMMA IndexType ==
  ASSUME GoroutineType, chain \in Seq(Step), UNCHANGED <<chain, runID>>,
         pc' \in {"loop", "closed", "failed"},
         UNCHANGED idx \/ (idx \in Steps /\ idx' = idx + 1)
  PROVE  GoroutineType'
<1>1. Len(chain) \in Nat /\ Len(chain') = Len(chain) /\ idx \in 1..Len(chain) + 1
  BY LenProperties DEF GoroutineType
<1>2. idx' \in 1..Len(chain') + 1
  <2>1. CASE UNCHANGED idx
    BY <1>1, <2>1
  <2>2. CASE idx \in Steps /\ idx' = idx + 1
    <3>1. idx \in Nat /\ 1 <= idx /\ idx <= Len(chain)
      BY <1>1, <2>2 DEF Steps
    <3>2. idx' \in Nat /\ 1 <= idx' /\ idx' <= Len(chain) + 1
      BY <1>1, <2>2, <3>1
    <3> QED BY <1>1, <3>2
  <2> QED BY <2>1, <2>2
<1> QED BY <1>2 DEF GoroutineType

(* A step gets a new status. *)
LEMMA StepStatusType ==
  ASSUME StateType, NEW s \in StepStatus,
         stepStatuses' = [stepStatuses EXCEPT ![idx] = s], UNCHANGED <<chain, stepResults>>,
         status' \in ChainStatus, currentStep' \in Nat,
         error' \in {"", "dispatch", "wait", "stopped"}
  PROVE  StateType'
<1>1. stepStatuses' \in [Steps' -> StepStatus]
  BY DEF StateType, Steps
<1> QED BY <1>1 DEF StateType, Steps

(* What HandleStepError does keeps the executor's variables well-typed.     *)
LEMMA HandleStepErrorType ==
  ASSUME TypeInv, idx \in Steps, pc \in InBody, UNCHANGED runID,
         NEW err \in {"dispatch", "wait", "stopped"}, HandleStepError(err)
  PROVE  StateType' /\ GoroutineType' /\ ChannelType' /\ Control'
<1>1. StateType /\ GoroutineType /\ ChannelType /\ Control
  BY DEF TypeInv, TypeOK
<1>2. UNCHANGED <<chain, currentStep, stepResults, stopCh, updates, caller>>
  BY DEF HandleStepError
<1>3. status' \in ChainStatus /\ currentStep' \in Nat /\ error' \in {"", "dispatch", "wait", "stopped"}
  BY <1>1, <1>2 DEF HandleStepError, StateType, ChainStatus
<1>4. StateType'
  <2>1. CASE UNCHANGED stepStatuses
    BY <1>1, <1>2, <1>3, <2>1 DEF StateType, Steps
  <2>2. CASE \E s \in StepStatus : stepStatuses' = [stepStatuses EXCEPT ![idx] = s]
    BY <1>1, <1>2, <1>3, <2>2, StepStatusType
  <2>3. UNCHANGED stepStatuses \/ \E s \in {"failed", "skipped"} : stepStatuses' = [stepStatuses EXCEPT ![idx] = s]
    BY DEF HandleStepError
  <2> QED BY <2>1, <2>2, <2>3 DEF StepStatus, Settled
<1>5. GoroutineType'
  <2>1. pc' \in {"loop", "closed"} /\ (UNCHANGED idx \/ idx' = idx + 1)
    BY DEF HandleStepError, NextStep, Return
  <2>2. chain \in Seq(Step)
    BY <1>1 DEF StateType
  <2> QED BY <1>1, <1>2, <2>1, <2>2, IndexType
<1>6. ChannelType'
  BY <1>1, <1>2, Untouched
<1>7. Control'
  BY <1>1 DEF Control, InBody, HasRun, HandleStepError, NextStep, Return
<1> QED BY <1>4, <1>5, <1>6, <1>7

(* What RecordResult does keeps the executor's variables well-typed.        *)
LEMMA RecordResultType ==
  ASSUME TypeInv, idx \in Steps, pc \in HasRun,
         NEW s \in {"completed", "failed"}, NEW c \in {"", "success", "failure"},
         RecordResult(s, c)
  PROVE  TypeInv'
<1>1. StateType /\ GoroutineType /\ ChannelType /\ GitHubType /\ Control
  BY DEF TypeInv, TypeOK
<1>2. UNCHANGED <<chain, status, currentStep, error, runID, stopCh, caller, watched, runs>>
  BY DEF RecordResult
<1>3. StateType'
  <2> DEFINE result == [run |-> runID, status |-> s, conclusion |-> c]
  <2>1. result \in StepResult
    BY <1>1 DEF StepResult, Settled, GoroutineType
  <2>2. stepResults' = [i \in DOMAIN stepResults \cup {idx} |->
                          IF i = idx THEN result ELSE stepResults[i]]
    BY DEF RecordResult
  <2> HIDE DEF result
  <2>3. DOMAIN stepResults \subseteq Steps /\ stepResults \in [DOMAIN stepResults -> StepResult]
    BY <1>1 DEF StateType
  <2>4. DOMAIN stepResults' \subseteq Steps /\ stepResults' \in [DOMAIN stepResults' -> StepResult]
    BY <2>1, <2>2, <2>3
  <2>5. stepStatuses' \in [Steps -> StepStatus]
    BY <1>1 DEF RecordResult, StateType, StepStatus, Settled
  <2>6. Steps' = Steps
    BY <1>2 DEF Steps
  <2> QED BY <1>1, <1>2, <2>4, <2>5, <2>6 DEF StateType
<1>4. GoroutineType'
  <2>1. pc' \in {"loop", "failed"} /\ (UNCHANGED idx \/ idx' = idx + 1)
    BY DEF RecordResult, NextStep
  <2>2. chain \in Seq(Step)
    BY <1>1 DEF StateType
  <2> QED BY <1>1, <1>2, <2>1, <2>2, IndexType
<1>5. ChannelType'
  <2>1. [status |-> status, step |-> currentStep] \in ChainUpdate
    BY <1>1 DEF StateType, ChainUpdate
  <2> QED BY <1>1, <1>2, <2>1, SendUpdateType DEF RecordResult
<1>6. GitHubType'
  BY <1>1, <1>2, Untouched
<1>7. Control'
  <2>1. pc' \in {"loop", "failed"} /\ (pc' = "failed" => idx' = idx /\ stepStatuses'[idx] = "failed")
    BY <1>1 DEF RecordResult, NextStep, StateType
  <2>2. status \notin {"completed", "failed"} /\ Steps' = Steps
    BY <1>1, <1>2 DEF Control, HasRun, Steps
  <2>3. runID \in DOMAIN runs /\ runID \in watched
    BY <1>1 DEF Control
  <2> QED BY <1>2, <2>1, <2>2, <2>3 DEF Control, InBody, HasRun
<1> QED BY <1>3, <1>4, <1>5, <1>6, <1>7 DEF TypeInv, TypeOK

-----------------------------------------------------------------------------
(* No action leaves the type invariant.                                     *)
LEMMA TypeNext == TypeInv /\ [Next]_vars => TypeInv'
<1> SUFFICES ASSUME TypeInv, [Next]_vars PROVE TypeInv'
  OBVIOUS
<1>1. StateType /\ GoroutineType /\ ChannelType /\ GitHubType /\ Control
  BY DEF TypeInv, TypeOK
<1>2. chain \in Seq(Step)
  BY <1>1 DEF StateType
<1>3. pc \in InBody => idx \in Steps /\ idx \in Nat
  BY <1>1 DEF Control, GoroutineType
<1>4. \A n \in Nat : [status |-> status, step |-> n] \in ChainUpdate
  BY <1>1 DEF StateType, ChainUpdate
<1> USE DEF InBody, HasRun
<1>5. CASE CheckStop
  <2>1. GoroutineType'
    BY <1>1, <1>5 DEF CheckStop, GoroutineType
  <2>2. Control'
    BY <1>1, <1>5 DEF CheckStop, Control, Steps, state
  <2> QED BY <1>1, <1>5, <2>1, <2>2, Untouched DEF CheckStop, TypeInv, TypeOK
<1>6. CASE BeginStep
  <2>1. StateType'
    BY <1>1, <1>3, <1>6, StepStatusType DEF BeginStep, StepStatus, StateType
  <2>2. GoroutineType'
    BY <1>1, <1>6 DEF BeginStep, GoroutineType
  <2>3. ChannelType'
    BY <1>1, <1>3, <1>4, <1>6, SendUpdateType DEF BeginStep
  <2>4. Control'
    BY <1>1, <1>6 DEF BeginStep, Control, Steps
  <2> QED BY <1>1, <1>6, <2>1, <2>2, <2>3, <2>4, Untouched DEF BeginStep, TypeInv, TypeOK
<1>7. CASE Complete
  <2>1. StateType'
    BY <1>1, <1>7 DEF Complete, StateType, ChainStatus, Steps
  <2>2. GoroutineType'
    BY <1>1, <1>7 DEF Complete, Return, GoroutineType
  <2>3. ChannelType'
    <3>1. [status |-> "completed", step |-> currentStep] \in ChainUpdate
      BY <1>1 DEF StateType, ChainUpdate, ChainStatus
    <3> QED BY <1>1, <1>7, <3>1, SendUpdateType DEF Complete
  <2>4. Control'
    BY <1>1, <1>7 DEF Complete, Return, Control, Steps
  <2> QED BY <1>1, <1>7, <2>1, <2>2, <2>3, <2>4, Untouched DEF Complete, TypeInv, TypeOK
<1>8. CASE Dispatch
  <2>1. GoroutineType'
    BY <1>1, <1>8 DEF Dispatch, GoroutineType
  <2>2. GitHubType' /\ Control'
    BY <1>1, <1>3, <1>8, NewRunGitHub DEF Dispatch, ChannelType, Control, Steps, state
  <2> QED BY <1>1, <1>8, <2>1, <2>2, Untouched DEF Dispatch, TypeInv, TypeOK
<1>9. CASE DispatchFails
  <2>1. StateType' /\ GoroutineType' /\ ChannelType' /\ Control'
    BY <1>3, <1>9, HandleStepErrorType DEF DispatchFails
  <2>2. CASE runs' = runs
    BY <1>1, <1>9, <2>1, <2>2, Untouched DEF DispatchFails, TypeInv, TypeOK
  <2>3. CASE runs' = NewRun(idx)
    <3>1. GitHubType'
      BY <1>1, <1>3, <1>9, <2>3, NewRunGitHub DEF DispatchFails, ChannelType
    <3> QED BY <2>1, <3>1 DEF TypeInv, TypeOK
  <2> QED BY <1>9, <2>2, <2>3 DEF DispatchFails
<1>10. CASE GetLatestRunFails
  BY <1>1, <1>3, <1>10, HandleStepErrorType, Untouched DEF GetLatestRunFails, TypeInv, TypeOK
<1>11. ASSUME NEW r \in DOMAIN runs, GetLatestRun(r) PROVE TypeInv'
  <2>1. r \in Nat
    BY <1>1, LenProperties DEF GitHubType
  <2>2. GoroutineType' /\ GitHubType'
    BY <1>1, <1>11, <2>1 DEF GetLatestRun, GoroutineType, GitHubType
  <2>3. Control'
    BY <1>1, <1>11 DEF GetLatestRun, Control, Steps, state
  <2> QED BY <1>1, <1>11, <2>2, <2>3, Untouched DEF GetLatestRun, TypeInv, TypeOK
<1>12. CASE MarkWaiting
  <2>1. StateType'
    BY <1>1, <1>12, StepStatusType DEF MarkWaiting, StepStatus, StateType
  <2>2. GoroutineType'
    BY <1>1, <1>12 DEF MarkWaiting, GoroutineType
  <2>3. ChannelType'
    BY <1>1, <1>3, <1>4, <1>12, SendUpdateType DEF MarkWaiting
  <2>4. Control'
    BY <1>1, <1>12 DEF MarkWaiting, Control, Steps
  <2> QED BY <1>1, <1>12, <2>1, <2>2, <2>3, <2>4, Untouched DEF MarkWaiting, TypeInv, TypeOK
<1>13. CASE RecordUnawaited
  BY <1>3, <1>13, RecordResultType DEF RecordUnawaited
<1>14. CASE PollCompleted
  <2>1. runID \in DOMAIN runs /\ runs \in Seq(WorkflowRun)
    BY <1>1, <1>14 DEF PollCompleted, Control, GitHubType
  <2>2. runs[runID] \in WorkflowRun
    BY <2>1, LenProperties, ElementOfSeq
  <2>3. runs[runID].conclusion \in {"", "success", "failure"}
    BY <2>2 DEF WorkflowRun
  <2> QED BY <1>3, <1>14, <2>3, RecordResultType DEF PollCompleted
<1>15. CASE PollFails
  BY <1>1, <1>3, <1>15, HandleStepErrorType, Untouched DEF PollFails, TypeInv, TypeOK
<1>16. CASE WaitStopped
  BY <1>1, <1>3, <1>16, HandleStepErrorType, Untouched DEF WaitStopped, TypeInv, TypeOK
<1>17. CASE HandleStepFailure
  <2>1. StateType'
    BY <1>1, <1>17 DEF HandleStepFailure, StateType, ChainStatus, Steps
  <2>2. GoroutineType'
    <3>1. pc' \in {"loop", "closed"} /\ (UNCHANGED idx \/ idx' = idx + 1)
      BY <1>17 DEF HandleStepFailure, NextStep, Return
    <3> QED BY <1>1, <1>2, <1>3, <1>17, <3>1, IndexType DEF HandleStepFailure
  <2>3. Control'
    BY <1>1, <1>17 DEF HandleStepFailure, NextStep, Return, Control
  <2> QED BY <1>1, <1>17, <2>1, <2>2, <2>3, Untouched DEF HandleStepFailure, TypeInv, TypeOK
<1>18. CASE Start
  <2>1. StateType' /\ GoroutineType'
    BY <1>1, <1>18 DEF Start, StateType, GoroutineType, ChainStatus, Steps
  <2>2. Control'
    BY <1>1, <1>18 DEF Start, Control
  <2> QED BY <1>1, <1>18, <2>1, <2>2, Untouched DEF Start, TypeInv, TypeOK
<1>19. CASE Stop
  <2>1. ChannelType'
    BY <1>1, <1>19 DEF Stop, ChannelType, caller
  <2>2. Control'
    BY <1>1, <1>19 DEF Stop, Control, Steps, state
  <2> QED BY <1>1, <1>19, <2>1, <2>2, Untouched DEF Stop, TypeInv, TypeOK
<1>20. CASE Receive
  <2>1. updates \in Seq(ChainUpdate) /\ updates # <<>>
    BY <1>1, <1>20 DEF Receive, ChannelType
  <2>2. /\ Head(updates) \in ChainUpdate
        /\ Tail(updates) \in Seq(ChainUpdate)
        /\ Len(updates) \in Nat
        /\ Len(Tail(updates)) = Len(updates) - 1
    BY <2>1, HeadTailProperties, LenProperties
  <2>3. ChannelType'
    BY <1>1, <1>20, <2>2, BoundsAssumption DEF Receive, ChannelType
  <2>4. Control'
    BY <1>1, <1>20 DEF Receive, Control, Steps, state
  <2> QED BY <1>1, <1>20, <2>3, <2>4, Untouched DEF Receive, TypeInv, TypeOK
<1>21. CASE ReceiveClosed
  <2>1. ChannelType'
    BY <1>1, <1>21 DEF ReceiveClosed, ChannelType, caller
  <2>2. Control'
    BY <1>1, <1>21 DEF ReceiveClosed, Control, Steps, state
  <2> QED BY <1>1, <1>21, <2>1, <2>2, Untouched DEF ReceiveClosed, TypeInv, TypeOK
<1>22. CASE RunCompletes
  <2>1. DOMAIN runs' = DOMAIN runs
    BY <1>22 DEF RunCompletes
  <2>2. runs' \in Seq(WorkflowRun)
    <3>1. PICK c \in {"success", "failure"} : runs' = [runs EXCEPT ![runID].conclusion = c]
      BY <1>22 DEF RunCompletes
    <3>2. runs \in Seq(WorkflowRun) /\ runID \in DOMAIN runs
      BY <1>1, <1>22 DEF RunCompletes, Control, GitHubType
    <3>3. \A w \in WorkflowRun : [w EXCEPT !.conclusion = c] \in WorkflowRun
      BY DEF WorkflowRun
    <3>4. runs' = [runs EXCEPT ![runID] = [runs[runID] EXCEPT !.conclusion = c]]
      BY <3>1
    <3> QED BY <3>2, <3>3, <3>4, ExceptSeq
  <2>3. Control'
    BY <1>1, <1>22, <2>1 DEF RunCompletes, Control, Steps, state
  <2> QED BY <1>1, <1>22, <2>1, <2>2, <2>3, Untouched DEF RunCompletes, GitHubType, TypeInv, TypeOK
<1>23. CASE ForeignDispatch
  <2>1. GitHubType' /\ Control'
    BY <1>1, <1>23, NewRunGitHub DEF ForeignDispatch, ChannelType, Control, Steps, state
  <2> QED BY <1>1, <1>23, <2>1, Untouched DEF ForeignDispatch, TypeInv, TypeOK
<1>24. CASE UNCHANGED vars
  <2>1. Control'
    BY <1>1, <1>24 DEF Control, Steps, vars, state
  <2> QED BY <1>1, <1>24, <2>1, Untouched DEF vars, TypeInv, TypeOK
<1> QED BY <1>5, <1>6, <1>7, <1>8, <1>9, <1>10, <1>11, <1>12, <1>13, <1>14, <1>15, <1>16,
           <1>17, <1>18, <1>19, <1>20, <1>21, <1>22, <1>23, <1>24 DEF Next, RunChain

(* A new executor satisfies the type invariant.                             *)
LEMMA TypeInit == Init => TypeInv
<1> SUFFICES ASSUME Init PROVE TypeInv
  OBVIOUS
<1>1. InitRest /\ chain \in Chains
  BY DEF Init, NewExecutor, NewExecutorFromHistory
<1>2. chain \in Seq(Step) /\ Len(chain) \in Nat
  BY <1>1, ChainsAssumption, LenProperties
<1>3. /\ currentStep \in Nat
      /\ stepStatuses \in [Steps -> StepStatus]
      /\ DOMAIN stepResults \subseteq Steps
      /\ stepResults \in [DOMAIN stepResults -> StepResult]
  <2>1. CASE NewExecutor
    BY <2>1 DEF NewExecutor, StepStatus
  <2>2. ASSUME NEW previous \in Histories, NEW resumeFrom \in Steps,
               NEW Restored,
               Restored = {i \in Steps : i < resumeFrom /\ i <= Len(previous)},
               currentStep = resumeFrom,
               stepStatuses = [i \in Steps |-> IF i \in Restored
                                               THEN RestoredStatus(previous[i]) ELSE "pending"],
               stepResults = [i \in Restored |-> [run |-> 0, status |-> RestoredStatus(previous[i]),
                                                  conclusion |-> previous[i].conclusion]]
        PROVE  <1>3!:
    <3>1. previous \in Seq(PreviousStepResult)
      BY HistoriesAssumption
    <3>2. Restored \subseteq Steps /\ \A i \in Restored : i \in 1..Len(previous)
      BY <1>2, <2>2, <3>1, LenProperties DEF Steps
    <3>3. \A i \in Restored : previous[i] \in PreviousStepResult
      BY <3>1, <3>2, ElementOfSeq
    <3>4. \A i \in Restored : RestoredStatus(previous[i]) \in Settled
      BY <3>3 DEF RestoredStatus, Settled
    <3>5. \A i \in Restored : [run |-> 0, status |-> RestoredStatus(previous[i]),
                               conclusion |-> previous[i].conclusion] \in StepResult
      BY <3>3, <3>4 DEF StepResult, PreviousStepResult
    <3>6. stepStatuses \in [Steps -> StepStatus]
      BY <2>2, <3>4 DEF StepStatus
    <3>7. DOMAIN stepResults = Restored /\ stepResults \in [Restored -> StepResult]
      BY <2>2, <3>5
    <3>8. currentStep \in Nat
      BY <1>2, <2>2 DEF Steps
    <3> QED BY <3>2, <3>6, <3>7, <3>8
  <2> QED BY <2>1, <2>2 DEF Init, NewExecutorFromHistory
<1>4. StateType
  BY <1>1, <1>2, <1>3 DEF InitRest, StateType, ChainStatus
<1>5. GoroutineType
  <2>1. 1 \in 1..Len(chain) + 1
    BY <1>2
  <2> QED BY <1>1, <2>1 DEF InitRest, GoroutineType
<1>6. ChannelType
  <2>1. <<>> \in Seq(ChainUpdate) /\ Len(<<>>) = 0
    OBVIOUS
  <2>2. [status |-> "pending", step |-> 0] \in ChainUpdate
    BY DEF ChainUpdate, ChainStatus
  <2>3. 0 <= UpdateCap
    BY BoundsAssumption
  <2>4. /\ stopCh = FALSE
        /\ updates = <<>>
        /\ seen = [status |-> "pending", step |-> 0]
        /\ seenClose = FALSE
    BY <1>1 DEF InitRest
  <2>5. updates \in Seq(ChainUpdate) /\ Len(updates) <= UpdateCap
    BY <2>1, <2>3, <2>4
  <2> QED BY <2>2, <2>4, <2>5 DEF ChannelType
<1>7. GitHubType
  BY <1>1, EmptySeq DEF InitRest, GitHubType
<1>8. Control
  BY <1>1 DEF InitRest, Control, InBody, HasRun
<1> QED BY <1>4, <1>5, <1>6, <1>7, <1>8 DEF TypeInv, TypeOK

(* Every variable of the executor keeps its type, whatever the chain, the   *)
(* history it resumes from and the size of the channel.                     *)
THEOREM TypeCorrect == Spec => []TypeOK
<1>1. TypeInv => TypeOK
  BY DEF TypeInv
<1> QED BY <1>1, TypeInit, TypeNext, PTL DEF Spec

-----------------------------------------------------------------------------
(* The goroutine has not dispatched the workflow of step idx.               *)
Fresh == {"new", "loop", "begin", "dispatch", "stopped"}

(* Runs belong to the steps the loop has reached.                           *)
DispatchedUpTo ==
  /\ \A r \in DOMAIN runs : runs[r].by <= idx
  /\ pc \in Fresh => \A r \in DOMAIN runs : runs[r].by < idx

OncePerStep == \A r, s \in DOMAIN runs : runs[r].by = runs[s].by /\ runs[r].by # 0 => r = s

(* No step the loop has passed holds up its successors. *)
PastPassed ==
  \A j \in Steps : j < idx => Passed(j) /\ ~(chain[j].onFailure = "abort" /\ stepStatuses[j] = "failed")

(* After a dispatch that came too late the goroutine never gets back to one. *)
LateOnce ==
  /\ AtMostOneLateDispatch
  /\ (\E r \in DOMAIN runs : runs[r].late) => stopCh /\ pc \notin {"new", "begin", "dispatch"}

(* Step numbers are naturals. *)
LEMMA StepNumbers ==
  ASSUME TypeInv
  PROVE  /\ idx \in Nat /\ idx >= 1
         /\ Steps \subseteq Nat
         /\ \A r \in DOMAIN runs : runs[r].by \in Nat
<1>1. chain \in Seq(Step) /\ runs \in Seq(WorkflowRun) /\ idx \in 1..Len(chain) + 1
  BY DEF TypeInv, TypeOK, StateType, GitHubType, GoroutineType
<1>2. \A r \in DOMAIN runs : runs[r] \in WorkflowRun
  BY <1>1, ElementOfSeq, LenProperties
<1>3. \A r \in DOMAIN runs : runs[r].by \in Nat
  BY <1>2 DEF WorkflowRun
<1>4. idx \in Nat /\ idx >= 1
  BY <1>1
<1>5. Steps \subseteq Nat
  BY DEF Steps
<1> QED BY <1>3, <1>4, <1>5

(* How a step moves the goroutine.                                          *)
LEMMA Flow ==
  ASSUME TypeInv, [Next]_vars
  PROVE  /\ chain' = chain
         /\ stopCh => stopCh'
         /\ \/ UNCHANGED idx /\ (pc' \in Fresh => pc \in Fresh)
            \/ pc \in InBody /\ idx' = idx + 1 /\ pc' = "loop"
         /\ pc' \in {"new", "begin", "dispatch"} /\ pc \notin {"new", "begin", "dispatch"}
            => pc = "loop" /\ ~stopCh
<1> USE DEF NextStep, Return, Fresh, InBody
<1>1. CASE CheckStop
  BY <1>1 DEF CheckStop
<1>2. CASE BeginStep \/ Complete \/ Dispatch \/ MarkWaiting
  <2>1. CASE BeginStep
    BY <2>1 DEF BeginStep
  <2>2. CASE Complete
    BY <2>2 DEF Complete
  <2>3. CASE Dispatch
    BY <2>3 DEF Dispatch
  <2>4. CASE MarkWaiting
    BY <2>4 DEF MarkWaiting
  <2> QED BY <1>2, <2>1, <2>2, <2>3, <2>4
<1>3. CASE DispatchFails \/ GetLatestRunFails \/ PollFails \/ WaitStopped
  <2>1. pc \in InBody /\ \E err \in {"dispatch", "wait", "stopped"} : HandleStepError(err)
    BY <1>3 DEF DispatchFails, GetLatestRunFails, PollFails, WaitStopped
  <2> QED BY <2>1 DEF HandleStepError
<1>4. CASE RecordUnawaited \/ PollCompleted \/ HandleStepFailure
  <2>1. CASE HandleStepFailure
    BY <2>1 DEF HandleStepFailure
  <2>2. CASE RecordUnawaited
    BY <2>2 DEF RecordUnawaited, RecordResult
  <2>3. CASE PollCompleted
    BY <2>3 DEF PollCompleted, RecordResult
  <2> QED BY <1>4, <2>1, <2>2, <2>3
<1>5. ASSUME NEW r \in DOMAIN runs, GetLatestRun(r) PROVE UNCHANGED <<chain, idx, stopCh>> /\ pc' = "watched"
  BY <1>5 DEF GetLatestRun
<1>6. CASE Start \/ Stop \/ Receive \/ ReceiveClosed \/ RunCompletes \/ ForeignDispatch
  <2>1. CASE Start
    BY <2>1 DEF Start
  <2>2. CASE Stop \/ Receive \/ ReceiveClosed
    BY <2>2 DEF Stop, Receive, ReceiveClosed
  <2>3. CASE RunCompletes \/ ForeignDispatch
    <3>1. UNCHANGED <<chain, pc, idx, stopCh>>
      BY <2>3 DEF RunCompletes, ForeignDispatch
    <3> QED BY <3>1
  <2> QED BY <1>6, <2>1, <2>2, <2>3
<1>7. CASE UNCHANGED vars
  BY <1>7 DEF vars
<1> QED BY <1>1, <1>2, <1>3, <1>4, <1>5, <1>6, <1>7 DEF Next, RunChain

(* How a step changes GitHub's runs, as far as their origin is concerned.   *)
LEMMA RunsStep ==
  ASSUME TypeInv, [Next]_vars
  PROVE  \/ /\ DOMAIN runs' = DOMAIN runs
            /\ \A r \in DOMAIN runs : runs'[r].by = runs[r].by /\ runs'[r].late = runs[r].late
         \/ /\ pc = "dispatch"
            /\ runs' = NewRun(idx)
            /\ \/ UNCHANGED idx /\ pc' \in {"getRun", "closed"}
               \/ idx' = idx + 1 /\ pc' = "loop"
         \/ /\ pc = "getRun"
            /\ runs' = NewRun(0)
            /\ UNCHANGED <<pc, idx>>
<1>1. CASE CheckStop \/ BeginStep \/ Complete \/ MarkWaiting \/ HandleStepFailure
  BY <1>1 DEF CheckStop, BeginStep, Complete, MarkWaiting, HandleStepFailure
<1>2. CASE Dispatch
  BY <1>2 DEF Dispatch
<1>3. CASE DispatchFails
  BY <1>3 DEF DispatchFails, HandleStepError, NextStep, Return
<1>4. CASE GetLatestRunFails \/ PollFails \/ WaitStopped \/ RecordUnawaited \/ PollCompleted
  BY <1>4 DEF GetLatestRunFails, PollFails, WaitStopped, RecordUnawaited, PollCompleted, RecordResult
<1>5. ASSUME NEW r \in DOMAIN runs, GetLatestRun(r) PROVE UNCHANGED runs
  BY <1>5 DEF GetLatestRun
<1>6. CASE Start \/ Stop \/ Receive \/ ReceiveClosed
  BY <1>6 DEF Start, Stop, Receive, ReceiveClosed
<1>7. CASE RunCompletes
  <2>1. \A r \in DOMAIN runs : runs[r] \in WorkflowRun
    BY ElementOfSeq, LenProperties DEF TypeInv, TypeOK, GitHubType
  <2>2. PICK c \in {"success", "failure"} : runs' = [runs EXCEPT ![runID].conclusion = c]
    BY <1>7 DEF RunCompletes
  <2>3. DOMAIN runs' = DOMAIN runs
    BY <2>2
  <2>4. \A r \in DOMAIN runs : runs'[r].by = runs[r].by /\ runs'[r].late = runs[r].late
    BY <2>1, <2>2 DEF WorkflowRun
  <2> QED BY <2>3, <2>4
<1>8. CASE ForeignDispatch
  BY <1>8 DEF ForeignDispatch
<1>9. CASE UNCHANGED vars
  BY <1>9 DEF vars
<1> QED BY <1>1, <1>2, <1>3, <1>4, <1>5, <1>6, <1>7, <1>8, <1>9 DEF Next, RunChain

(* Every dispatch is for the step the loop is at.                           *)
LEMMA DispatchedUpToNext ==
  ASSUME TypeInv, DispatchedUpTo, OncePerStep, [Next]_vars
  PROVE  DispatchedUpTo' /\ OncePerStep'
<1>1. runs \in Seq(WorkflowRun) /\ stopCh \in BOOLEAN /\ idx \in Nat /\ idx >= 1
  BY StepNumbers DEF TypeInv, TypeOK, GitHubType, ChannelType
<1>2. \A r \in DOMAIN runs : runs[r].by \in Nat
  BY StepNumbers
<1>3. \/ UNCHANGED idx /\ (pc' \in Fresh => pc \in Fresh)
      \/ idx' = idx + 1
  BY Flow
<1>4. CASE /\ DOMAIN runs' = DOMAIN runs
           /\ \A r \in DOMAIN runs : runs'[r].by = runs[r].by
  <2>1. OncePerStep'
    BY <1>4 DEF OncePerStep
  <2>2. CASE UNCHANGED idx /\ (pc' \in Fresh => pc \in Fresh)
    <3>1. \A r \in DOMAIN runs' : runs'[r].by <= idx'
      BY <1>4, <2>2 DEF DispatchedUpTo
    <3>2. ASSUME pc' \in Fresh PROVE \A r \in DOMAIN runs' : runs'[r].by < idx'
      BY <1>4, <2>2, <3>2 DEF DispatchedUpTo
    <3> QED BY <2>1, <3>1, <3>2 DEF DispatchedUpTo
  <2>3. CASE idx' = idx + 1
    <3>1. \A r \in DOMAIN runs : runs[r].by <= idx
      BY DEF DispatchedUpTo
    <3>2. \A r \in DOMAIN runs : runs[r].by < idx'
      BY <1>1, <1>2, <2>3, <3>1
    <3>3. \A r \in DOMAIN runs : runs[r].by <= idx'
      BY <1>1, <1>2, <2>3, <3>2
    <3>4. \A r \in DOMAIN runs' : runs'[r].by <= idx' /\ runs'[r].by < idx'
      BY <1>4, <3>2, <3>3
    <3> QED BY <2>1, <3>4 DEF DispatchedUpTo
  <2> QED BY <1>3, <2>1, <2>2, <2>3
<1>5. CASE /\ pc = "dispatch" /\ runs' = NewRun(idx)
           /\ \/ UNCHANGED idx /\ pc' \in {"getRun", "closed"}
              \/ idx' = idx + 1 /\ pc' = "loop"
  <2>1. /\ DOMAIN runs = 1..Len(runs)
        /\ DOMAIN runs' = 1..(Len(runs) + 1)
        /\ Len(runs) \in Nat
        /\ \A r \in DOMAIN runs : runs'[r] = runs[r]
        /\ runs'[Len(runs) + 1].by = idx
    BY <1>1, <1>5, NewRunType
  <2>2. \A r \in DOMAIN runs : runs[r].by < idx
    BY <1>5 DEF DispatchedUpTo, Fresh
  <2>3. \A r \in DOMAIN runs' : r \in DOMAIN runs \/ r = Len(runs) + 1
    BY <2>1
  <2>4. OncePerStep'
    BY <1>1, <1>2, <2>1, <2>2, <2>3 DEF OncePerStep
  <2>5. \A r \in DOMAIN runs' : runs'[r].by <= idx
    BY <1>1, <1>2, <2>1, <2>2, <2>3
  <2>6. \A r \in DOMAIN runs' : runs'[r].by \in Nat
    BY <1>1, <1>2, <2>1, <2>3
  <2>7. DispatchedUpTo'
    BY <1>1, <1>5, <2>5, <2>6 DEF DispatchedUpTo, Fresh
  <2> QED BY <2>4, <2>7
<1>6. CASE pc = "getRun" /\ runs' = NewRun(0) /\ UNCHANGED <<pc, idx>>
  <2>1. /\ DOMAIN runs = 1..Len(runs)
        /\ DOMAIN runs' = 1..(Len(runs) + 1)
        /\ Len(runs) \in Nat
        /\ \A r \in DOMAIN runs : runs'[r] = runs[r]
        /\ runs'[Len(runs) + 1].by = 0
    BY <1>1, <1>6, NewRunType
  <2>2. \A r \in DOMAIN runs' : r \in DOMAIN runs \/ r = Len(runs) + 1
    BY <2>1
  <2>3. OncePerStep'
    BY <2>1, <2>2 DEF OncePerStep
  <2>4. DispatchedUpTo'
    BY <1>1, <1>6, <2>1, <2>2 DEF DispatchedUpTo, Fresh
  <2> QED BY <2>3, <2>4
<1> QED BY <1>4, <1>5, <1>6, RunsStep

(* The step at the loop variable has an outcome when the loop moves on; the *)
(* statuses of the steps behind it no longer change.                        *)
LEMMA StatusStep ==
  ASSUME TypeInv, [Next]_vars, NEW j \in Steps
  PROVE  /\ j # idx => stepStatuses'[j] = stepStatuses[j]
         /\ j = idx /\ idx' # idx =>
              Passed(j)' /\ ~(chain[j].onFailure = "abort" /\ stepStatuses'[j] = "failed")
<1>1. StateType /\ Control
  BY DEF TypeInv, TypeOK
<1>2. stepStatuses \in [Steps -> StepStatus]
  BY <1>1 DEF StateType
<1>3. CASE UNCHANGED <<stepStatuses, idx>>
  BY <1>3
<1>4. CASE UNCHANGED idx /\ \E s \in StepStatus : stepStatuses' = [stepStatuses EXCEPT ![idx] = s]
  BY <1>2, <1>4
<1>5. ASSUME NEW err \in {"dispatch", "wait", "stopped"}, HandleStepError(err)
      PROVE  /\ j # idx => stepStatuses'[j] = stepStatuses[j]
             /\ j = idx /\ idx' # idx =>
                  Passed(j)' /\ ~(chain[j].onFailure = "abort" /\ stepStatuses'[j] = "failed")
  <2>1. j # idx => stepStatuses'[j] = stepStatuses[j]
    BY <1>2, <1>5 DEF HandleStepError
  <2>2. ASSUME j = idx, idx' # idx
        PROVE  Passed(j)' /\ ~(chain[j].onFailure = "abort" /\ stepStatuses'[j] = "failed")
    BY <1>2, <1>5, <2>2 DEF HandleStepError, Passed, Settled, Return
  <2> QED BY <2>1, <2>2
<1>6. ASSUME NEW s \in {"completed", "failed"}, NEW c \in {"", "success", "failure"}, RecordResult(s, c)
      PROVE  /\ j # idx => stepStatuses'[j] = stepStatuses[j]
             /\ j = idx /\ idx' # idx =>
                  Passed(j)' /\ ~(chain[j].onFailure = "abort" /\ stepStatuses'[j] = "failed")
  BY <1>2, <1>6 DEF RecordResult, Passed, Settled
<1>7. CASE HandleStepFailure
  <2>1. stepStatuses[idx] = "failed" /\ UNCHANGED <<chain, stepStatuses>>
    BY <1>1, <1>7 DEF HandleStepFailure, Control
  <2>2. idx' # idx => chain[idx].onFailure \in {"skip", "continue"}
    BY <1>7 DEF HandleStepFailure, Return
  <2> QED BY <2>1, <2>2 DEF Passed, Settled
<1>8. CASE CheckStop \/ Complete \/ Dispatch \/ ForeignDispatch \/ RunCompletes
  BY <1>3, <1>8 DEF CheckStop, Complete, Dispatch, ForeignDispatch, RunCompletes, Return, state
<1>9. CASE BeginStep \/ MarkWaiting
  BY <1>4, <1>9 DEF BeginStep, MarkWaiting, StepStatus
<1>10. CASE DispatchFails \/ GetLatestRunFails \/ PollFails \/ WaitStopped
  BY <1>5, <1>10 DEF DispatchFails, GetLatestRunFails, PollFails, WaitStopped
<1>11. CASE RecordUnawaited
  BY <1>6, <1>11 DEF RecordUnawaited
<1>12. CASE PollCompleted
  <2>1. runs[runID].conclusion \in {"success", "failure"}
    <3>1. runID \in DOMAIN runs /\ runs \in Seq(WorkflowRun)
      BY <1>1, <1>12 DEF PollCompleted, Control, HasRun, GitHubType, TypeInv, TypeOK
    <3>2. runs[runID] \in WorkflowRun
      BY <3>1, LenProperties, ElementOfSeq
    <3> QED BY <1>12, <3>2 DEF PollCompleted, WorkflowRun
  <2> QED BY <1>6, <1>12, <2>1 DEF PollCompleted
<1>13. ASSUME NEW r \in DOMAIN runs, GetLatestRun(r) PROVE UNCHANGED <<stepStatuses, idx>>
  BY <1>13 DEF GetLatestRun, state
<1>14. CASE Start \/ Stop \/ Receive \/ ReceiveClosed
  BY <1>3, <1>14 DEF Start, Stop, Receive, ReceiveClosed, state
<1>15. CASE UNCHANGED vars
  BY <1>3, <1>15 DEF vars, state
<1> QED BY <1>3, <1>7, <1>8, <1>9, <1>10, <1>11, <1>12, <1>13, <1>14, <1>15 DEF Next, RunChain

(* The loop passes a step only in an acceptable state.                      *)
LEMMA PastPassedNext ==
  ASSUME TypeInv, PastPassed, [Next]_vars
  PROVE  PastPassed'
<1>1. chain' = chain /\ Steps' = Steps /\ (idx' = idx \/ idx' = idx + 1)
  BY Flow DEF Steps
<1>2. idx \in Nat /\ Steps \subseteq Nat
  BY DEF Steps, TypeInv, TypeOK, GoroutineType
<1>3. SUFFICES ASSUME NEW j \in Steps, j < idx'
               PROVE  Passed(j)' /\ ~(chain[j].onFailure = "abort" /\ stepStatuses'[j] = "failed")
  BY <1>1 DEF PastPassed
<1>4. CASE j < idx
  <2>1. j # idx
    BY <1>2, <1>4
  <2>2. stepStatuses'[j] = stepStatuses[j]
    BY <2>1, StatusStep
  <2> QED BY <1>1, <1>4, <2>2 DEF PastPassed, Passed
<1>5. CASE j = idx /\ idx' # idx
  BY <1>5, StatusStep
<1> QED BY <1>1, <1>2, <1>3, <1>4, <1>5

(* A dispatch after Stop is the last one.                                   *)
LEMMA LateOnceNext ==
  ASSUME TypeInv, LateOnce, [Next]_vars
  PROVE  LateOnce'
<1>1. runs \in Seq(WorkflowRun) /\ stopCh \in BOOLEAN /\ idx \in Nat
  BY DEF TypeInv, TypeOK, GitHubType, ChannelType, GoroutineType
<1>2. stopCh => stopCh'
  BY Flow
<1>3. pc' \in {"new", "begin", "dispatch"} /\ pc \notin {"new", "begin", "dispatch"} => ~stopCh
  BY Flow
<1>4. CASE /\ DOMAIN runs' = DOMAIN runs
           /\ \A r \in DOMAIN runs : runs'[r].late = runs[r].late
  BY <1>2, <1>3, <1>4 DEF LateOnce, AtMostOneLateDispatch
<1>5. CASE /\ pc = "dispatch" /\ runs' = NewRun(idx) /\ pc' \in {"getRun", "closed", "loop"}
  <2>1. /\ DOMAIN runs = 1..Len(runs)
        /\ DOMAIN runs' = 1..(Len(runs) + 1)
        /\ Len(runs) \in Nat
        /\ \A r \in DOMAIN runs : runs'[r] = runs[r]
        /\ runs'[Len(runs) + 1].late => stopCh
    BY <1>1, <1>5, NewRunType
  <2>2. \A r \in DOMAIN runs' : r \in DOMAIN runs \/ r = Len(runs) + 1
    BY <2>1
  <2>3. \A r \in DOMAIN runs : ~runs[r].late
    BY <1>5 DEF LateOnce
  <2> QED BY <1>2, <1>5, <2>1, <2>2, <2>3 DEF LateOnce, AtMostOneLateDispatch
<1>6. CASE pc = "getRun" /\ runs' = NewRun(0) /\ UNCHANGED <<pc, idx>>
  <2>1. /\ DOMAIN runs = 1..Len(runs)
        /\ DOMAIN runs' = 1..(Len(runs) + 1)
        /\ Len(runs) \in Nat
        /\ \A r \in DOMAIN runs : runs'[r] = runs[r]
        /\ ~runs'[Len(runs) + 1].late
    BY <1>1, <1>6, NewRunType
  <2>2. \A r \in DOMAIN runs' : r \in DOMAIN runs \/ r = Len(runs) + 1
    BY <2>1
  <2> QED BY <1>2, <1>6, <2>1, <2>2 DEF LateOnce, AtMostOneLateDispatch
<1> QED BY <1>4, <1>5, <1>6, RunsStep

-----------------------------------------------------------------------------
(* The inductive invariant behind the safety properties.                    *)
SafeInv == TypeInv /\ DispatchedUpTo /\ OncePerStep /\ PastPassed /\ LateOnce

LEMMA SafeInit == Init => SafeInv
<1> SUFFICES ASSUME Init PROVE SafeInv
  OBVIOUS
<1>1. TypeInv
  BY TypeInit
<1>2. runs = <<>> /\ idx = 1
  BY DEF Init, NewExecutor, NewExecutorFromHistory, InitRest
<1>3. DOMAIN runs = {}
  BY <1>2
<1>4. \A j \in Steps : ~(j < idx)
  BY <1>2 DEF Steps
<1> QED BY <1>1, <1>3, <1>4
        DEF SafeInv, DispatchedUpTo, OncePerStep, PastPassed, LateOnce, AtMostOneLateDispatch

LEMMA SafeNext == SafeInv /\ [Next]_vars => SafeInv'
<1> SUFFICES ASSUME SafeInv, [Next]_vars PROVE SafeInv'
  OBVIOUS
<1>1. TypeInv /\ DispatchedUpTo /\ OncePerStep /\ PastPassed /\ LateOnce
  BY DEF SafeInv
<1> QED BY <1>1, TypeNext, DispatchedUpToNext, PastPassedNext, LateOnceNext DEF SafeInv

LEMMA SafeAlways == Spec => []SafeInv
  BY SafeInit, SafeNext, PTL DEF Spec

(* No workflow is dispatched before every earlier step has its outcome, and *)
(* none twice, for every chain.                                             *)
THEOREM DispatchesInSequence == Spec => []SequentialDispatch
<1>1. SafeInv => SequentialDispatch
  <2> SUFFICES ASSUME SafeInv PROVE SequentialDispatch
    OBVIOUS
  <2>1. TypeInv /\ DispatchedUpTo /\ OncePerStep /\ PastPassed
    BY DEF SafeInv
  <2>2. ASSUME NEW r \in DOMAIN runs, NEW j \in Steps, j < runs[r].by PROVE Passed(j)
    <3>1. runs[r].by \in Nat /\ idx \in Nat /\ j \in Nat /\ runs[r].by <= idx
      BY <2>1, StepNumbers DEF DispatchedUpTo
    <3>2. j < idx
      BY <2>2, <3>1
    <3> QED BY <2>1, <3>2 DEF PastPassed
  <2> QED BY <2>1, <2>2 DEF SequentialDispatch, OncePerStep
<1> QED BY <1>1, SafeAlways, PTL

(* After a failure under on_failure: abort no later step is dispatched.     *)
THEOREM AbortEndsDispatch == Spec => []AbortIsFinal
<1>1. SafeInv => AbortIsFinal
  <2> SUFFICES ASSUME SafeInv,
                      NEW j \in Steps, chain[j].onFailure = "abort", stepStatuses[j] = "failed",
                      j < idx \/ pc \in {"failed", "closed"},
                      NEW r \in DOMAIN runs
               PROVE  runs[r].by <= j
    BY DEF AbortIsFinal
  <2>1. TypeInv /\ DispatchedUpTo /\ PastPassed
    BY DEF SafeInv
  <2>2. runs[r].by \in Nat /\ idx \in Nat /\ j \in Nat /\ runs[r].by <= idx
    BY <2>1, StepNumbers DEF DispatchedUpTo
  <2>3. ~(j < idx)
    BY <2>1 DEF PastPassed
  <2> QED BY <2>2, <2>3
<1> QED BY <1>1, SafeAlways, PTL

(* A completed chain has passed every step, none of which aborts it.        *)
THEOREM CompletionIsSound == Spec => []CompletedMeansAllPassed
<1>1. SafeInv => CompletedMeansAllPassed
  <2> SUFFICES ASSUME SafeInv, status = "completed", NEW j \in Steps
               PROVE  Passed(j) /\ ~(chain[j].onFailure = "abort" /\ stepStatuses[j] = "failed")
    BY DEF CompletedMeansAllPassed
  <2>1. PastPassed /\ idx \notin Steps /\ idx \in 1..Len(chain) + 1 /\ chain \in Seq(Step)
    BY DEF SafeInv, TypeInv, Control, TypeOK, GoroutineType, StateType
  <2>2. j < idx
    BY <2>1, LenProperties DEF Steps
  <2> QED BY <2>1, <2>2 DEF PastPassed
<1> QED BY <1>1, SafeAlways, PTL

(* Whenever Stop comes, at most one workflow is dispatched after it.        *)
THEOREM StopIsEffective == Spec => []AtMostOneLateDispatch
<1>1. SafeInv => AtMostOneLateDispatch
  BY DEF SafeInv, LateOnce
<1> QED BY <1>1, SafeAlways, PTL

-----------------------------------------------------------------------------
(* Only the result of the step at the loop variable is ever stored.         *)
LEMMA ResultStep ==
  ASSUME TypeInv, [Next]_vars, NEW j \in DOMAIN stepResults, j # idx
  PROVE  j \in DOMAIN stepResults' /\ stepResults'[j] = stepResults[j]
<1>1. ASSUME NEW s, NEW c, RecordResult(s, c)
      PROVE  j \in DOMAIN stepResults' /\ stepResults'[j] = stepResults[j]
  BY <1>1 DEF RecordResult
<1>2. CASE RecordUnawaited \/ PollCompleted
  BY <1>1, <1>2 DEF RecordUnawaited, PollCompleted
<1>3. CASE DispatchFails \/ GetLatestRunFails \/ PollFails \/ WaitStopped
  BY <1>3 DEF DispatchFails, GetLatestRunFails, PollFails, WaitStopped, HandleStepError
<1>4. CASE CheckStop \/ BeginStep \/ Complete \/ Dispatch \/ MarkWaiting \/ HandleStepFailure
  BY <1>4 DEF CheckStop, BeginStep, Complete, Dispatch, MarkWaiting, HandleStepFailure, state
<1>5. ASSUME NEW r \in DOMAIN runs, GetLatestRun(r) PROVE UNCHANGED stepResults
  BY <1>5 DEF GetLatestRun, state
<1>6. CASE Start \/ Stop \/ Receive \/ ReceiveClosed \/ RunCompletes \/ ForeignDispatch
  BY <1>6 DEF Start, Stop, Receive, ReceiveClosed, RunCompletes, ForeignDispatch, state
<1>7. CASE UNCHANGED vars
  BY <1>7 DEF vars, state
<1> QED BY <1>2, <1>3, <1>4, <1>5, <1>6, <1>7 DEF Next, RunChain

(* After runChain has returned the status no longer changes.                *)
LEMMA VerdictStep ==
  ASSUME TypeInv, [Next]_vars, pc = "closed"
  PROVE  UNCHANGED status
<1>1. CASE RunChain
  BY <1>1 DEF RunChain, CheckStop, BeginStep, Complete, Dispatch, DispatchFails, GetLatestRunFails,
              GetLatestRun, MarkWaiting, RecordUnawaited, PollCompleted, PollFails, WaitStopped,
              HandleStepFailure
<1>2. CASE Start \/ Stop \/ Receive \/ ReceiveClosed \/ RunCompletes \/ ForeignDispatch
  BY <1>2 DEF Start, Stop, Receive, ReceiveClosed, RunCompletes, ForeignDispatch, state
<1>3. CASE UNCHANGED vars
  BY <1>3 DEF vars, state
<1> QED BY <1>1, <1>2, <1>3 DEF Next

(* The outcomes of steps the loop has passed, and the outcome of the chain, *)
(* are never revised.                                                       *)
THEOREM OutcomesNeverRevised == Spec => OutcomesAreFinal
<1>1. ASSUME TypeInv, [Next]_vars
      PROVE  [/\ \A j \in Steps : j < idx => stepStatuses'[j] = stepStatuses[j]
              /\ \A j \in DOMAIN stepResults : j < idx =>
                   j \in DOMAIN stepResults' /\ stepResults'[j] = stepResults[j]
              /\ status \in {"completed", "failed"} => status' = status]_vars
  <2>1. idx \in Nat /\ Steps \subseteq Nat /\ DOMAIN stepResults \subseteq Steps
    BY <1>1, StepNumbers DEF TypeInv, TypeOK, StateType
  <2>2. \A j \in Steps : j < idx => j # idx
    BY <2>1
  <2>3. \A j \in Steps : j < idx => stepStatuses'[j] = stepStatuses[j]
    BY <1>1, <2>2, StatusStep
  <2>4. \A j \in DOMAIN stepResults : j < idx =>
          j \in DOMAIN stepResults' /\ stepResults'[j] = stepResults[j]
    BY <1>1, <2>1, <2>2, ResultStep
  <2>5. status \in {"completed", "failed"} => status' = status
    BY <1>1, VerdictStep DEF TypeInv, Control
  <2> QED BY <2>3, <2>4, <2>5
<1> QED BY <1>1, TypeInit, TypeNext, PTL DEF Spec, OutcomesAreFinal

-----------------------------------------------------------------------------
(* What a run concluded with stays, and so does what the watcher was told.  *)
LEMMA ConclusionsStay ==
  ASSUME TypeInv, [Next]_vars
  PROVE  /\ watched \subseteq watched'
         /\ DOMAIN runs \subseteq DOMAIN runs'
         /\ \A r \in DOMAIN runs :
              runs[r].conclusion # "" => runs'[r].conclusion = runs[r].conclusion
<1>1. runs \in Seq(WorkflowRun) /\ stopCh \in BOOLEAN /\ idx \in Nat
  BY DEF TypeInv, TypeOK, GitHubType, ChannelType, GoroutineType
<1>2. ASSUME NEW by \in Nat, runs' = NewRun(by)
      PROVE  \A r \in DOMAIN runs : r \in DOMAIN runs' /\ runs'[r] = runs[r]
  BY <1>1, <1>2, NewRunType
<1>3. CASE UNCHANGED <<watched, runs>>
  BY <1>3
<1>4. CASE CheckStop \/ BeginStep \/ Complete \/ MarkWaiting \/ HandleStepFailure
  BY <1>3, <1>4 DEF CheckStop, BeginStep, Complete, MarkWaiting, HandleStepFailure
<1>5. CASE Dispatch \/ DispatchFails
  BY <1>1, <1>2, <1>3, <1>5 DEF Dispatch, DispatchFails
<1>6. CASE GetLatestRunFails \/ PollFails \/ WaitStopped \/ RecordUnawaited \/ PollCompleted
  BY <1>3, <1>6 DEF GetLatestRunFails, PollFails, WaitStopped, RecordUnawaited, PollCompleted,
                    RecordResult
<1>7. ASSUME NEW r \in DOMAIN runs, GetLatestRun(r) PROVE watched \subseteq watched' /\ UNCHANGED runs
  BY <1>7 DEF GetLatestRun
<1>8. CASE Start \/ Stop \/ Receive \/ ReceiveClosed
  BY <1>3, <1>8 DEF Start, Stop, Receive, ReceiveClosed
<1>9. CASE RunCompletes
  <2>1. PICK c \in {"success", "failure"} : runs' = [runs EXCEPT ![runID].conclusion = c]
    BY <1>9 DEF RunCompletes
  <2>2. runs[runID].conclusion = "" /\ UNCHANGED watched
    BY <1>9 DEF RunCompletes
  <2>3. \A r \in DOMAIN runs : r \in DOMAIN runs' /\ (r # runID => runs'[r] = runs[r])
    BY <2>1
  <2> QED BY <2>2, <2>3
<1>10. CASE ForeignDispatch
  BY <1>1, <1>2, <1>10 DEF ForeignDispatch
<1>11. CASE UNCHANGED vars
  BY <1>3, <1>11 DEF vars
<1> QED BY <1>4, <1>5, <1>6, <1>7, <1>8, <1>9, <1>10, <1>11 DEF Next, RunChain

(* A result that is stored anew is that of the step at the loop variable.   *)
LEMMA ResultAdded ==
  ASSUME TypeInv, [Next]_vars
  PROVE  \/ UNCHANGED <<chain, stepResults>>
         \/ RecordUnawaited
         \/ PollCompleted
<1>1. CASE DispatchFails \/ GetLatestRunFails \/ PollFails \/ WaitStopped
  BY <1>1 DEF DispatchFails, GetLatestRunFails, PollFails, WaitStopped, HandleStepError
<1>2. CASE CheckStop \/ BeginStep \/ Complete \/ Dispatch \/ MarkWaiting \/ HandleStepFailure
  BY <1>2 DEF CheckStop, BeginStep, Complete, Dispatch, MarkWaiting, HandleStepFailure, state
<1>3. ASSUME NEW r \in DOMAIN runs, GetLatestRun(r) PROVE UNCHANGED <<chain, stepResults>>
  BY <1>3 DEF GetLatestRun, state
<1>4. CASE Start \/ Stop \/ Receive \/ ReceiveClosed \/ RunCompletes \/ ForeignDispatch
  BY <1>4 DEF Start, Stop, Receive, ReceiveClosed, RunCompletes, ForeignDispatch, state
<1>5. CASE UNCHANGED vars
  BY <1>5 DEF vars, state
<1> QED BY <1>1, <1>2, <1>3, <1>4, <1>5 DEF Next, RunChain

(* What ResultsAreOutcomes says of one result.                              *)
IsOutcome(result, waitFor, told, list) ==
  result.run # 0 =>
    /\ result.run \in told
    /\ waitFor # "none" => result.conclusion = list[result.run].conclusion
    /\ waitFor # "none" => result.conclusion # ""
    /\ waitFor = "success" => (result.status = "completed" <=> result.conclusion = "success")

LEMMA OutcomeStays ==
  ASSUME TypeInv, [Next]_vars, NEW result, NEW waitFor,
         IsOutcome(result, waitFor, watched, runs)
  PROVE  IsOutcome(result, waitFor, watched', runs')
<1>1. watched \subseteq DOMAIN runs
  BY DEF TypeInv, TypeOK, GitHubType
<1>2. CASE result.run = 0
  BY <1>2 DEF IsOutcome
<1>3. CASE result.run # 0
  <2>1. result.run \in watched' /\ result.run \in DOMAIN runs
    BY <1>1, <1>3, ConclusionsStay DEF IsOutcome
  <2>2. runs[result.run].conclusion # "" =>
          runs'[result.run].conclusion = runs[result.run].conclusion
    BY <2>1, ConclusionsStay
  <2>3. ASSUME waitFor # "none"
        PROVE  result.conclusion = runs'[result.run].conclusion /\ result.conclusion # ""
    <3>1. result.conclusion = runs[result.run].conclusion /\ result.conclusion # ""
      BY <1>3, <2>3 DEF IsOutcome
    <3> QED BY <2>2, <3>1
  <2>4. waitFor = "success" => (result.status = "completed" <=> result.conclusion = "success")
    BY <1>3 DEF IsOutcome
  <2> QED BY <2>1, <2>3, <2>4 DEF IsOutcome
<1> QED BY <1>2, <1>3

LEMMA ResultsNext ==
  ASSUME TypeInv, ResultsAreOutcomes, [Next]_vars
  PROVE  ResultsAreOutcomes'
<1>1. \A i \in DOMAIN stepResults : IsOutcome(stepResults[i], chain[i].waitFor, watched, runs)
  BY DEF ResultsAreOutcomes, IsOutcome
<1>2. SUFFICES \A i \in DOMAIN stepResults' : IsOutcome(stepResults'[i], chain'[i].waitFor, watched', runs')
  BY DEF ResultsAreOutcomes, IsOutcome
<1>3. CASE UNCHANGED <<chain, stepResults>>
  BY <1>1, <1>3, OutcomeStays
<1>4. ASSUME NEW s \in {"completed", "failed"}, NEW c \in {"", "success", "failure"},
             RecordResult(s, c),
             IsOutcome([run |-> runID, status |-> s, conclusion |-> c], chain[idx].waitFor, watched, runs)
      PROVE  \A i \in DOMAIN stepResults' : IsOutcome(stepResults'[i], chain'[i].waitFor, watched', runs')
  <2> DEFINE result == [run |-> runID, status |-> s, conclusion |-> c]
  <2>1. /\ DOMAIN stepResults' = DOMAIN stepResults \cup {idx}
        /\ stepResults'[idx] = result
        /\ \A i \in DOMAIN stepResults : i # idx => stepResults'[i] = stepResults[i]
        /\ chain' = chain
    BY <1>4 DEF RecordResult
  <2>2. IsOutcome(result, chain[idx].waitFor, watched, runs)
    BY <1>4
  <2> HIDE DEF result
  <2> TAKE i \in DOMAIN stepResults'
  <2>3. CASE i = idx
    BY <2>1, <2>2, <2>3, OutcomeStays
  <2>4. CASE i # idx
    BY <1>1, <2>1, <2>4, OutcomeStays
  <2> QED BY <2>3, <2>4
<1>5. CASE RecordUnawaited
  <2>1. runID \in watched /\ chain[idx].waitFor = "none"
    BY <1>5 DEF RecordUnawaited, TypeInv, Control, HasRun
  <2>2. IsOutcome([run |-> runID, status |-> "completed", conclusion |-> ""], chain[idx].waitFor, watched, runs)
    BY <2>1 DEF IsOutcome
  <2> QED BY <1>4, <1>5, <2>2 DEF RecordUnawaited
<1>6. CASE PollCompleted
  <2> DEFINE c == runs[runID].conclusion
             s == IF c # "success" /\ chain[idx].waitFor = "success" THEN "failed" ELSE "completed"
  <2>1. runID \in watched /\ runID \in DOMAIN runs /\ runs \in Seq(WorkflowRun)
    BY <1>6 DEF PollCompleted, TypeInv, TypeOK, GitHubType, Control, HasRun
  <2>2. runs[runID] \in WorkflowRun
    BY <2>1, LenProperties, ElementOfSeq
  <2>3. c \in {"", "success", "failure"} /\ c # ""
    BY <1>6, <2>2 DEF PollCompleted, WorkflowRun
  <2>4. IsOutcome([run |-> runID, status |-> s, conclusion |-> c], chain[idx].waitFor, watched, runs)
    BY <2>1, <2>3 DEF IsOutcome
  <2>5. RecordResult(s, c)
    BY <1>6 DEF PollCompleted
  <2> QED BY <1>4, <2>3, <2>4, <2>5
<1> QED BY <1>3, <1>5, <1>6, ResultAdded

(* A result is the outcome of the run the step followed, for every policy,  *)
(* history and choice of GetLatestRun.                                      *)
THEOREM ResultsFollowRuns == Spec => []ResultsAreOutcomes
<1>1. Init => ResultsAreOutcomes
  <2> SUFFICES ASSUME Init PROVE \A i \in DOMAIN stepResults : stepResults[i].run = 0
    BY DEF ResultsAreOutcomes
  <2>1. CASE NewExecutor
    BY <2>1 DEF NewExecutor
  <2>2. CASE NewExecutorFromHistory
    BY <2>2 DEF NewExecutorFromHistory
  <2> QED BY <2>1, <2>2 DEF Init
<1>2. Spec => []TypeInv
  BY TypeInit, TypeNext, PTL DEF Spec
<1> QED BY <1>1, <1>2, ResultsNext, PTL DEF Spec

-----------------------------------------------------------------------------
(* How many updates a step has made when it is there.                       *)
UpdatesOf(at) ==
  IF at \in {"dispatch", "getRun", "watched"} THEN 1
  ELSE IF at \in {"record", "wait"} THEN 2
  ELSE IF at = "failed" THEN 3
  ELSE 0

(* The steps so far have sent no more than fits.                            *)
FewUpdates == pc \notin {"closed"} => Len(updates) <= 3 * (idx - 1) + UpdatesOf(pc)

Channel ==
  /\ updates \in Seq(ChainUpdate) /\ Len(updates) \in Nat
  /\ idx \in Nat /\ idx >= 1

LEMMA ChannelOfType == TypeInv => Channel
  BY LenProperties DEF TypeInv, TypeOK, ChannelType, GoroutineType, Channel

LEMMA SendUpdateAdds ==
  ASSUME Channel, NEW u, SendUpdate(u)
  PROVE  Len(updates') \in Nat /\ Len(updates') <= Len(updates) + 1
<1>1. Len(Append(updates, u)) = Len(updates) + 1
  BY DEF Channel
<1> QED BY <1>1 DEF SendUpdate, Channel

LEMMA FewUpdatesNext ==
  ASSUME TypeInv, FewUpdates, [Next]_vars
  PROVE  FewUpdates'
<1>1. Channel
  BY ChannelOfType
<1> USE DEF FewUpdates, UpdatesOf
<1>2. CASE UNCHANGED <<pc, idx, updates>>
  BY <1>2
<1>3. CASE CheckStop
  BY <1>3 DEF CheckStop
<1>4. CASE BeginStep \/ MarkWaiting
  <2>1. CASE BeginStep
    BY <1>1, <2>1, SendUpdateAdds DEF BeginStep, Channel
  <2>2. CASE MarkWaiting
    BY <1>1, <2>2, SendUpdateAdds DEF MarkWaiting, Channel
  <2> QED BY <1>4, <2>1, <2>2
<1>5. CASE Complete
  BY <1>5 DEF Complete, Return
<1>6. CASE Dispatch
  BY <1>6 DEF Dispatch
<1>7. ASSUME NEW err, HandleStepError(err), pc \in InBody
      PROVE  FewUpdates'
  <2>1. UNCHANGED updates /\ (pc' = "closed" \/ (pc' = "loop" /\ idx' = idx + 1))
    BY <1>7 DEF HandleStepError, NextStep, Return
  <2> QED BY <1>1, <1>7, <2>1 DEF Channel, InBody
<1>8. CASE DispatchFails \/ GetLatestRunFails \/ PollFails \/ WaitStopped
  BY <1>7, <1>8 DEF DispatchFails, GetLatestRunFails, PollFails, WaitStopped, InBody
<1>9. ASSUME NEW r \in DOMAIN runs, GetLatestRun(r)
      PROVE  FewUpdates'
  BY <1>9 DEF GetLatestRun
<1>10. ASSUME NEW s, NEW c, RecordResult(s, c), pc \in {"record", "wait"}
       PROVE  FewUpdates'
  <2>1. \/ pc' = "failed" /\ idx' = idx
        \/ pc' = "loop" /\ idx' = idx + 1
    BY <1>10 DEF RecordResult, NextStep
  <2>2. Len(updates') <= Len(updates) + 1
    BY <1>1, <1>10, SendUpdateAdds DEF RecordResult
  <2> QED BY <1>1, <1>10, <2>1, <2>2 DEF Channel
<1>11. CASE RecordUnawaited \/ PollCompleted
  BY <1>10, <1>11 DEF RecordUnawaited, PollCompleted
<1>12. CASE HandleStepFailure
  <2>1. UNCHANGED updates /\ pc = "failed" /\ (pc' = "closed" \/ (pc' = "loop" /\ idx' = idx + 1))
    BY <1>12 DEF HandleStepFailure, NextStep, Return
  <2> QED BY <1>1, <2>1 DEF Channel
<1>13. CASE Start
  BY <1>13 DEF Start
<1>14. CASE Stop \/ ReceiveClosed \/ RunCompletes \/ ForeignDispatch
  BY <1>2, <1>14 DEF Stop, ReceiveClosed, RunCompletes, ForeignDispatch
<1>15. CASE Receive
  <2>1. Len(updates') <= Len(updates)
    BY <1>1, <1>15 DEF Receive, Channel
  <2> QED BY <1>1, <1>15, <2>1 DEF Receive, Channel
<1>16. CASE UNCHANGED vars
  BY <1>2, <1>16 DEF vars
<1> QED BY <1>3, <1>4, <1>5, <1>6, <1>8, <1>9, <1>11, <1>12, <1>13, <1>14, <1>15, <1>16
        DEF Next, RunChain

LEMMA AnnouncedNext ==
  ASSUME TypeInv, FewUpdates, CompletionAnnounced, [Next]_vars
  PROVE  CompletionAnnounced'
<1>1. Channel /\ chain \in Seq(Step) /\ idx \in 1..Len(chain) + 1
  BY ChannelOfType DEF TypeInv, TypeOK, StateType, GoroutineType
<1>2. chain' = chain /\ (stopCh => stopCh')
  BY Flow
<1>3. SUFFICES ASSUME status' = "completed", ~stopCh', 3 * Len(chain) + 1 <= UpdateCap
               PROVE  IF updates' = <<>> THEN seen'.status = "completed"
                                         ELSE updates'[Len(updates')].status = "completed"
  BY <1>2 DEF CompletionAnnounced
<1>4. CASE Complete
  <2>1. pc = "loop" /\ idx \notin Steps /\ Len(chain) \in Nat
    BY <1>1, <1>4, LenProperties DEF Complete
  <2>2. idx = Len(chain) + 1
    BY <1>1, <2>1 DEF Steps
  <2>3. Len(updates) < UpdateCap
    BY <1>1, <1>3, <2>1, <2>2, BoundsAssumption DEF FewUpdates, UpdatesOf, Channel
  <2> DEFINE u == [status |-> "completed", step |-> currentStep]
  <2>4. u.status = "completed"
    OBVIOUS
  <2>5. SendUpdate(u) /\ ~stopCh
    BY <1>2, <1>3, <1>4 DEF Complete
  <2> HIDE DEF u
  <2>6. updates' = Append(updates, u)
    BY <1>1, <2>3, <2>5, BoundsAssumption DEF SendUpdate, Channel
  <2>7. updates' # <<>> /\ updates'[Len(updates')] = u
    BY <1>1, <2>6 DEF Channel
  <2> QED BY <2>4, <2>7
<1>5. CASE status = "completed" /\ UNCHANGED <<updates, seen>>
  BY <1>2, <1>3, <1>5 DEF CompletionAnnounced
<1>6. CASE status = "completed" /\ Receive
  <2>1. updates # <<>> /\ updates[Len(updates)].status = "completed"
    BY <1>2, <1>3, <1>6 DEF CompletionAnnounced, Receive
  <2>2. seen' = Head(updates) /\ updates' = Tail(updates)
    BY <1>6 DEF Receive
  <2>3. CASE Len(updates) = 1
    <3>1. updates' = <<>> /\ seen' = updates[Len(updates)]
      BY <1>1, <2>1, <2>2, <2>3 DEF Channel
    <3> QED BY <2>1, <3>1
  <2>4. CASE Len(updates) # 1
    <3>1. /\ updates' # <<>> /\ Len(updates') = Len(updates) - 1
          /\ updates'[Len(updates')] = updates[Len(updates)]
      <4>1. /\ Len(Tail(updates)) = Len(updates) - 1
            /\ \A i \in 1..Len(updates) - 1 : Tail(updates)[i] = updates[i + 1]
        BY <1>1, <2>1, HeadTailProperties DEF Channel
      <4>2. Len(updates) \in Nat /\ Len(updates) > 1
        <5>1. Len(updates) \in Nat \ {0}
          BY <1>1, <2>1, EmptySeq DEF Channel
        <5>2. \A n \in Nat \ {0} : n # 1 => n \in Nat /\ n > 1
          OBVIOUS
        <5> QED BY <2>4, <5>1, <5>2, Zenon
      <4>3. Len(updates') = Len(updates) - 1
        BY <2>2, <4>1
      <4>4. updates' # <<>>
        BY <4>2, <4>3
      <4>5. updates'[Len(updates) - 1] = updates[(Len(updates) - 1) + 1]
        BY <2>2, <4>1, <4>2
      <4> QED BY <4>2, <4>3, <4>4, <4>5
    <3> QED BY <2>1, <3>1
  <2> QED BY <2>3, <2>4
<1>7. CASE status # "completed"
  <2>1. Complete
    <3>1. ASSUME NEW err, HandleStepError(err)
          PROVE  status' # "completed"
      BY <1>7, <3>1 DEF HandleStepError
    <3> QED
      BY <1>3, <1>7, <3>1 DEF Next, RunChain, CheckStop, BeginStep, Dispatch, DispatchFails,
         GetLatestRunFails, GetLatestRun, MarkWaiting, RecordUnawaited, RecordResult, PollCompleted,
         PollFails, WaitStopped, HandleStepFailure, Start, Stop, Receive, ReceiveClosed,
         RunCompletes, ForeignDispatch, state, vars
  <2> QED BY <1>4, <2>1
<1>8. CASE status = "completed"
  <2>1. pc = "closed"
    BY <1>8 DEF TypeInv, Control
  <2>2. UNCHANGED <<updates, seen>> \/ Receive
    <3>1. CASE RunChain
      BY <2>1, <3>1 DEF RunChain, CheckStop, BeginStep, Complete, Dispatch, DispatchFails,
         GetLatestRunFails, GetLatestRun, MarkWaiting, RecordUnawaited, PollCompleted, PollFails,
         WaitStopped, HandleStepFailure
    <3>2. CASE Start \/ Stop \/ ReceiveClosed \/ RunCompletes \/ ForeignDispatch
      BY <3>2 DEF Start, Stop, ReceiveClosed, RunCompletes, ForeignDispatch, caller
    <3>3. CASE UNCHANGED vars
      BY <3>3 DEF vars, caller
    <3> QED BY <3>1, <3>2, <3>3 DEF Next
  <2> QED BY <1>5, <1>6, <1>8, <2>2
<1> QED BY <1>7, <1>8

(* A completion is found in the channel by whoever comes late, for every    *)
(* chain that fits it.                                                      *)
THEOREM CompletionIsFound == Spec => []CompletionAnnounced
<1>1. Init => FewUpdates /\ CompletionAnnounced
  <2> SUFFICES ASSUME Init PROVE FewUpdates /\ CompletionAnnounced
    OBVIOUS
  <2>1. updates = <<>> /\ pc = "new" /\ idx = 1 /\ status = "pending"
    BY DEF Init, NewExecutor, NewExecutorFromHistory, InitRest
  <2> QED BY <2>1 DEF FewUpdates, UpdatesOf, CompletionAnnounced
<1>2. Spec => []TypeInv
  BY TypeInit, TypeNext, PTL DEF Spec
<1>3. Spec => []FewUpdates
  BY <1>1, <1>2, FewUpdatesNext, PTL DEF Spec
<1> QED BY <1>1, <1>2, <1>3, AnnouncedNext, PTL DEF Spec

-----------------------------------------------------------------------------
(* The refinement of ChainPromise. *)

(* The goroutine has not begun with step idx.                               *)
Idle == {"new", "loop", "begin", "stopped"}

(* The step at the loop variable has no outcome yet.                        *)
AtWork == {"dispatch", "getRun", "watched", "record", "wait"}

(* A verdict is missing as long as the loop runs, and a step that was begun *)
(* is no longer pending.                                                    *)
PromiseInv ==
  /\ pc = "new" => status = "pending"
  /\ pc \notin {"new", "closed"} => status = "running"
  /\ \A i \in Steps : Begun(i) => stepStatuses[i] # "pending"
  /\ pc \in AtWork => stepStatuses[idx] \in {"running", "waiting"}

OutcomeOf(s) == IF s \in {"running", "waiting"} THEN "active" ELSE s

LEMMA Numbers ==
  ASSUME TypeInv
  PROVE  /\ idx \in Nat /\ Steps \subseteq Nat
         /\ pc \in InBody => idx \in Steps
         /\ stepStatuses \in [Steps -> StepStatus]
  BY StepNumbers DEF TypeInv, TypeOK, StateType, Control

(* The steps that were begun stay the same when the loop moves on.          *)
LEMMA BegunSame ==
  ASSUME TypeInv, chain' = chain,
         \/ idx' = idx /\ (pc \in Idle <=> pc' \in Idle)
         \/ idx' = idx + 1 /\ pc \notin Idle /\ pc' = "loop"
         \/ idx' = idx /\ idx \notin Steps
  PROVE  Steps' = Steps /\ \A i \in Steps : Begun(i)' <=> Begun(i)
<1>1. idx \in Nat /\ Steps \subseteq Nat /\ Steps' = Steps
  BY Numbers DEF Steps
<1>2. ASSUME NEW i \in Steps PROVE Begun(i)' <=> Begun(i)
  <2>1. i \in Nat
    BY <1>1
  <2>2. CASE idx' = idx /\ (pc \in Idle <=> pc' \in Idle)
    BY <2>2 DEF Begun, Idle
  <2>3. CASE idx' = idx + 1 /\ pc \notin Idle /\ pc' = "loop"
    BY <1>1, <2>1, <2>3 DEF Begun, Idle
  <2>4. CASE idx' = idx /\ idx \notin Steps
    BY <2>4 DEF Begun
  <2> QED BY <2>2, <2>3, <2>4
<1> QED BY <1>1, <1>2

LEMMA OutcomeSame ==
  ASSUME Steps' = Steps, \A i \in Steps : Begun(i)' <=> Begun(i),
         \A i \in Steps : Begun(i) => OutcomeOf(stepStatuses'[i]) = OutcomeOf(stepStatuses[i])
  PROVE  Outcome' = Outcome
<1>1. ASSUME NEW i \in Steps
      PROVE  (IF ~Begun(i)' THEN "pending" ELSE OutcomeOf(stepStatuses'[i]))
           = (IF ~Begun(i) THEN "pending" ELSE OutcomeOf(stepStatuses[i]))
  BY <1>1
<1> QED BY <1>1 DEF Outcome, OutcomeOf

(* One step gets another outcome. *)
LEMMA OutcomeChanges ==
  ASSUME Steps' = Steps, NEW k \in Steps, Begun(k)',
         \A i \in Steps : i # k =>
           /\ Begun(i)' <=> Begun(i)
           /\ stepStatuses'[i] = stepStatuses[i]
  PROVE  Outcome' = [Outcome EXCEPT ![k] = OutcomeOf(stepStatuses'[k])]
<1>1. ASSUME NEW i \in Steps, i # k
      PROVE  (IF ~Begun(i)' THEN "pending" ELSE OutcomeOf(stepStatuses'[i]))
           = (IF ~Begun(i) THEN "pending" ELSE OutcomeOf(stepStatuses[i]))
  BY <1>1
<1> QED BY <1>1 DEF Outcome, OutcomeOf

LEMMA PromiseStutter ==
  ASSUME Outcome' = Outcome, UNCHANGED <<chain, status, stopCh>>, Ended' <=> Ended
  PROVE  UNCHANGED Promise!vars
<1>1. (~Ended)' = (~Ended)
  OBVIOUS
<1> QED BY <1>1 DEF Promise!vars

LEMMA PromiseInit == Init => Promise!Init /\ PromiseInv
<1> SUFFICES ASSUME Init PROVE Promise!Init /\ PromiseInv
  OBVIOUS
<1>1. pc = "new" /\ idx = 1 /\ status = "pending"
  BY DEF Init, NewExecutor, NewExecutorFromHistory, InitRest
<1>2. \A i \in Steps : ~Begun(i)
  BY <1>1 DEF Begun, Steps
<1>3. Outcome = [i \in Steps |-> "pending"]
  BY <1>2 DEF Outcome
<1>4. Steps = DOMAIN chain
  BY <1>1, TypeInit, LenProperties DEF Steps, TypeInv, TypeOK, StateType
<1>5. ~Ended = TRUE
  BY <1>1 DEF Ended
<1>6. Promise!Init
  BY <1>1, <1>3, <1>4, <1>5 DEF Promise!Init, Promise!Steps
<1> QED BY <1>1, <1>2, <1>6 DEF PromiseInv, AtWork

(* What the promise sees of the executor's state. *)
LEMMA PromiseView ==
  ASSUME TypeInv, PromiseInv
  PROVE  /\ Promise!Steps = Steps
         /\ \A i \in Steps : Outcome[i] = IF Begun(i) THEN OutcomeOf(stepStatuses[i]) ELSE "pending"
         /\ \A i \in Steps : Begun(i) => stepStatuses[i] \in StepStatus \ {"pending"}
         /\ pc \in AtWork \cup {"failed"} => idx \in Steps /\ Begun(idx)
         /\ pc \in AtWork => Outcome[idx] = "active"
         /\ pc \notin {"new", "closed"} => status = "running"
<1>1. chain \in Seq(Step)
  BY DEF TypeInv, TypeOK, StateType
<1>2. Promise!Steps = Steps
  BY <1>1, LenProperties DEF Promise!Steps, Steps
<1>3. \A i \in Steps : Outcome[i] = IF Begun(i) THEN OutcomeOf(stepStatuses[i]) ELSE "pending"
  BY DEF Outcome, OutcomeOf
<1>4. \A i \in Steps : Begun(i) => stepStatuses[i] \in StepStatus \ {"pending"}
  BY Numbers DEF PromiseInv
<1>5. pc \in AtWork \cup {"failed"} => idx \in Steps /\ Begun(idx)
  BY Numbers DEF AtWork, InBody, Begun
<1>6. pc \in AtWork => Outcome[idx] = "active"
  BY <1>3, <1>5 DEF PromiseInv, OutcomeOf
<1> QED BY <1>2, <1>3, <1>4, <1>5, <1>6 DEF PromiseInv

LEMMA PromiseInvKept ==
  ASSUME PromiseInv, Steps' = Steps,
         \A i \in Steps :
           \/ stepStatuses'[i] # "pending"
           \/ stepStatuses'[i] = stepStatuses[i] /\ (Begun(i)' => Begun(i)),
         pc' = "new" => status' = "pending",
         pc' \notin {"new", "closed"} => status' = "running",
         pc' \in AtWork => stepStatuses'[idx'] \in {"running", "waiting"}
  PROVE  PromiseInv'
<1>1. \A i \in Steps' : Begun(i)' => stepStatuses'[i] # "pending"
  BY DEF PromiseInv
<1> QED BY <1>1 DEF PromiseInv, AtWork

(* What the loop has passed does not hold up the promise, either.           *)
LEMMA PassedIsPassed ==
  ASSUME TypeInv, PromiseInv, PastPassed, NEW j \in Steps, j < idx
  PROVE  Promise!Passed(j) /\ ~Promise!Aborts(j)
<1>1. Begun(j)
  BY DEF Begun
<1>2. Outcome[j] = OutcomeOf(stepStatuses[j]) /\ stepStatuses[j] \in StepStatus \ {"pending"}
  BY <1>1, PromiseView
<1>3. Passed(j) /\ ~(chain[j].onFailure = "abort" /\ stepStatuses[j] = "failed")
  BY DEF PastPassed
<1>4. CASE stepStatuses[j] \in {"running", "waiting"}
  BY <1>2, <1>3, <1>4 DEF OutcomeOf, Passed, Settled, Promise!Passed, Promise!Aborts
<1>5. CASE stepStatuses[j] \in Settled
  BY <1>2, <1>3, <1>5 DEF OutcomeOf, Settled, Promise!Passed, Promise!Aborts, Promise!Final
<1> QED BY <1>2, <1>4, <1>5 DEF StepStatus

LEMMA BeginPromised ==
  ASSUME TypeInv, PromiseInv, PastPassed, BeginStep
  PROVE  Promise!Begin(idx) /\ idx \in Promise!Steps /\ PromiseInv'
<1>1. /\ pc = "begin" /\ pc' = "dispatch"
      /\ stepStatuses' = [stepStatuses EXCEPT ![idx] = "running"]
      /\ UNCHANGED <<chain, status, idx, stopCh>>
  BY DEF BeginStep
<1>2. idx \in Nat /\ Steps \subseteq Nat /\ idx \in Steps /\ stepStatuses \in [Steps -> StepStatus]
  BY <1>1, Numbers DEF InBody
<1>3. /\ Steps' = Steps
      /\ stepStatuses'[idx] = "running"
      /\ \A i \in Steps : i # idx => stepStatuses'[i] = stepStatuses[i]
  BY <1>1, <1>2 DEF Steps
<1>4. \A i \in Steps : i # idx => (Begun(i)' <=> Begun(i))
  BY <1>1 DEF Begun
<1>5. Begun(idx)' /\ ~Begun(idx)
  BY <1>1, <1>2 DEF Begun
<1>6. Outcome' = [Outcome EXCEPT ![idx] = "active"]
  <2>1. \A i \in Steps : i # idx =>
          /\ Begun(i)' <=> Begun(i)
          /\ stepStatuses'[i] = stepStatuses[i]
    BY <1>3, <1>4
  <2>2. \A k \in Steps : k = idx => Begun(k)'
    BY <1>1, <1>2 DEF Begun
  <2>3. Outcome' = [Outcome EXCEPT ![idx] = OutcomeOf(stepStatuses'[idx])]
    BY <1>2, <1>3, <2>1, <2>2, OutcomeChanges
  <2> QED BY <1>3, <2>3 DEF OutcomeOf
<1>7. Outcome[idx] = "pending" /\ status = "running" /\ Promise!Steps = Steps
  BY <1>1, <1>2, <1>5, PromiseView
<1>8. ~Ended = TRUE /\ (~Ended)' = TRUE
  BY <1>1 DEF Ended
<1>9. \A j \in Promise!Steps : j < idx => Promise!Passed(j) /\ ~Promise!Aborts(j)
  BY <1>7, PassedIsPassed
<1>10. Promise!Begin(idx)
  BY <1>1, <1>6, <1>7, <1>8, <1>9 DEF Promise!Begin
<1>11. PromiseInv'
  <2>1. \A i \in Steps :
          \/ stepStatuses'[i] # "pending"
          \/ stepStatuses'[i] = stepStatuses[i] /\ (Begun(i)' => Begun(i))
    BY <1>3, <1>4
  <2>2. stepStatuses'[idx'] = "running" /\ status' = "running" /\ pc' # "new"
    BY <1>1, <1>3, <1>7
  <2> QED BY <1>3, <2>1, <2>2, PromiseInvKept
<1> QED BY <1>2, <1>7, <1>10, <1>11

LEMMA ErrorPromised ==
  ASSUME TypeInv, PromiseInv, NEW err, HandleStepError(err), pc \in AtWork
  PROVE  (Promise!Settle(idx) \/ UNCHANGED Promise!vars) /\ idx \in Promise!Steps /\ PromiseInv'
<1>1. idx \in Steps /\ Begun(idx) /\ Outcome[idx] = "active" /\ Promise!Steps = Steps
      /\ status = "running" /\ stepStatuses[idx] \in {"running", "waiting"}
  BY PromiseView DEF AtWork, PromiseInv
<1>2. UNCHANGED <<chain, stopCh>> /\ pc \notin Idle /\ ~Ended = TRUE
  BY DEF HandleStepError, AtWork, Idle, Ended
<1>3. \/ pc' = "closed" /\ idx' = idx
      \/ pc' = "loop" /\ idx' = idx + 1
  BY DEF HandleStepError, NextStep, Return
<1>4. Steps' = Steps /\ \A i \in Steps : Begun(i)' <=> Begun(i)
  BY <1>2, <1>3, BegunSame DEF Idle
<1>5. ASSUME NEW s \in {"failed", "skipped"}, stepStatuses' = [stepStatuses EXCEPT ![idx] = s]
      PROVE  /\ Outcome' = [Outcome EXCEPT ![idx] = s]
             /\ \A i \in Steps : stepStatuses'[i] # "pending" \/ stepStatuses'[i] = stepStatuses[i]
  <2>1. /\ stepStatuses'[idx] = s
        /\ \A i \in Steps : i # idx => stepStatuses'[i] = stepStatuses[i]
    BY <1>1, <1>5, Numbers
  <2>2. Outcome' = [Outcome EXCEPT ![idx] = s]
    BY <1>1, <1>4, <2>1, OutcomeChanges DEF OutcomeOf
  <2> QED BY <2>1, <2>2
<1>6. (pc' = "closed" \/ status' = "running")
      /\ \A i \in Steps : stepStatuses'[i] # "pending" \/ stepStatuses'[i] = stepStatuses[i]
  BY <1>1, <1>5 DEF HandleStepError, Return
<1>7. PromiseInv'
  BY <1>3, <1>4, <1>6, PromiseInvKept DEF AtWork
<1>8. CASE /\ chain[idx].onFailure = "abort"
           /\ stepStatuses' = [stepStatuses EXCEPT ![idx] = "failed"]
           /\ status' = "failed" /\ pc' = "closed"
  <2>1. (~Ended)' = FALSE
    BY <1>8 DEF Ended
  <2> QED BY <1>1, <1>2, <1>5, <1>7, <1>8, <2>1 DEF Promise!Settle
<1>9. CASE /\ stepStatuses' = [stepStatuses EXCEPT ![idx] = "skipped"]
           /\ chain[idx].onFailure = "skip" /\ pc' = "loop" /\ UNCHANGED status
  <2>1. (~Ended)' = TRUE
    BY <1>9 DEF Ended
  <2> QED BY <1>1, <1>2, <1>5, <1>7, <1>9, <2>1 DEF Promise!Settle
<1>10. CASE /\ stepStatuses' = [stepStatuses EXCEPT ![idx] = "failed"]
            /\ pc' = "loop" /\ UNCHANGED status
  <2>1. (~Ended)' = TRUE
    BY <1>10 DEF Ended
  <2> QED BY <1>1, <1>2, <1>5, <1>7, <1>10, <2>1 DEF Promise!Settle
<1>11. CASE UNCHANGED <<stepStatuses, status>> /\ pc' = "loop"
  <2>1. Outcome' = Outcome
    BY <1>4, <1>11, OutcomeSame
  <2>2. Ended' <=> Ended
    BY <1>2, <1>11 DEF Ended
  <2> QED BY <1>1, <1>2, <1>7, <1>11, <2>1, <2>2, PromiseStutter
<1> QED BY <1>8, <1>9, <1>10, <1>11 DEF HandleStepError, NextStep, Return

LEMMA ResultPromised ==
  ASSUME TypeInv, PromiseInv, NEW s \in {"completed", "failed"}, NEW c, RecordResult(s, c), pc \in AtWork
  PROVE  Promise!Settle(idx) /\ idx \in Promise!Steps /\ PromiseInv'
<1>1. idx \in Steps /\ Begun(idx) /\ Outcome[idx] = "active" /\ Promise!Steps = Steps
      /\ status = "running"
  BY PromiseView DEF AtWork
<1>2. UNCHANGED <<chain, status, stopCh>> /\ pc \notin Idle /\ ~Ended = TRUE
  BY DEF RecordResult, AtWork, Idle, Ended
<1>3. \/ pc' = "failed" /\ idx' = idx
      \/ pc' = "loop" /\ idx' = idx + 1
  BY DEF RecordResult, NextStep
<1>4. Steps' = Steps /\ \A i \in Steps : Begun(i)' <=> Begun(i)
  BY <1>2, <1>3, BegunSame DEF Idle
<1>5. /\ stepStatuses'[idx] = s
      /\ \A i \in Steps : i # idx => stepStatuses'[i] = stepStatuses[i]
  BY <1>1, Numbers DEF RecordResult
<1>6. Outcome' = [Outcome EXCEPT ![idx] = s]
  BY <1>1, <1>4, <1>5, OutcomeChanges DEF OutcomeOf
<1>7. (~Ended)' = TRUE
  BY <1>3 DEF Ended
<1>8. PromiseInv'
  BY <1>1, <1>2, <1>3, <1>4, <1>5, PromiseInvKept DEF AtWork
<1> QED BY <1>1, <1>2, <1>6, <1>7, <1>8 DEF Promise!Settle

(* A step of the executor by which no step begins and none gets an outcome. *)
LEMMA NothingPromised ==
  ASSUME TypeInv, PromiseInv, UNCHANGED <<chain, status, stopCh, stepStatuses>>,
         \/ idx' = idx /\ (pc \in Idle <=> pc' \in Idle)
         \/ idx' = idx + 1 /\ pc \notin Idle /\ pc' = "loop",
         Ended' <=> Ended, pc' \in AtWork => pc \in AtWork /\ idx' = idx,
         pc' = "new" => pc = "new",
         pc' \notin {"new", "closed"} => pc \notin {"new", "closed"}
  PROVE  UNCHANGED Promise!vars /\ PromiseInv'
<1>1. Steps' = Steps /\ \A i \in Steps : Begun(i)' <=> Begun(i)
  BY BegunSame
<1>2. Outcome' = Outcome
  BY <1>1, OutcomeSame
<1>3. UNCHANGED Promise!vars
  BY <1>2, PromiseStutter
<1>4. PromiseInv'
  <2>1. \A i \in Steps : stepStatuses'[i] = stepStatuses[i] /\ (Begun(i)' => Begun(i))
    BY <1>1
  <2> QED BY <1>1, <2>1, PromiseInvKept DEF PromiseInv
<1> QED BY <1>3, <1>4

LEMMA CheckStopPromised ==
  ASSUME TypeInv, PromiseInv, CheckStop
  PROVE  (Promise!Leave \/ UNCHANGED Promise!vars) /\ PromiseInv'
<1>1. /\ pc = "loop" /\ pc' = (IF stopCh THEN "stopped" ELSE "begin")
      /\ UNCHANGED <<chain, status, stepStatuses, stopCh, idx>>
  BY DEF CheckStop, state
<1>2. CASE ~stopCh
  BY <1>1, <1>2, NothingPromised DEF Idle, AtWork, Ended
<1>3. CASE stopCh
  <2>1. Steps' = Steps /\ \A i \in Steps : Begun(i)' <=> Begun(i)
    BY <1>1, <1>3, BegunSame DEF Idle
  <2>2. Outcome' = Outcome
    BY <1>1, <2>1, OutcomeSame
  <2>3. ~Ended = TRUE /\ (~Ended)' = FALSE
    BY <1>1, <1>3 DEF Ended
  <2>4. Promise!Leave
    BY <1>1, <1>3, <2>2, <2>3 DEF Promise!Leave
  <2>5. \A i \in Steps : stepStatuses'[i] = stepStatuses[i] /\ (Begun(i)' => Begun(i))
    BY <1>1, <2>1
  <2>6. PromiseInv'
    BY <1>1, <1>3, <2>1, <2>5, PromiseInvKept DEF PromiseInv, AtWork
  <2> QED BY <2>4, <2>6
<1> QED BY <1>2, <1>3

LEMMA CompletePromised ==
  ASSUME TypeInv, PromiseInv, PastPassed, Complete
  PROVE  Promise!Complete /\ PromiseInv'
<1>1. /\ pc = "loop" /\ pc' = "closed" /\ idx' = idx /\ idx \notin Steps
      /\ status' = "completed"
      /\ UNCHANGED <<chain, stepStatuses, stopCh>>
  BY DEF Complete, Return
<1>2. Steps' = Steps /\ \A i \in Steps : Begun(i)' <=> Begun(i)
  BY <1>1, BegunSame
<1>3. Outcome' = Outcome
  BY <1>1, <1>2, OutcomeSame
<1>4. (~Ended)' = FALSE
  BY <1>1 DEF Ended
<1>5. status = "running" /\ Promise!Steps = Steps
  BY <1>1, PromiseView
<1>6. \A j \in Steps : j < idx
  <2>1. chain \in Seq(Step) /\ idx \in 1..Len(chain) + 1
    BY DEF TypeInv, TypeOK, StateType, GoroutineType
  <2>2. Len(chain) \in Nat
    BY <2>1, LenProperties
  <2> QED BY <1>1, <2>1, <2>2 DEF Steps
<1>7. \A j \in Promise!Steps : Promise!Passed(j) /\ ~Promise!Aborts(j)
  BY <1>5, <1>6, PassedIsPassed
<1>8. Promise!Complete
  BY <1>1, <1>3, <1>4, <1>5, <1>7 DEF Promise!Complete
<1>9. PromiseInv'
  <2>1. \A i \in Steps : stepStatuses'[i] = stepStatuses[i] /\ (Begun(i)' => Begun(i))
    BY <1>1, <1>2
  <2> QED BY <1>1, <1>2, <2>1, PromiseInvKept DEF AtWork
<1> QED BY <1>8, <1>9

LEMMA WaitingPromised ==
  ASSUME TypeInv, PromiseInv, MarkWaiting
  PROVE  UNCHANGED Promise!vars /\ PromiseInv'
<1>1. /\ pc = "watched" /\ pc' \in {"record", "wait"} /\ idx' = idx
      /\ stepStatuses' = [stepStatuses EXCEPT ![idx] = "waiting"]
      /\ UNCHANGED <<chain, status, stopCh>>
  BY DEF MarkWaiting
<1>2. idx \in Steps /\ stepStatuses[idx] \in {"running", "waiting"} /\ status = "running"
  BY <1>1, PromiseView DEF AtWork, PromiseInv
<1>3. /\ stepStatuses'[idx] = "waiting"
      /\ \A i \in Steps : i # idx => stepStatuses'[i] = stepStatuses[i]
  BY <1>1, <1>2, Numbers
<1>4. Steps' = Steps /\ \A i \in Steps : Begun(i)' <=> Begun(i)
  BY <1>1, BegunSame DEF Idle
<1>5. \A i \in Steps : OutcomeOf(stepStatuses'[i]) = OutcomeOf(stepStatuses[i])
  BY <1>2, <1>3 DEF OutcomeOf
<1>6. Outcome' = Outcome
  BY <1>4, <1>5, OutcomeSame
<1>7. Ended' <=> Ended
  BY <1>1 DEF Ended
<1>8. PromiseInv'
  <2>1. \A i \in Steps :
          \/ stepStatuses'[i] # "pending"
          \/ stepStatuses'[i] = stepStatuses[i] /\ (Begun(i)' => Begun(i))
    BY <1>3, <1>4
  <2> QED BY <1>1, <1>2, <1>3, <1>4, <2>1, PromiseInvKept
<1> QED BY <1>1, <1>6, <1>7, <1>8, PromiseStutter

LEMMA FailurePromised ==
  ASSUME TypeInv, PromiseInv, HandleStepFailure
  PROVE  (Promise!Abort \/ Promise!Leave \/ UNCHANGED Promise!vars) /\ PromiseInv'
<1>1. /\ pc = "failed"
      /\ UNCHANGED <<chain, stepStatuses, stopCh>>
  BY DEF HandleStepFailure
<1>2. idx \in Steps /\ Begun(idx) /\ status = "running" /\ Promise!Steps = Steps
  BY <1>1, PromiseView
<1>3. Outcome[idx] = "failed"
  BY <1>1, <1>2, PromiseView DEF TypeInv, Control, OutcomeOf
<1>4. CASE chain[idx].onFailure \in {"skip", "continue"} /\ UNCHANGED status /\ NextStep
  BY <1>1, <1>4, NothingPromised DEF Idle, AtWork, Ended, NextStep
<1>5. CASE Return
  <2>1. pc' = "closed" /\ idx' = idx
    BY <1>5 DEF Return
  <2>2. Steps' = Steps /\ \A i \in Steps : Begun(i)' <=> Begun(i)
    BY <1>1, <2>1, BegunSame DEF Idle
  <2>3. Outcome' = Outcome
    BY <1>1, <2>2, OutcomeSame
  <2>4. ~Ended = TRUE /\ (~Ended)' = FALSE
    BY <1>1, <2>1 DEF Ended
  <2>5. \A i \in Steps : stepStatuses'[i] = stepStatuses[i] /\ (Begun(i)' => Begun(i))
    BY <1>1, <2>2
  <2>6. PromiseInv'
    BY <2>1, <2>2, <2>5, PromiseInvKept DEF AtWork
  <2>7. CASE chain[idx].onFailure = "abort" /\ status' = "failed"
    <3>1. Promise!Aborts(idx)
      BY <1>3, <2>7 DEF Promise!Aborts
    <3>2. Promise!Abort
      BY <1>1, <1>2, <2>3, <2>4, <2>7, <3>1 DEF Promise!Abort
    <3> QED BY <2>6, <3>2
  <2>8. CASE chain[idx].onFailure = "other" /\ UNCHANGED status
    <3>1. Promise!Leave
      BY <1>1, <1>2, <1>3, <2>3, <2>4, <2>8 DEF Promise!Leave
    <3> QED BY <2>6, <3>1
  <2> QED BY <1>1, <2>1, <2>7, <2>8 DEF HandleStepFailure, NextStep
<1> QED BY <1>4, <1>5 DEF HandleStepFailure

LEMMA CallerPromised ==
  ASSUME TypeInv, PromiseInv, Start \/ Stop
  PROVE  (Promise!Start \/ Promise!Stop) /\ PromiseInv'
<1>1. UNCHANGED <<chain, stepStatuses, idx>> /\ (pc \in Idle <=> pc' \in Idle)
  BY DEF Start, Stop, state, Idle
<1>2. Steps' = Steps /\ \A i \in Steps : Begun(i)' <=> Begun(i)
  BY <1>1, BegunSame
<1>3. Outcome' = Outcome
  BY <1>1, <1>2, OutcomeSame
<1>4. \A i \in Steps : stepStatuses'[i] = stepStatuses[i] /\ (Begun(i)' => Begun(i))
  BY <1>1, <1>2
<1>5. CASE Start
  <2>1. pc = "new" /\ pc' = "loop" /\ status' = "running" /\ UNCHANGED stopCh
    BY <1>5 DEF Start
  <2>2. ~Ended = TRUE /\ (~Ended)' = TRUE
    BY <2>1 DEF Ended
  <2>3. Promise!Start
    BY <1>1, <1>3, <2>1, <2>2 DEF Promise!Start, PromiseInv
  <2>4. PromiseInv'
    BY <1>2, <1>4, <2>1, PromiseInvKept DEF AtWork
  <2> QED BY <2>3, <2>4
<1>6. CASE Stop
  <2>1. stopCh' = TRUE /\ UNCHANGED <<pc, status>>
    BY <1>6 DEF Stop, state
  <2>2. (~Ended)' = ~Ended
    BY <2>1 DEF Ended
  <2>3. Promise!Stop
    BY <1>1, <1>3, <2>1, <2>2 DEF Promise!Stop
  <2>4. PromiseInv'
    BY <1>1, <1>2, <1>4, <2>1, PromiseInvKept DEF PromiseInv
  <2> QED BY <2>3, <2>4
<1> QED BY <1>5, <1>6

(* Every step of the executor is one of the promise, or none.               *)
LEMMA PromiseStep ==
  ASSUME SafeInv, PromiseInv, [Next]_vars
  PROVE  [Promise!Next]_(Promise!vars) /\ PromiseInv'
<1>1. TypeInv /\ PastPassed
  BY DEF SafeInv
<1>2. CASE CheckStop \/ HandleStepFailure \/ MarkWaiting
  BY <1>1, <1>2, CheckStopPromised, FailurePromised, WaitingPromised DEF Promise!Next
<1>3. CASE Complete \/ Start \/ Stop
  BY <1>1, <1>3, CompletePromised, CallerPromised DEF Promise!Next
<1>4. CASE BeginStep
  BY <1>1, <1>4, BeginPromised DEF Promise!Next
<1>5. ASSUME NEW err, HandleStepError(err), pc \in AtWork
      PROVE  [Promise!Next]_(Promise!vars) /\ PromiseInv'
  BY <1>1, <1>5, ErrorPromised DEF Promise!Next
<1>6. ASSUME NEW s \in {"completed", "failed"}, NEW c, RecordResult(s, c), pc \in AtWork
      PROVE  [Promise!Next]_(Promise!vars) /\ PromiseInv'
  BY <1>1, <1>6, ResultPromised DEF Promise!Next
<1>7. CASE DispatchFails \/ GetLatestRunFails \/ PollFails \/ WaitStopped
  BY <1>5, <1>7 DEF DispatchFails, GetLatestRunFails, PollFails, WaitStopped, AtWork
<1>8. CASE RecordUnawaited
  BY <1>6, <1>8 DEF RecordUnawaited, AtWork
<1>9. CASE PollCompleted
  <2> DEFINE failed == runs[runID].conclusion # "success" /\ chain[idx].waitFor = "success"
             s == IF failed THEN "failed" ELSE "completed"
  <2>1. RecordResult(s, runs[runID].conclusion) /\ pc \in AtWork
    BY <1>9 DEF PollCompleted, AtWork
  <2>2. s \in {"completed", "failed"}
    OBVIOUS
  <2> QED BY <1>6, <2>1, <2>2
<1>10. CASE Dispatch \/ (\E r \in DOMAIN runs : GetLatestRun(r))
  <2>1. /\ pc \in AtWork /\ pc' \in AtWork
        /\ UNCHANGED <<chain, status, stopCh, stepStatuses, idx>>
    BY <1>10 DEF Dispatch, GetLatestRun, AtWork, state
  <2> QED BY <1>1, <2>1, NothingPromised DEF Idle, AtWork, Ended
<1>11. CASE Receive \/ ReceiveClosed \/ RunCompletes \/ ForeignDispatch \/ UNCHANGED vars
  <2>1. UNCHANGED <<chain, status, stopCh, stepStatuses, idx, pc>>
    BY <1>11 DEF Receive, ReceiveClosed, RunCompletes, ForeignDispatch, vars, state
  <2> QED BY <1>1, <2>1, NothingPromised DEF Idle, AtWork, Ended
<1> QED BY <1>2, <1>3, <1>4, <1>7, <1>8, <1>9, <1>10, <1>11 DEF Next, RunChain

(* The executor implements ChainPromise, for every chain and history.       *)
THEOREM ChainKeepsPromise == Spec => KeepsPromise
<1>1. Spec => []SafeInv
  BY SafeAlways
<1>2. Init => Promise!Init /\ PromiseInv
  BY PromiseInit
<1>3. SafeInv /\ PromiseInv /\ [Next]_vars => [Promise!Next]_(Promise!vars) /\ PromiseInv'
  BY PromiseStep
<1> QED BY <1>1, <1>2, <1>3, PTL DEF Spec, KeepsPromise, Promise!Spec

-----------------------------------------------------------------------------
(* Induction *)

(* A set of naturals has a least one.                                       *)
LEMMA LeastNumber ==
  ASSUME NEW T, T \subseteq Nat, T # {}
  PROVE  \E least \in T : \A n \in T : least <= n
<1>1. PICK least \in T : \A n \in T : <<n, least>> \notin OpToRel(<, Nat)
  BY NatLessThanWellFounded, WFMin
<1>2. \A n \in T : ~(n < least)
  BY <1>1 DEF OpToRel
<1> QED BY <1>2

(* Induction over the naturals, for a set.                                  *)
LEMMA Induction ==
  ASSUME NEW G, 0 \in G, \A n \in Nat : n \in G => n + 1 \in G
  PROVE  Nat \subseteq G
<1> SUFFICES ASSUME Nat \ G # {} PROVE FALSE
  OBVIOUS
<1>1. PICK least \in Nat \ G : \A n \in Nat \ G : least <= n
  BY LeastNumber
<1>2. least # 0 /\ least - 1 \in Nat
  BY <1>1
<1>3. least - 1 \in G
  BY <1>1, <1>2
<1>4. (least - 1) + 1 = least
  BY <1>2
<1> QED BY <1>1, <1>2, <1>3, <1>4

(* What the steps resolve to is well defined: the recursion has a solution, *)
(* whose value for n steps extends that for n - 1.                          *)
Resolution(steps, variables, n, f) ==
  f = [m \in 0..n |->
         IF m = 0 THEN <<>>
         ELSE Append(f[m - 1], ResolveStep(steps, variables, f[m - 1], m))]

LEMMA ResolutionExists ==
  ASSUME NEW steps, NEW variables, NEW size \in Nat
  PROVE  \E f : Resolution(steps, variables, size, f)
<1> DEFINE G == {n \in Nat : \E f : Resolution(steps, variables, n, f)}
<1>1. 0 \in G
  <2>1. Resolution(steps, variables, 0, [m \in 0..0 |-> <<>>])
    BY DEF Resolution
  <2> QED BY <2>1
<1>2. ASSUME NEW n \in Nat, n \in G PROVE n + 1 \in G
  <2>1. PICK f : Resolution(steps, variables, n, f)
    BY <1>2
  <2> DEFINE new == Append(f[n], ResolveStep(steps, variables, f[n], n + 1))
             g   == [m \in 0..(n + 1) |-> IF m = n + 1 THEN new ELSE f[m]]
  <2> HIDE DEF new
  <2>2. ASSUME NEW m \in 0..(n + 1)
        PROVE  g[m] = IF m = 0 THEN <<>>
                      ELSE Append(g[m - 1], ResolveStep(steps, variables, g[m - 1], m))
    <3>1. CASE m = n + 1
      <4>1. g[m] = new /\ g[m - 1] = f[n] /\ m # 0
        BY <3>1
      <4> QED BY <3>1, <4>1 DEF new
    <3>2. CASE m = 0
      BY <2>1, <3>2 DEF Resolution
    <3>3. CASE m \in 1..n
      <4>1. m \in 0..n /\ m # 0 /\ m - 1 \in 0..(n + 1) /\ m # n + 1 /\ m - 1 # n + 1
        BY <3>3
      <4>2. g[m] = f[m] /\ g[m - 1] = f[m - 1]
        BY <4>1
      <4>3. f[m] = Append(f[m - 1], ResolveStep(steps, variables, f[m - 1], m))
        BY <2>1, <4>1, Zenon DEF Resolution
      <4> QED BY <4>1, <4>2, <4>3
    <3> QED BY <3>1, <3>2, <3>3
  <2>3. Resolution(steps, variables, n + 1, g)
    BY <2>2 DEF Resolution
  <2> QED BY <2>3
<1> HIDE DEF G
<1>3. size \in G
  BY <1>1, <1>2, Induction
<1> QED BY <1>3 DEF G

LEMMA ResolveStepsIs ==
  ASSUME NEW steps, NEW variables, Len(steps) \in Nat
  PROVE  \E f : /\ Resolution(steps, variables, Len(steps), f)
                /\ ResolveSteps(steps, variables) = f[Len(steps)]
<1> DEFINE f == CHOOSE g : g = [m \in 0..Len(steps) |->
         IF m = 0 THEN <<>>
         ELSE Append(g[m - 1], ResolveStep(steps, variables, g[m - 1], m))]
<1>1. ResolveSteps(steps, variables) = f[Len(steps)]
  BY DEF ResolveSteps
<1>2. \E g : g = [m \in 0..Len(steps) |->
         IF m = 0 THEN <<>>
         ELSE Append(g[m - 1], ResolveStep(steps, variables, g[m - 1], m))]
  <2>1. \E g : Resolution(steps, variables, Len(steps), g)
    BY ResolutionExists
  <2> QED BY <2>1 DEF Resolution
<1>3. f = [m \in 0..Len(steps) |->
         IF m = 0 THEN <<>>
         ELSE Append(f[m - 1], ResolveStep(steps, variables, f[m - 1], m))]
  BY <1>2
<1>4. Resolution(steps, variables, Len(steps), f)
  BY <1>3 DEF Resolution
<1> QED BY <1>1, <1>4

(* Each step is resolved from what the steps before it resolved to.         *)
LEMMA StepsResolved ==
  ASSUME NEW steps, NEW variables, Len(steps) \in Nat
  PROVE  LET resolved == ResolveSteps(steps, variables)
         IN  /\ DOMAIN resolved = 1..Len(steps)
             /\ \A i \in 1..Len(steps) : \E before :
                  /\ DOMAIN before = 1..(i - 1)
                  /\ \A j \in 1..(i - 1) : before[j] = resolved[j]
                  /\ resolved[i] = ResolveStep(steps, variables, before, i)
<1>1. PICK f : /\ Resolution(steps, variables, Len(steps), f)
               /\ ResolveSteps(steps, variables) = f[Len(steps)]
  BY ResolveStepsIs
<1> DEFINE size    == Len(steps)
           At(m)   == ResolveStep(steps, variables, f[m - 1], m)
           Values  == {At(m) : m \in 1..size}
           Good(n) == /\ f[n] \in Seq(Values) /\ Len(f[n]) = n
                      /\ \A j \in 1..n : f[n][j] = At(j)
           G       == {n \in Nat : n <= size => Good(n)}
<1>2. 0 \in G
  <2> HIDE DEF At, Values
  <2>1. f[0] = <<>>
    BY <1>1 DEF Resolution
  <2>2. <<>> \in Seq(Values) /\ Len(<<>>) = 0 /\ 1..0 = {}
    OBVIOUS
  <2> QED BY <2>1, <2>2
<1>3. ASSUME NEW n \in Nat, n \in G PROVE n + 1 \in G
  <2>1. SUFFICES ASSUME n + 1 <= size PROVE Good(n + 1)
    OBVIOUS
  <2>2. Good(n)
    BY <1>3, <2>1
  <2>3. n + 1 \in 1..size /\ n + 1 \in 0..size /\ n + 1 # 0 /\ (n + 1) - 1 = n
    BY <2>1
  <2>4. f[n + 1] = Append(f[n], At(n + 1))
    <3>1. f[n + 1] = Append(f[(n + 1) - 1], ResolveStep(steps, variables, f[(n + 1) - 1], n + 1))
      BY <1>1, <2>3, Zenon DEF Resolution
    <3> QED BY <2>3, <3>1
  <2>5. At(n + 1) \in Values
    BY <2>3
  <2> HIDE DEF At, Values
  <2> QED BY <2>2, <2>4, <2>5
<1> HIDE DEF G
<1>4. Nat \subseteq G
  BY <1>2, <1>3, Induction
<1>5. \A n \in 0..size : Good(n)
  BY <1>4 DEF G
<1> DEFINE resolved == ResolveSteps(steps, variables)
<1>6. Good(size) /\ resolved = f[size]
  <2> HIDE DEF Good
  <2> QED BY <1>1, <1>5
<1>7. DOMAIN resolved = 1..size
  <2> HIDE DEF At, Values
  <2> QED BY <1>6
<1>8. ASSUME NEW i \in 1..size
      PROVE  /\ DOMAIN f[i - 1] = 1..(i - 1)
             /\ \A j \in 1..(i - 1) : f[i - 1][j] = resolved[j]
             /\ resolved[i] = ResolveStep(steps, variables, f[i - 1], i)
  <2> HIDE DEF Values
  <2>1. Good(i - 1)
    BY <1>5
  <2>2. DOMAIN f[i - 1] = 1..(i - 1)
    <3> HIDE DEF At
    <3> QED BY <2>1
  <2>3. resolved[i] = At(i)
    BY <1>6
  <2>4. \A j \in 1..(i - 1) : f[i - 1][j] = At(j) /\ resolved[j] = At(j)
    <3> HIDE DEF At
    <3> QED BY <1>6, <2>1
  <2> QED BY <2>2, <2>3, <2>4
<1> HIDE DEF resolved
<1> QED BY <1>7, <1>8 DEF resolved

(* Of a text only what its parts resolve to matters.                        *)
LEMMA SamePartsSameText ==
  ASSUME NEW inputs, NEW ctx, NEW other,
         \A n \in DOMAIN inputs : \A p \in DOMAIN inputs[n] :
           Resolve(inputs[n][p], ctx) = Resolve(inputs[n][p], other)
  PROVE  InterpolateInputs(inputs, ctx) = InterpolateInputs(inputs, other)
<1>1. ASSUME NEW n \in DOMAIN inputs
      PROVE  Interpolate(inputs[n], ctx) = Interpolate(inputs[n], other)
  BY Zenon DEF Interpolate
<1> QED BY <1>1, Zenon DEF InterpolateInputs

(* The goroutine has not begun the step at the loop variable.               *)
Unbegun == {"new", "loop", "begin", "stopped"}

(* Steps begin one at a time, and stay begun.                               *)
LEMMA StepsBegin ==
  ASSUME TypeInv, [Next]_vars
  PROVE  \/ pc = "begin" /\ pc' = "dispatch" /\ BeginStep
         \/ ~(pc = "begin" /\ pc' = "dispatch") /\ \A i \in Steps : Begun(i)' <=> Begun(i)
<1> USE DEF NextStep, Return, Unbegun
<1>1. idx \in Nat /\ Steps \subseteq Nat
  BY StepNumbers
<1>2. ASSUME UNCHANGED idx, pc \in Unbegun <=> pc' \in Unbegun, pc' # "dispatch" \/ pc # "begin"
      PROVE  \A i \in Steps : Begun(i)' <=> Begun(i)
  BY <1>2 DEF Begun
<1>3. ASSUME idx' = idx + 1, pc' = "loop", pc \notin Unbegun
      PROVE  \A i \in Steps : Begun(i)' <=> Begun(i)
  BY <1>1, <1>3 DEF Begun
<1>4. ASSUME pc \notin Unbegun, pc' \notin Unbegun, UNCHANGED idx
      PROVE  \A i \in Steps : Begun(i)' <=> Begun(i)
  BY <1>4 DEF Begun
<1>5. CASE CheckStop
  BY <1>2, <1>5 DEF CheckStop
<1>6. CASE BeginStep
  BY <1>6 DEF BeginStep
<1>7. CASE Complete
  <2>1. pc = "loop" /\ idx \notin Steps /\ UNCHANGED idx
    BY <1>7 DEF Complete
  <2> QED BY <2>1 DEF Begun
<1>8. CASE Dispatch \/ MarkWaiting
  BY <1>4, <1>8 DEF Dispatch, MarkWaiting
<1>9. CASE DispatchFails \/ GetLatestRunFails \/ PollFails \/ WaitStopped
  <2>1. pc \in {"dispatch", "getRun", "wait"} /\ \E err : HandleStepError(err)
    BY <1>9 DEF DispatchFails, GetLatestRunFails, PollFails, WaitStopped
  <2>2. \/ idx' = idx + 1 /\ pc' = "loop"
        \/ UNCHANGED idx /\ pc' = "closed"
    BY <2>1 DEF HandleStepError
  <2> QED BY <1>3, <1>4, <2>1, <2>2
<1>10. CASE RecordUnawaited \/ PollCompleted \/ HandleStepFailure
  <2>1. /\ pc \in {"record", "wait", "failed"}
        /\ \/ idx' = idx + 1 /\ pc' = "loop"
           \/ UNCHANGED idx /\ pc' \in {"closed", "failed"}
    BY <1>10 DEF RecordUnawaited, PollCompleted, RecordResult, HandleStepFailure
  <2> QED BY <1>3, <1>4, <2>1
<1>11. ASSUME NEW r \in DOMAIN runs, GetLatestRun(r)
       PROVE  pc \notin Unbegun /\ pc' \notin Unbegun /\ UNCHANGED idx
  BY <1>11 DEF GetLatestRun
<1>12. CASE Start
  BY <1>2, <1>12 DEF Start
<1>13. CASE Stop \/ Receive \/ ReceiveClosed \/ RunCompletes \/ ForeignDispatch \/ UNCHANGED vars
  <2>1. UNCHANGED <<pc, idx>>
    BY <1>13 DEF Stop, Receive, ReceiveClosed, RunCompletes, ForeignDispatch, vars
  <2> QED BY <1>2, <2>1
<1> QED
  BY <1>4, <1>5, <1>6, <1>7, <1>8, <1>9, <1>10, <1>11, <1>12, <1>13 DEF Next, RunChain

(* All steps before have a result of a run of this chain, and no template   *)
(* so far says "previous".                                                  *)
Unbroken(i) ==
  /\ \A j \in 1..(i - 1) : j \in DOMAIN stepResults /\ stepResults[j].run # 0
  /\ \A j \in 1..i : ~SaysPrevious(j)

(* The results of steps that are still to begin are those from history.     *)
InputsInv ==
  /\ chain \in Chains
  /\ DOMAIN stepInputs = {i \in Steps : Begun(i)}
  /\ \A i \in DOMAIN stepResults : stepResults[i].run # 0 => Begun(i)
  /\ \A i \in DOMAIN stepInputs : Unbroken(i) => stepInputs[i] = Shown[i]

LEMMA ResolvesAsShown ==
  ASSUME TypeInv, InputsInv, pc = "begin", Unbroken(idx)
  PROVE  InterpolateInputs(Inputs[idx], Context) = Shown[idx]
<1> DEFINE steps == SubSeq(Inputs, 1, Len(chain))
<1>1. /\ Len(chain) \in Nat /\ idx \in Steps /\ idx \in Nat
      /\ DOMAIN stepResults \subseteq Steps
  <2>1. chain \in Seq(Step) /\ DOMAIN stepResults \subseteq Steps
    BY DEF TypeInv, TypeOK, StateType
  <2>2. idx \in Steps
    BY DEF TypeInv, Control, InBody
  <2>3. Len(chain) \in Nat
    BY <2>1, LenProperties
  <2> QED BY <2>1, <2>2, <2>3, StepNumbers
<1>2. Len(steps) = Len(chain) /\ \A i \in Steps : steps[i] = Inputs[i]
  <2> DEFINE S == ToSet(Inputs)
  <2>1. Inputs \in Seq(S) /\ Len(chain) <= Len(Inputs)
    BY InputsAssumption DEF InputsInv
  <2> HIDE DEF S
  <2> QED BY <1>1, <2>1 DEF Steps
<1> HIDE DEF steps
<1>3. PICK before :
        /\ DOMAIN before = 1..(idx - 1)
        /\ \A j \in 1..(idx - 1) : before[j] = Shown[j]
        /\ Shown[idx] = ResolveStep(steps, Variables, before, idx)
  <2>1. Shown = ResolveSteps(steps, Variables)
    BY DEF Shown, steps
  <2>2. Len(steps) \in Nat /\ idx \in 1..Len(steps)
    BY <1>1, <1>2 DEF Steps
  <2> QED BY <2>1, <2>2, StepsResolved
<1> DEFINE results == [i \in DOMAIN stepResults |-> ResultInputs(i)]
<1>4. ASSUME NEW q, NEW key
      PROVE  UNION {Lookup(inputs, key) : inputs \in Lookup(results, q)}
               = UNION {Lookup(inputs, key) : inputs \in Lookup(before, q)}
  <2>1. CASE q \in 1..(idx - 1)
    <3>1. q \in DOMAIN stepResults /\ stepResults[q].run # 0
      BY <2>1 DEF Unbroken
    <3>2. q \in DOMAIN stepInputs
      BY <1>1, <3>1 DEF InputsInv
    <3>3. Unbroken(q)
      BY <1>1, <2>1 DEF Unbroken
    <3>4. stepInputs[q] = Shown[q]
      BY <3>2, <3>3 DEF InputsInv
    <3>5. results[q] = before[q]
      BY <1>3, <2>1, <3>1, <3>4 DEF ResultInputs
    <3>6. q \in DOMAIN results /\ q \in DOMAIN before
      BY <1>3, <2>1, <3>1
    <3> HIDE DEF results
    <3>7. Lookup(results, q) = Lookup(before, q)
      BY <3>5, <3>6 DEF Lookup
    <3> QED BY <3>7
  <2>2. CASE q \notin 1..(idx - 1)
    <3>1. Lookup(before, q) = {}
      BY <1>3, <2>2 DEF Lookup
    <3>2. ASSUME NEW inputs \in Lookup(results, q) PROVE Lookup(inputs, key) = {}
      <4>1. q \in DOMAIN stepResults /\ inputs = ResultInputs(q)
        BY <3>2 DEF Lookup
      <4>2. q \in Nat /\ 1 <= q /\ ~(q < idx)
        BY <1>1, <2>2, <4>1 DEF Steps
      <4>3. ~Begun(q)
        BY <4>2 DEF Begun
      <4>4. inputs = <<>>
        BY <4>1, <4>3 DEF InputsInv, ResultInputs
      <4>5. DOMAIN <<>> = {}
        OBVIOUS
      <4> QED BY <4>4, <4>5 DEF Lookup
    <3> QED BY <3>1, <3>2
  <2> QED BY <2>1, <2>2
<1> DEFINE previous == IF idx > 2 THEN {before[idx - 2]} ELSE {}
           shownIn  == InterpolationContext(Variables, previous, before)
<1>5. Shown[idx] = InterpolateInputs(Inputs[idx], shownIn)
  BY <1>1, <1>2, <1>3 DEF ResolveStep
<1>6. /\ Context.var = Variables /\ shownIn.var = Variables
      /\ Context.steps = results /\ shownIn.steps = before
  BY DEF Context, InterpolationContext
<1> HIDE DEF shownIn, results
<1>7. ASSUME NEW n \in DOMAIN Inputs[idx], NEW p \in DOMAIN Inputs[idx][n]
      PROVE  Resolve(Inputs[idx][n][p], Context) = Resolve(Inputs[idx][n][p], shownIn)
  <2> DEFINE part == Inputs[idx][n][p]
  <2>1. part.kind # "previous"
    <3>1. ~SaysPrevious(idx)
      BY <1>1 DEF Unbroken, Steps
    <3> QED BY <3>1 DEF SaysPrevious
  <2> HIDE DEF part
  <2>2. CASE part.kind = "var"
    BY <1>6, <2>2 DEF Resolve, ResolveVarExpr
  <2>3. CASE part.kind = "steps"
    <3> DEFINE From(map) == UNION {Lookup(inputs, part.key) : inputs \in Lookup(map, part.step + 1)}
    <3>1. From(results) = From(before)
      BY <1>4
    <3>2. /\ ResolveStepsExpr(part, Context) = From(results)
          /\ ResolveStepsExpr(part, shownIn) = From(before)
      BY <1>6, Zenon DEF ResolveStepsExpr
    <3> HIDE DEF From
    <3>3. ASSUME NEW ctx PROVE Resolve(part, ctx) = ResolveStepsExpr(part, ctx)
      BY <2>3 DEF Resolve
    <3> QED BY <3>1, <3>2, <3>3 DEF part
  <2>4. CASE part.kind \notin {"var", "previous", "steps"}
    <3>1. part.kind # "var" /\ part.kind # "previous" /\ part.kind # "steps"
      BY <2>4
    <3>2. ASSUME NEW ctx PROVE Resolve(part, ctx) = {}
      BY <3>1 DEF Resolve
    <3> QED BY <3>2 DEF part
  <2> QED BY <2>1, <2>2, <2>3, <2>4 DEF part
<1> QED BY <1>5, <1>7, SamePartsSameText

LEMMA InputsInit ==
  ASSUME InitWithInputs
  PROVE  InputsInv
<1>1. chain \in Chains /\ idx = 1 /\ pc = "new" /\ stepInputs = <<>>
  BY DEF InitWithInputs, Init, NewExecutor, NewExecutorFromHistory, InitRest
<1>2. DOMAIN stepInputs = {}
  <2>1. DOMAIN <<>> = {}
    OBVIOUS
  <2> QED BY <1>1, <2>1
<1>3. \A i \in Steps : ~Begun(i)
  BY <1>1 DEF Begun, Steps
<1>4. \A i \in DOMAIN stepResults : stepResults[i].run = 0
  <2>1. CASE NewExecutor
    BY <2>1 DEF NewExecutor
  <2>2. CASE NewExecutorFromHistory
    BY <2>2 DEF NewExecutorFromHistory
  <2> QED BY <2>1, <2>2 DEF InitWithInputs, Init
<1> QED BY <1>1, <1>2, <1>3, <1>4 DEF InputsInv

LEMMA ShownStays ==
  ASSUME UNCHANGED chain
  PROVE  Shown' = Shown /\ Steps' = Steps
  BY DEF Shown, Steps

(* A step begins with the inputs that were shown.                           *)
LEMMA InputsAtBegin ==
  ASSUME TypeInv, InputsInv, BeginStep, Interpolates
  PROVE  InputsInv'
<1>1. /\ pc = "begin" /\ pc' = "dispatch"
      /\ UNCHANGED <<chain, idx, stepResults>>
  BY DEF BeginStep
<1>2. idx \in Steps /\ idx \in Nat /\ Steps \subseteq Nat
  BY <1>1, StepNumbers DEF TypeInv, Control, InBody
<1>3. stepInputs' = [i \in DOMAIN stepInputs \cup {idx} |->
                       IF i = idx THEN InterpolateInputs(Inputs[idx], Context) ELSE stepInputs[i]]
  BY <1>1 DEF Interpolates
<1>4. \A i \in Steps : Begun(i)' <=> Begun(i) \/ i = idx
  BY <1>1 DEF Begun
<1>5. DOMAIN stepInputs' = {i \in Steps' : Begun(i)'}
  BY <1>1, <1>2, <1>3, <1>4, ShownStays DEF InputsInv
<1>6. \A i \in DOMAIN stepResults : stepResults[i].run # 0 => Begun(i)'
  BY <1>4 DEF InputsInv, TypeInv, TypeOK, StateType
<1>7. ASSUME NEW i \in DOMAIN stepInputs', Unbroken(i)'
      PROVE  stepInputs'[i] = Shown'[i]
  <2>1. Unbroken(i)
    BY <1>1, <1>7 DEF Unbroken, SaysPrevious
  <2>2. CASE i = idx
    BY <1>1, <1>3, <2>1, <2>2, ResolvesAsShown, ShownStays
  <2>3. CASE i # idx
    BY <1>1, <1>3, <2>1, <2>3, ShownStays DEF InputsInv
  <2> QED BY <2>2, <2>3
<1> QED BY <1>1, <1>5, <1>6, <1>7 DEF InputsInv

LEMMA InputsStay ==
  ASSUME TypeInv, InputsInv, [Next]_vars, UNCHANGED stepInputs,
         \A i \in Steps : Begun(i)' <=> Begun(i)
  PROVE  InputsInv'
<1>1. /\ UNCHANGED chain
      /\ \/ UNCHANGED stepResults
         \/ /\ Begun(idx) /\ idx \in Steps
            /\ DOMAIN stepResults' = DOMAIN stepResults \cup {idx}
            /\ \A j \in DOMAIN stepResults : j # idx => stepResults'[j] = stepResults[j]
  <2>1. CASE UNCHANGED <<chain, stepResults>>
    BY <2>1
  <2>2. CASE RecordUnawaited \/ PollCompleted
    <3>1. pc \in {"record", "wait"} /\ idx \in Steps
      BY <2>2 DEF RecordUnawaited, PollCompleted, TypeInv, Control, InBody
    <3>2. Begun(idx)
      BY <3>1 DEF Begun
    <3> QED BY <2>2, <3>1, <3>2 DEF RecordUnawaited, PollCompleted, RecordResult
  <2> QED BY <2>1, <2>2, ResultAdded
<1>2. DOMAIN stepResults \subseteq Steps /\ idx \in Nat /\ Steps \subseteq Nat
  BY StepNumbers DEF TypeInv, TypeOK, StateType
<1>3. \A i \in DOMAIN stepResults' : stepResults'[i].run # 0 => Begun(i)'
  BY <1>1, <1>2 DEF InputsInv
<1>4. ASSUME NEW i \in DOMAIN stepInputs, Unbroken(i)'
      PROVE  Unbroken(i)
  <2>0. i \in Steps /\ Begun(i)
    BY DEF InputsInv
  <2>1. i \in Nat /\ i <= idx
    <3>1. i \in Nat
      BY <1>2, <2>0
    <3>2. i < idx \/ i = idx
      BY <2>0 DEF Begun
    <3> QED BY <1>2, <3>1, <3>2
  <2>2. \A j \in 1..(i - 1) : j # idx
    BY <1>2, <2>1
  <2>3. ASSUME NEW j \in 1..(i - 1)
        PROVE  j \in DOMAIN stepResults /\ stepResults[j].run # 0
    <3>1. j \in DOMAIN stepResults' /\ stepResults'[j].run # 0
      BY <1>4 DEF Unbroken
    <3> QED BY <1>1, <2>2, <3>1
  <2> QED BY <1>4, <2>3 DEF Unbroken, SaysPrevious
<1> QED BY <1>1, <1>3, <1>4, ShownStays DEF InputsInv

LEMMA InputsNext ==
  ASSUME TypeInv, InputsInv, [NextWithInputs]_varsWithInputs
  PROVE  InputsInv'
<1>1. CASE NextWithInputs
  <2>1. Next /\ Interpolates
    BY <1>1 DEF NextWithInputs
  <2>2. CASE pc = "begin" /\ pc' = "dispatch" /\ BeginStep
    BY <2>1, <2>2, InputsAtBegin
  <2>3. CASE /\ ~(pc = "begin" /\ pc' = "dispatch")
             /\ \A i \in Steps : Begun(i)' <=> Begun(i)
    BY <2>1, <2>3, InputsStay DEF Interpolates
  <2> QED BY <2>1, <2>2, <2>3, StepsBegin
<1>2. CASE UNCHANGED varsWithInputs
  <2>1. UNCHANGED vars /\ UNCHANGED <<stepInputs, idx, pc>>
    BY <1>2 DEF varsWithInputs, vars
  <2>2. \A i \in Steps : Begun(i)' <=> Begun(i)
    BY <2>1 DEF Begun
  <2> QED BY <2>1, <2>2, InputsStay
<1> QED BY <1>1, <1>2

(* The commands shown before a chain runs and those its steps are           *)
(* dispatched with are computed by two loops over the same templates        *)
(* (ChainConfirmModal.resolveSteps, ChainExecutor.runStep).  They agree for *)
(* every step of a new chain all of whose predecessors have a result, as    *)
(* long as no template says "previous".                                     *)
THEOREM CommandsAreAsShown == SpecWithInputs => []ShownIsSent
<1>1. InitWithInputs => TypeInv /\ InputsInv
  BY InputsInit, TypeInit DEF InitWithInputs
<1>2. TypeInv /\ InputsInv /\ [NextWithInputs]_varsWithInputs => TypeInv' /\ InputsInv'
  <2>1. [NextWithInputs]_varsWithInputs => [Next]_vars
    BY DEF NextWithInputs, varsWithInputs
  <2> QED BY <2>1, TypeNext, InputsNext
<1>3. TypeInv /\ InputsInv => ShownIsSent
  <2>1. SUFFICES ASSUME TypeInv, InputsInv, NEW i \in DOMAIN stepInputs, ~Resumed,
                        \A j \in 1..(i - 1) : j \in DOMAIN stepResults,
                        \A j \in 1..i : ~SaysPrevious(j)
                 PROVE  SentAsShown(i)
    BY DEF ShownIsSent
  <2>2. Unbroken(i)
    BY <2>1 DEF Unbroken, Resumed
  <2>3. stepInputs[i] = Shown[i]
    BY <2>1, <2>2 DEF InputsInv
  <2> QED BY <2>3 DEF SentAsShown
<1> QED BY <1>1, <1>2, <1>3, PTL DEF SpecWithInputs
============================================================================
