---------------------------- MODULE ChainPromise ----------------------------
(***************************************************************************)
(* What a chain promises its user (the step options of                     *)
(* internal/config/config.go, as internal/chain/executor.go applies them), *)
(* without channels, polling, program counters or GitHub: steps are begun  *)
(* one at a time, in order, and only past steps that allow it.             *)
(***************************************************************************)
EXTENDS Naturals, Sequences

VARIABLES
  chain,     \* the steps: records with a field onFailure
  outcome,   \* what became of each step
  verdict,   \* what is reported of the chain
  stopped,   \* the user asked to stop
  open       \* the chain is still being worked on

vars == <<chain, outcome, verdict, stopped, open>>

Steps == DOMAIN chain
Final == {"completed", "failed", "skipped"}

(* A step that does not hold up its successors: one with an outcome, or one *)
(* whose on_failure the executor does not know and that met an error.       *)
Passed(i) == outcome[i] \in Final \/ (outcome[i] = "active" /\ chain[i].onFailure = "other")

Aborts(i) == outcome[i] = "failed" /\ chain[i].onFailure = "abort"

Init ==
  /\ outcome = [i \in Steps |-> "pending"]
  /\ verdict = "pending"
  /\ open = TRUE

Start ==
  /\ verdict = "pending"
  /\ verdict' = "running"
  /\ UNCHANGED <<chain, outcome, stopped, open>>

Stop ==
  /\ stopped' = TRUE
  /\ UNCHANGED <<chain, outcome, verdict, open>>

Begin(i) ==
  /\ open = TRUE
  /\ verdict = "running"
  /\ outcome[i] = "pending"
  /\ \A j \in Steps : j < i => Passed(j) /\ ~Aborts(j)
  /\ outcome' = [outcome EXCEPT ![i] = "active"]
  /\ UNCHANGED <<chain, verdict, stopped, open>>

(* An active step gets its outcome; a failure may end the chain at once.    *)
Settle(i) ==
  /\ outcome[i] = "active"
  /\ \/ outcome' = [outcome EXCEPT ![i] = "completed"] /\ UNCHANGED <<verdict, open>>
     \/ /\ chain[i].onFailure = "skip"
        /\ outcome' = [outcome EXCEPT ![i] = "skipped"]
        /\ UNCHANGED <<verdict, open>>
     \/ /\ outcome' = [outcome EXCEPT ![i] = "failed"]
        /\ \/ UNCHANGED <<verdict, open>>
           \/ chain[i].onFailure = "abort" /\ verdict' = "failed" /\ open' = FALSE
  /\ UNCHANGED <<chain, stopped>>

Abort ==
  /\ verdict = "running"
  /\ \E i \in Steps : Aborts(i)
  /\ verdict' = "failed"
  /\ open' = FALSE
  /\ UNCHANGED <<chain, outcome, stopped>>

Complete ==
  /\ verdict = "running"
  /\ \A i \in Steps : Passed(i) /\ ~Aborts(i)
  /\ verdict' = "completed"
  /\ open' = FALSE
  /\ UNCHANGED <<chain, outcome, stopped>>

(* The chain is left with no verdict: after Stop, or on a failed step whose *)
(* on_failure the executor does not know.                                   *)
Leave ==
  /\ open = TRUE
  /\ stopped \/ \E i \in Steps : outcome[i] = "failed" /\ chain[i].onFailure = "other"
  /\ open' = FALSE
  /\ UNCHANGED <<chain, outcome, verdict, stopped>>

Next ==
  \/ Start
  \/ Stop
  \/ \E i \in Steps : Begin(i) \/ Settle(i)
  \/ Abort
  \/ Complete
  \/ Leave

Spec == Init /\ [][Next]_vars
============================================================================
