-------------------------- MODULE MCChainExecutor --------------------------
(***************************************************************************)
(* Small instances of ChainExecutor, with its inputs, for TLC.             *)
(***************************************************************************)
EXTENDS ChainInputs

MCStep(waitFor, onFailure) == [waitFor |-> waitFor, onFailure |-> onFailure]

(* No step, one step of every kind, and two steps, the first of every kind. *)
SecondSteps == {MCStep("success", "abort"), MCStep("none", "skip")}

MCChains ==
  {<<>>} \cup {<<first>> : first \in Step} \cup
  {<<first, second>> : first \in Step, second \in SecondSteps}

MCHistories == {<<[status |-> "running", conclusion |-> "failure"]>>}

MCVariables == [env |-> <<Word("prod")>>, raw |-> <<Var("env")>>]

(* Values of variables, one of which looks like a template, of the step     *)
(* before, of the step itself, and of a variable there is not.              *)
MCInputs ==
  << [env |-> <<Word("to"), Var("env")>>, raw |-> <<Var("raw")>>],
     [env |-> <<StepInput(0, "env"), Var("nobody")>>, raw |-> <<StepInput(0, "raw")>>,
      own |-> <<StepInput(1, "env")>>] >>

(* Two steps in which every failure ends the chain, the second with a value *)
(* of the first.                                                            *)
PreviousChains == {<<MCStep("success", "abort"), MCStep("success", "abort")>>}

PreviousInputs == << [env |-> <<Var("env")>>], [env |-> <<PreviousInput("env")>>] >>
============================================================================
