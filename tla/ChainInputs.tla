---------------------------- MODULE ChainInputs ----------------------------
(***************************************************************************)
(* ChainExecutor with the inputs its steps are dispatched with: the        *)
(* templates in a chain are filled in step by step, from the variables and *)
(* from the results there are by then, while the commands the user was     *)
(* shown are those that were resolved before the chain was confirmed.      *)
(***************************************************************************)
EXTENDS ChainExecutor, Templates

CONSTANTS
  Inputs,     \* the inputs of the steps, in every chain
  Variables   \* the values given to the chain's variables

ASSUME InputsAssumption ==
  Inputs \in Seq(ToSet(Inputs)) /\ \A c \in Chains : Len(c) <= Len(Inputs)

VARIABLE stepInputs   \* what the inputs of each step were when it began

varsWithInputs == <<vars, stepInputs>>

InitWithInputs == Init /\ stepInputs = <<>>

(* A result restored from history comes without inputs.                     *)
ResultInputs(i) == IF stepResults[i].run = 0 THEN <<>> ELSE stepInputs[i]

Context ==
  InterpolationContext(Variables,
                       {ResultInputs(i) : i \in {idx - 1} \cap DOMAIN stepResults},
                       [i \in DOMAIN stepResults |-> ResultInputs(i)])

(* runStep begins by filling in the templates of the step.                  *)
Interpolates ==
  IF pc = "begin" /\ pc' = "dispatch"
  THEN stepInputs' = [i \in DOMAIN stepInputs \cup {idx} |->
                        IF i = idx THEN InterpolateInputs(Inputs[idx], Context)
                        ELSE stepInputs[i]]
  ELSE UNCHANGED stepInputs

NextWithInputs == Next /\ Interpolates

SpecWithInputs == InitWithInputs /\ [][NextWithInputs]_varsWithInputs /\ Fairness

----------------------------------------------------------------------------
(* Properties *)

Shown == ResolveSteps(SubSeq(Inputs, 1, Len(chain)), Variables)

SentAsShown(i) == BuildArgs(stepInputs[i]) = BuildArgs(Shown[i])

Resumed == \E i \in DOMAIN stepResults : stepResults[i].run = 0

SaysPrevious(i) == \E n \in DOMAIN Inputs[i] : \E p \in DOMAIN Inputs[i][n] :
                     Inputs[i][n][p].kind = "previous"

(* The commands shown and those dispatched are computed by two loops over   *)
(* the same templates, one before the chain runs and one while it does.     *)
(* They agree in a new chain as long as every step before has a result and  *)
(* no template says "previous".                                             *)
ShownIsSent ==
  \A i \in DOMAIN stepInputs :
    /\ ~Resumed
    /\ \A j \in 1..(i - 1) : j \in DOMAIN stepResults
    /\ \A j \in 1..i : ~SaysPrevious(j)
    => SentAsShown(i)

(* "A command preview before anything runs": the steps of a new chain that  *)
(* goes well are dispatched with the commands shown.                        *)
PreviewIsSent ==
  ~Resumed =>
    \A i \in DOMAIN stepInputs : (\A j \in 1..(i - 1) : j \in DOMAIN stepResults) => SentAsShown(i)
=============================================================================
