----------------------------- MODULE Templates -----------------------------
(***************************************************************************)
(* Templates in the inputs of chain steps (internal/chain/template.go),    *)
(* and the commands a chain is shown with before it runs.                  *)
(*                                                                         *)
(* A text is a sequence of parts: words, and what stands between double    *)
(* braces.  A value that is filled in is not read for templates again, but *)
(* a template that is left in it may be resolved where another step takes  *)
(* the value over.  Maps are functions; nil is {}, anything else {x}.      *)
(***************************************************************************)
EXTENDS Naturals, Sequences, SequencesExt

Word(text)          == [kind |-> "word", text |-> text]
Var(key)            == [kind |-> "var", key |-> key]
PreviousInput(key)  == [kind |-> "previous", key |-> key]
StepInput(n, key)   == [kind |-> "steps", step |-> n, key |-> key]

(* InterpolationContext.  Steps are numbered from 1 here, from 0 in the     *)
(* templates.                                                               *)
InterpolationContext(var, previous, steps) ==
  [var |-> var, previous |-> previous, steps |-> steps]

Lookup(map, key) == {map[k] : k \in {key} \cap DOMAIN map}

ResolveVarExpr(part, ctx) == Lookup(ctx.var, part.key)

ResolvePreviousExpr(part, ctx) == UNION {Lookup(inputs, part.key) : inputs \in ctx.previous}

ResolveStepsExpr(part, ctx) ==
  UNION {Lookup(inputs, part.key) : inputs \in Lookup(ctx.steps, part.step + 1)}

Resolve(part, ctx) ==
  CASE part.kind = "var"      -> ResolveVarExpr(part, ctx)
    [] part.kind = "previous" -> ResolvePreviousExpr(part, ctx)
    [] part.kind = "steps"    -> ResolveStepsExpr(part, ctx)
    [] OTHER                  -> {}

(* What does not resolve is left as it is.                                  *)
FilledIn(part, found) == IF found = {} THEN <<part>> ELSE CHOOSE value \in found : TRUE

Interpolate(template, ctx) ==
  FlattenSeq([i \in DOMAIN template |-> FilledIn(template[i], Resolve(template[i], ctx))])

InterpolateInputs(inputs, ctx) == [n \in DOMAIN inputs |-> Interpolate(inputs[n], ctx)]

(* Mutant of ResolveSteps: the steps resolved so far are forgotten.         *)
ResolveStepsAlone(steps, variables) ==
  [i \in DOMAIN steps |-> InterpolateInputs(steps[i], InterpolationContext(variables, {}, <<>>))]

(* What a step's inputs resolve to after the steps before it: previous is   *)
(* set after a step was resolved, for the step after next.                  *)
ResolveStep(steps, variables, resolved, n) ==
  InterpolateInputs(steps[n],
    InterpolationContext(variables, IF n > 2 THEN {resolved[n - 2]} ELSE {}, resolved))

(* resolveSteps of the confirmation modal, and buildChainCommands for the   *)
(* status modal.                                                            *)
ResolveSteps(steps, variables) ==
  LET resolved[n \in 0..Len(steps)] ==
        IF n = 0 THEN <<>>
        ELSE Append(resolved[n - 1], ResolveStep(steps, variables, resolved[n - 1], n))
  IN  resolved[Len(steps)]

(* BuildArgs: an input without a value is not passed on, so that the        *)
(* workflow's own default applies.                                          *)
BuildArgs(inputs) == {<<n, inputs[n]>> : n \in {k \in DOMAIN inputs : inputs[k] # <<>>}}
=============================================================================
