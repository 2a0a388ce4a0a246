------------------------- MODULE WorkflowFormProofs -------------------------
(***************************************************************************)
(* Theorems about WorkflowForm, for all workflows, histories and keys.     *)
(***************************************************************************)
EXTENDS WorkflowForm, SequenceTheorems, WellFoundedInduction, TLAPS

----------------------------------------------------------------------------
(* Sequences of messages *)

Sequence(q) == q \in Seq(ToSet(q))

(* Every message says whether it is late.                                   *)
Stamped(q) == \A i \in DOMAIN q : "late" \in DOMAIN q[i]

AllLate(q) == \A i \in DOMAIN q : "late" \in DOMAIN q[i] /\ q[i].late = TRUE

(* Nothing in flight but messages that were overtaken.                      *)
Quiet(q) == Sequence(q) /\ AllLate(q)

(* A function on 1..n is a sequence.                                        *)
LEMMA FunctionIsSequence ==
  ASSUME NEW n \in Nat, NEW q, q = [i \in 1..n |-> q[i]]
  PROVE  Sequence(q) /\ Len(q) = n
  <1>1. DOMAIN q = 1..n
    OBVIOUS
  <1>2. \A i \in 1..n : q[i] \in ToSet(q)
    BY <1>1 DEF ToSet
  <1>3. q \in [1..n -> ToSet(q)]
    BY <1>2
  <1>. QED  BY <1>3 DEF Sequence

LEMMA SequenceOfItsOwn ==
  ASSUME NEW S, NEW q \in Seq(S)
  PROVE  Sequence(q)
  <1>1. Len(q) \in Nat /\ q = [i \in 1..Len(q) |-> q[i]]
    OBVIOUS
  <1>. QED  BY <1>1, FunctionIsSequence

(* What overtakes the messages makes all of them late.                      *)
LEMMA OvertakenIsQuiet ==
  ASSUME NEW q, Sequence(q), Stamped(q)
  PROVE  Quiet(Overtaken(q)) /\ DOMAIN Overtaken(q) = DOMAIN q
  <1>1. /\ Len(q) \in Nat
        /\ DOMAIN q = 1..Len(q)
    BY DEF Sequence
  <1>2. Overtaken(q) = [i \in 1..Len(q) |-> Overtaken(q)[i]]
    BY <1>1 DEF Overtaken
  <1>3. Sequence(Overtaken(q))
    BY <1>1, <1>2, FunctionIsSequence
  <1>4. AllLate(Overtaken(q))
    BY DEF Overtaken, AllLate, Stamped
  <1>5. DOMAIN Overtaken(q) = DOMAIN q
    BY DEF Overtaken
  <1>. QED  BY <1>3, <1>4, <1>5 DEF Quiet

(* So does the handling of one of them.                                     *)
LEMMA RestIsQuiet ==
  ASSUME NEW q, Sequence(q), Stamped(q), NEW i \in DOMAIN q
  PROVE  Quiet(Overtaken(RemoveAt(q, i)))
  <1>. DEFINE r == RemoveAt(q, i)
  <1>1. /\ Len(q) \in Nat
        /\ DOMAIN q = 1..Len(q)
        /\ i \in 1..Len(q)
    BY DEF Sequence
  <1>2. SubSeq(q, 1, i - 1) \in Seq(ToSet(q)) /\ SubSeq(q, i + 1, Len(q)) \in Seq(ToSet(q))
    BY <1>1 DEF Sequence
  <1>3. r \in Seq(ToSet(q))
    BY <1>2 DEF RemoveAt
  <1>4. \A j \in DOMAIN r : r[j] \in ToSet(q)
    BY <1>3
  <1>5. Stamped(r)
    BY <1>4 DEF Stamped, ToSet
  <1>6. Sequence(r)
    BY <1>3, SequenceOfItsOwn
  <1>. QED  BY <1>5, <1>6, OvertakenIsQuiet

(* A new message follows those it overtakes.                                *)
LEMMA AppendIsStamped ==
  ASSUME NEW q, Quiet(q), NEW msg, "late" \in DOMAIN msg
  PROVE  /\ Sequence(Append(q, msg)) /\ Stamped(Append(q, msg))
         /\ \A m \in ToSet(Append(q, msg)) : m = msg \/ m.late = TRUE
  <1>1. q \in Seq(ToSet(q)) /\ Len(q) \in Nat /\ DOMAIN q = 1..Len(q)
    BY DEF Quiet, Sequence
  <1>. DEFINE S == ToSet(q) \cup {msg}
  <1>0. Append(q, msg) \in Seq(S)
    <2>1. q \in Seq(S)
      BY <1>1
    <2>. QED  BY <2>1
  <1>2. /\ Len(Append(q, msg)) = Len(q) + 1
        /\ DOMAIN Append(q, msg) = 1..(Len(q) + 1)
        /\ \A j \in 1..(Len(q) + 1) :
             Append(q, msg)[j] = IF j = Len(q) + 1 THEN msg ELSE q[j]
    BY <1>1
  <1>4. Sequence(Append(q, msg))
    BY <1>0, SequenceOfItsOwn
  <1>5. \A j \in 1..(Len(q) + 1) :
          Append(q, msg)[j] = msg
            \/ ("late" \in DOMAIN Append(q, msg)[j] /\ Append(q, msg)[j].late = TRUE)
    BY <1>1, <1>2 DEF Quiet, AllLate
  <1>6. Stamped(Append(q, msg))
    BY <1>2, <1>5 DEF Stamped
  <1>7. \A m \in ToSet(Append(q, msg)) : m = msg \/ m.late = TRUE
    BY <1>2, <1>5 DEF ToSet
  <1>. QED  BY <1>4, <1>6, <1>7

----------------------------------------------------------------------------
(* Loops *)

(* A set of naturals has a least one.                                       *)
LEMMA LeastNumber ==
  ASSUME NEW T, T \subseteq Nat, T # {}
  PROVE  \E least \in T : \A n \in T : least <= n
  <1>1. PICK least \in T : \A n \in T : <<n, least>> \notin OpToRel(<, Nat)
    BY NatLessThanWellFounded, WFMin
  <1>2. \A n \in T : ~(n < least)
    BY <1>1 DEF OpToRel
  <1>. QED  BY <1>2

(* Induction over the naturals, for a set.                                  *)
LEMMA Induction ==
  ASSUME NEW G, 0 \in G, \A n \in Nat : n \in G => n + 1 \in G
  PROVE  Nat \subseteq G
  <1>. SUFFICES ASSUME Nat \ G # {} PROVE FALSE
    OBVIOUS
  <1>1. PICK least \in Nat \ G : \A n \in Nat \ G : least <= n
    BY LeastNumber
  <1>2. least # 0 /\ least - 1 \in Nat
    BY <1>1
  <1>3. least - 1 \in G
    BY <1>1, <1>2
  <1>4. (least - 1) + 1 = least
    BY <1>2
  <1>. QED  BY <1>1, <1>2, <1>3, <1>4

(* What a loop has computed after n rounds: the value it starts with, and   *)
(* what each round makes of the value before.                               *)
Rounds(base, step, n, f) ==
  /\ DOMAIN f = 0..n
  /\ f[0] = base
  /\ \A m \in 1..n : f[m] = step[m][f[m - 1]]

(* A loop computes something.                                               *)
LEMMA LoopComputes ==
  ASSUME NEW S, NEW base \in S, NEW size \in Nat, NEW step,
         \A m \in 1..size : \A s \in S : step[m][s] \in S
  PROVE  \E f \in [0..size -> S] : Rounds(base, step, size, f)
  <1>. DEFINE Solved(n) == \E f \in [0..n -> S] : Rounds(base, step, n, f)
              G == {n \in Nat : n <= size => Solved(n)}
  <1>1. 0 \in G
    <2>. DEFINE f == [m \in 0..0 |-> base]
    <2>1. f \in [0..0 -> S] /\ Rounds(base, step, 0, f)
      BY DEF Rounds
    <2>. QED  BY <2>1
  <1>2. ASSUME NEW n \in Nat, n \in G
        PROVE  n + 1 \in G
    <2>. SUFFICES ASSUME n + 1 <= size
                  PROVE  Solved(n + 1)
      OBVIOUS
    <2>1. PICK f \in [0..n -> S] : Rounds(base, step, n, f)
      BY <1>2
    <2>. DEFINE new == step[n + 1][f[n]]
                g   == [m \in 0..(n + 1) |-> IF m = n + 1 THEN new ELSE f[m]]
    <2>2. new \in S
      <3>1. n + 1 \in 1..size /\ f[n] \in S
        BY <2>1
      <3>. QED  BY <3>1
    <2>. HIDE DEF new
    <2>3. g \in [0..(n + 1) -> S] /\ DOMAIN g = 0..(n + 1)
      BY <2>2
    <2>4. g[0] = base
      BY <2>1 DEF Rounds
    <2>5. ASSUME NEW m \in 1..(n + 1)
          PROVE  g[m] = step[m][g[m - 1]]
      <3>1. CASE m = n + 1
        <4>1. g[m] = new /\ g[m - 1] = f[n]
          BY <3>1
        <4>. QED  BY <3>1, <4>1 DEF new
      <3>2. CASE m \in 1..n
        <4>1. g[m] = f[m] /\ g[m - 1] = f[m - 1]
          BY <3>2
        <4>. QED  BY <2>1, <3>2, <4>1 DEF Rounds
      <3>. QED  BY <3>1, <3>2
    <2>. HIDE DEF g
    <2>6. Rounds(base, step, n + 1, g)
      BY <2>3, <2>4, <2>5 DEF Rounds
    <2>. QED  BY <2>3, <2>6
  <1>. HIDE DEF G
  <1>3. size \in G
    BY <1>1, <1>2, Induction
  <1>. HIDE DEF Solved
  <1>4. Solved(size)
    BY <1>3 DEF G
  <1>. QED  BY <1>4 DEF Solved

(* What the rounds keep, they keep to the end.                              *)
LEMMA LoopKeeps ==
  ASSUME NEW size \in Nat, NEW T, 0 \in T, \A n \in 1..size : n - 1 \in T => n \in T
  PROVE  size \in T
  <1>. DEFINE G == {n \in Nat : n <= size => n \in T}
  <1>1. 0 \in G
    OBVIOUS
  <1>2. ASSUME NEW n \in Nat, n \in G
        PROVE  n + 1 \in G
    <2>1. CASE n + 1 <= size
      <3>1. n \in T /\ n + 1 \in 1..size /\ (n + 1) - 1 = n
        BY <1>2, <2>1
      <3>. QED  BY <3>1
    <2>. QED  BY <2>1
  <1>. HIDE DEF G
  <1>3. size \in G
    BY <1>1, <1>2, Induction
  <1>. QED  BY <1>3 DEF G

(* Only does what its loop does.                                            *)
LEMMA OnlyIsLoop ==
  ASSUME NEW S, NEW list \in Seq(S), NEW kept
  PROVE  \E upTo : /\ Only(list, kept) = upTo[Len(list)]
                   /\ upTo[0] = <<>>
                   /\ \A n \in 1..Len(list) :
                        upTo[n] = IF list[n] \in kept THEN Append(upTo[n - 1], list[n])
                                  ELSE upTo[n - 1]
  <1>. DEFINE Is(g) == g = [n \in 0..Len(list) |->
                IF n = 0 THEN <<>>
                ELSE IF list[n] \in kept THEN Append(g[n - 1], list[n])
                ELSE g[n - 1]]
              upTo == CHOOSE g : Is(g)
  <1>1. Only(list, kept) = upTo[Len(list)]
    BY DEF Only
  <1>2. \E g : Is(g)
    <2>. DEFINE step == [n \in 1..Len(list) |->
                  [s \in Seq(S) |-> IF list[n] \in kept THEN Append(s, list[n]) ELSE s]]
    <2>0. Len(list) \in Nat /\ <<>> \in Seq(S) /\ \A n \in 1..Len(list) : list[n] \in S
      OBVIOUS
    <2>1. \A n \in 1..Len(list) : \A s \in Seq(S) :
            /\ step[n][s] = IF list[n] \in kept THEN Append(s, list[n]) ELSE s
            /\ step[n][s] \in Seq(S)
      BY <2>0
    <2>. HIDE DEF step
    <2>2. PICK g \in [0..Len(list) -> Seq(S)] : Rounds(<<>>, step, Len(list), g)
      BY <2>0, <2>1, LoopComputes
    <2>3. ASSUME NEW n \in 0..Len(list)
          PROVE  g[n] = IF n = 0 THEN <<>>
                        ELSE IF list[n] \in kept THEN Append(g[n - 1], list[n])
                        ELSE g[n - 1]
      <3>1. CASE n = 0
        BY <2>2, <3>1 DEF Rounds
      <3>2. CASE n # 0
        <4>1. n \in 1..Len(list) /\ n - 1 \in 0..Len(list)
          BY <2>0, <3>2
        <4>2. g[n] = step[n][g[n - 1]] /\ g[n - 1] \in Seq(S)
          BY <2>2, <4>1 DEF Rounds
        <4>. QED  BY <2>1, <3>2, <4>1, <4>2
      <3>. QED  BY <3>1, <3>2
    <2>4. Is(g)
      BY <2>3
    <2>. QED  BY <2>4
  <1>3. Is(upTo)
    <2>. HIDE DEF Is
    <2>. QED  BY <1>2
  <1>. HIDE DEF upTo
  <1>4. upTo[0] = <<>>
    BY <1>3
  <1>5. ASSUME NEW n \in 1..Len(list)
        PROVE  upTo[n] = IF list[n] \in kept THEN Append(upTo[n - 1], list[n])
                         ELSE upTo[n - 1]
    <2>1. n \in 0..Len(list) /\ n # 0
      OBVIOUS
    <2>. QED  BY <1>3, <2>1
  <1>. QED  BY <1>1, <1>4, <1>5

(* Only keeps members of the list.                                          *)
LEMMA OnlyKeepsMembers ==
  ASSUME NEW S, NEW list \in Seq(S), NEW kept
  PROVE  Only(list, kept) \in Seq(S \cap kept)
  <1>1. PICK upTo : /\ Only(list, kept) = upTo[Len(list)]
                    /\ upTo[0] = <<>>
                    /\ \A n \in 1..Len(list) :
                         upTo[n] = IF list[n] \in kept THEN Append(upTo[n - 1], list[n])
                                   ELSE upTo[n - 1]
    BY OnlyIsLoop
  <1>. DEFINE T == {n \in 0..Len(list) : upTo[n] \in Seq(S \cap kept)}
  <1>2. Len(list) \in Nat /\ \A n \in 1..Len(list) : list[n] \in S
    OBVIOUS
  <1>3. 0 \in T
    <2>1. <<>> \in Seq(S \cap kept) /\ 0 \in 0..Len(list)
      BY <1>2
    <2>. QED  BY <1>1, <2>1
  <1>4. ASSUME NEW n \in 1..Len(list), n - 1 \in T
        PROVE  n \in T
    <2>1. n \in 0..Len(list) /\ upTo[n - 1] \in Seq(S \cap kept) /\ list[n] \in S
      BY <1>2, <1>4
    <2>2. CASE list[n] \in kept
      <3>1. upTo[n] = Append(upTo[n - 1], list[n])
        BY <1>1, <2>2
      <3>2. list[n] \in S \cap kept
        BY <2>1, <2>2
      <3>3. Append(upTo[n - 1], list[n]) \in Seq(S \cap kept)
        BY <2>1, <3>2
      <3>. QED  BY <2>1, <3>1, <3>3
    <2>3. CASE list[n] \notin kept
      <3>1. upTo[n] = upTo[n - 1]
        BY <1>1, <2>3
      <3>. QED  BY <2>1, <3>1
    <2>. QED  BY <2>2, <2>3
  <1>. HIDE DEF T
  <1>5. Len(list) \in T
    BY <1>2, <1>3, <1>4, LoopKeeps
  <1>. QED  BY <1>1, <1>5 DEF T

----------------------------------------------------------------------------
(* The inductive invariant *)

(* The input that is asked for is the one an answer will be assigned to.    *)
QuestionIsPending == modal.kind = "input" => modal.name = pendingInputName

(* The errors on screen are those of the form.                              *)
FaultsAreShown ==
  modal.kind = "validation" => InvalidInputs(selectedWorkflow, inputs) \subseteq modal.invalid

ConfirmIsValidated == modal.kind = "run" => Waived(modal)

ModalInv ==
  "kind" \in DOMAIN modal /\ QuestionIsPending /\ FaultsAreShown /\ ConfirmIsValidated

(* Errors that are passed over are those of the form, unless it was changed *)
(* since.                                                                   *)
OverridesAreShown ==
  \A msg \in Sent : msg.kind = "override" /\ ~msg.late =>
    InvalidInputs(selectedWorkflow, inputs) \subseteq msg.waived

SentAreValidated ==
  \A msg \in Sent : msg.kind = "run" /\ ~msg.late => Waived(msg.config)

MessageInv ==
  /\ Sequence(inFlight) /\ Stamped(inFlight)
  /\ AnswersMeetTheirQuestion /\ OverridesAreShown /\ SentAreValidated

(* A preview with a place in the list is what stands there, also while it   *)
(* is off screen.                                                           *)
PreviewInv ==
  /\ {"at", "entry"} \subseteq DOMAIN previewing /\ previewing.at \in Int
  /\ previewing.at > 0 =>
       previewing.at \in DOMAIN entries /\ previewing.entry = entries[previewing.at]
  /\ viewMode = "preview" => previewing.at > 0

IndexInv ==
  /\ Sequence(entries) /\ selectedEntry \in Nat \ {0}
  /\ selectedWorkflow \in All..Len(Workflows)

IInv == ModalInv /\ MessageInv /\ PreviewInv /\ IndexInv

----------------------------------------------------------------------------
(* The modals *)

(* Modals that ask for no input and no consent.                             *)
LEMMA OtherModals ==
  ASSUME "kind" \in DOMAIN modal', modal'.kind \notin {"input", "validation", "run"}
  PROVE  ModalInv'
  BY DEF ModalInv, QuestionIsPending, FaultsAreShown, ConfirmIsValidated

LEMMA NoModalIsOther ==
  ASSUME modal' = NoModal
  PROVE  ModalInv'
  BY OtherModals DEF NoModal

(* executeWorkflow shows the errors of the form, or asks for consent when   *)
(* there are none.                                                          *)
LEMMA ExecuteShowsFaults ==
  ASSUME NEW map, NEW ref, ExecuteWorkflow(map, ref), map = inputs', UNCHANGED selectedWorkflow
  PROVE  ModalInv'
  <1>1. CASE selectedWorkflow = All
    BY <1>1, NoModalIsOther DEF ExecuteWorkflow
  <1>. DEFINE invalid == InvalidInputs(selectedWorkflow, map)
  <1>2. CASE selectedWorkflow # All /\ invalid # {}
    <2>1. modal' = [kind |-> "validation", invalid |-> invalid]
      BY <1>2 DEF ExecuteWorkflow
    <2>. QED  BY <2>1 DEF ModalInv, QuestionIsPending, FaultsAreShown, ConfirmIsValidated
  <1>3. CASE selectedWorkflow # All /\ invalid = {}
    <2>1. modal' = RunConfirm(selectedWorkflow, map, ref, {}, FALSE)
      BY <1>3 DEF ExecuteWorkflow
    <2>2. Waived(modal')
      BY <1>3, <2>1 DEF RunConfirm, Waived
    <2>. QED  BY <2>1, <2>2 DEF RunConfirm, ModalInv, QuestionIsPending, FaultsAreShown, ConfirmIsValidated
  <1>. QED  BY <1>1, <1>2, <1>3

LEMMA ModalAfterKey ==
  ASSUME ModalInv, NEW k, PressKey(k)
  PROVE  ModalInv'
  <1>1. CASE \/ MovesFocus(k) \/ CyclesTabs(k) \/ HandleEscapeKey(k) \/ SelectsEntry(k)
             \/ SelectsInput(k)
    BY <1>1, NoModalIsOther
       DEF MovesFocus, CyclesTabs, HandleEscapeKey, SelectsEntry, SelectsInput, Key, Running
  <1>2. CASE SelectsWorkflow(k)
    BY <1>2, NoModalIsOther DEF SelectsWorkflow, Running
  <1>3. CASE PreviewsEntry(k)
    BY <1>3, NoModalIsOther DEF PreviewsEntry, EnterInHistory, Running
  <1>4. CASE OpensOther(k)
    BY <1>4, OtherModals DEF OpensOther
  <1>5. CASE EnterInConfig(k)
    BY <1>5, ExecuteShowsFaults DEF EnterInConfig, values, selection
  <1>6. CASE ReplaysEntry(k)
    BY <1>6, ExecuteShowsFaults DEF ReplaysEntry, selection
  <1>7. CASE EditsInput(k)
    <2>1. PICK name : OpenInputModal(name)
      BY <1>7 DEF EditsInput, OpenInputModalFiltered
    <2>2. CASE UNCHANGED modal
      BY <1>7, <2>2, NoModalIsOther DEF EditsInput, Key, Running
    <2>3. CASE pendingInputName' = name /\ modal' = [kind |-> "input", name |-> name]
      BY <2>3 DEF ModalInv, QuestionIsPending, FaultsAreShown, ConfirmIsValidated
    <2>. QED  BY <2>1, <2>2, <2>3 DEF OpenInputModal, Panics
  <1>8. CASE ConfigPaneAction(k)
    <2>1. \/ UNCHANGED modal
          \/ modal' = [kind |-> "filter"]
          \/ modal' = [kind |-> "reset", empty |-> Diffs = {}]
      BY <1>8 DEF ConfigPaneAction, Panics
    <2>2. modal = NoModal
      BY <1>8 DEF ConfigPaneAction, Key, Running
    <2>. QED  BY <2>1, <2>2, OtherModals, NoModalIsOther
  <1>9. CASE OpenBranchModal(k)
    BY <1>9, OtherModals DEF OpenBranchModal
  <1>10. CASE OpenRemapModal(k)
    <2>1. modal'.kind = "remap" /\ "kind" \in DOMAIN modal'
      BY <1>10 DEF OpenRemapModal
    <2>. QED  BY <2>1, OtherModals
  <1>. QED
    BY <1>1, <1>2, <1>3, <1>4, <1>5, <1>6, <1>7, <1>8, <1>9, <1>10 DEF PressKey

LEMMA ModalAfterAnswer ==
  ASSUME ModalInv, AnswerModal
  PROVE  ModalInv'
  <1>1. CASE modal' = NoModal
    BY <1>1, NoModalIsOther
  <1>2. CASE SelectOption /\ modal' # NoModal
    <2>1. /\ modal.kind = "remap"
          /\ \E decisions, rest :
               modal' = [modal EXCEPT !.decisions = decisions, !.errors = rest]
      BY <1>2 DEF SelectOption, CloseAndSend, Close, On
    <2>2. modal'.kind = "remap" /\ "kind" \in DOMAIN modal'
      BY <2>1 DEF ModalInv
    <2>. QED  BY <2>2, OtherModals
  <1>. QED
    BY <1>1, <1>2 DEF AnswerModal, CloseModal, AnswerInput, AnswerBranch, AnswerFilter,
       AnswerReset, Override, AnswerRunConfirm, CloseAndSend, Close

LEMMA ModalAfterMessage ==
  ASSUME ModalInv, MessageInv, NEW i \in DOMAIN inFlight, HandleMessage(i)
  PROVE  ModalInv'
  <1>1. CASE LosesMessage(i)
    BY <1>1 DEF LosesMessage, values, selection, ModalInv, QuestionIsPending, FaultsAreShown,
       ConfirmIsValidated
  <1>2. CASE HandleValidationErrorResult(i)
    <2>1. CASE selectedWorkflow = All
      BY <1>2, <2>1, NoModalIsOther DEF HandleValidationErrorResult
    <2>2. CASE selectedWorkflow # All
      <3>1. modal' = RunConfirm(selectedWorkflow, inputs, branch, inFlight[i].waived,
                                inFlight[i].late)
        BY <1>2, <2>2 DEF HandleValidationErrorResult
      <3>2. inFlight[i] \in Sent /\ inFlight[i].kind = "override"
        BY <1>2 DEF HandleValidationErrorResult, Handles, Sent, ToSet
      <3>3. inFlight[i].late
              \/ InvalidInputs(selectedWorkflow, inputs) \subseteq inFlight[i].waived
        BY <3>2 DEF MessageInv, OverridesAreShown
      <3>4. Waived(modal')
        BY <3>1, <3>3 DEF RunConfirm, Waived
      <3>. QED
        BY <3>1, <3>4 DEF RunConfirm, ModalInv, QuestionIsPending, FaultsAreShown,
           ConfirmIsValidated
    <2>. QED  BY <2>1, <2>2
  <1>3. CASE ~LosesMessage(i) /\ ~HandleValidationErrorResult(i)
    BY <1>3, NoModalIsOther DEF HandleMessage, HandleAnswer, HandleBranchResult, HandleFilterResult,
       HandleResetResult, HandleRemapResult, HandleRunConfirmResult, Handles, Running
  <1>. QED  BY <1>1, <1>2, <1>3

----------------------------------------------------------------------------
(* The messages *)

LEMMA QuietIsEnough ==
  ASSUME Quiet(inFlight)'
  PROVE  MessageInv'
  <1>1. \A msg \in Sent' : msg.late = TRUE
    BY DEF Quiet, AllLate, Sent, ToSet
  <1>2. Sequence(inFlight') /\ Stamped(inFlight')
    BY DEF Quiet, AllLate, Stamped
  <1>. QED
    BY <1>1, <1>2 DEF MessageInv, AnswersMeetTheirQuestion, OverridesAreShown, SentAreValidated

LEMMA PassedByIsQuiet ==
  ASSUME MessageInv, KeyPassesBy
  PROVE  Quiet(inFlight)'
  BY OvertakenIsQuiet DEF MessageInv, KeyPassesBy

LEMMA NewMapIsQuiet ==
  ASSUME MessageInv, NEW map, NewMap(map)
  PROVE  Quiet(inFlight)'
  <1>1. Len(inFlight) \in Nat /\ DOMAIN inFlight = 1..Len(inFlight)
    BY DEF MessageInv, Sequence
  <1>2. inFlight' = [i \in DOMAIN inFlight |-> inFlight'[i]]
    BY DEF NewMap
  <1>3. \A i \in DOMAIN inFlight : "late" \in DOMAIN inFlight'[i] /\ inFlight'[i].late = TRUE
    <2>1. TAKE i \in DOMAIN inFlight
    <2>2. "late" \in DOMAIN inFlight[i]
      BY DEF MessageInv, Stamped
    <2>3. \/ inFlight'[i] = [inFlight[i] EXCEPT !.late = TRUE, !.shared = FALSE]
          \/ inFlight'[i] = [inFlight[i] EXCEPT !.late = TRUE]
      BY DEF NewMap
    <2>. QED  BY <2>2, <2>3
  <1>4. Sequence(inFlight')
    BY <1>1, <1>2, FunctionIsSequence
  <1>. QED  BY <1>2, <1>3, <1>4 DEF Quiet, AllLate

LEMMA WriteInputsIsQuiet ==
  ASSUME MessageInv, NEW i \in DOMAIN inFlight, NEW map, WriteInputs(i, map)
  PROVE  Quiet(inFlight)'
  <1>1. Quiet(Rest(i))
    BY RestIsQuiet DEF MessageInv, Rest
  <1>2. Len(Rest(i)) \in Nat /\ DOMAIN Rest(i) = 1..Len(Rest(i))
    BY <1>1 DEF Quiet, Sequence
  <1>3. inFlight' = [j \in DOMAIN Rest(i) |-> inFlight'[j]]
    BY DEF WriteInputs
  <1>4. \A j \in DOMAIN Rest(i) : "late" \in DOMAIN inFlight'[j] /\ inFlight'[j].late = TRUE
    <2>1. TAKE j \in DOMAIN Rest(i)
    <2>2. "late" \in DOMAIN Rest(i)[j] /\ Rest(i)[j].late = TRUE
      BY <1>1 DEF Quiet, AllLate
    <2>3. \/ inFlight'[j] = [Rest(i)[j] EXCEPT !.config.inputs = map]
          \/ inFlight'[j] = Rest(i)[j]
      BY DEF WriteInputs
    <2>. QED  BY <2>2, <2>3
  <1>5. Sequence(inFlight')
    BY <1>2, <1>3, FunctionIsSequence
  <1>. QED  BY <1>3, <1>4, <1>5 DEF Quiet, AllLate

LEMMA MessagesAfterKey ==
  ASSUME MessageInv, NEW k, PressKey(k)
  PROVE  MessageInv'
  <1>1. CASE KeyPassesBy
    BY <1>1, PassedByIsQuiet, QuietIsEnough
  <1>2. CASE \E map : NewMap(map)
    BY <1>2, NewMapIsQuiet, QuietIsEnough
  <1>3. CASE SelectsWorkflow(k)
    BY <1>1, <1>2, <1>3 DEF SelectsWorkflow, InitializeInputs
  <1>4. CASE ReplaysEntry(k)
    BY <1>2, <1>4 DEF ReplaysEntry
  <1>5. CASE ~SelectsWorkflow(k) /\ ~ReplaysEntry(k)
    BY <1>1, <1>5 DEF PressKey, MovesFocus, CyclesTabs, OpensOther, HandleEscapeKey, SelectsEntry,
       SelectsInput, EnterInConfig, PreviewsEntry, EditsInput, ConfigPaneAction, OpenBranchModal,
       OpenRemapModal, Key
  <1>. QED  BY <1>3, <1>4, <1>5

(* A message that says what it must, unless it is late, may be sent.        *)
LEMMA SendingKeepsMessages ==
  ASSUME MessageInv, NEW msg, CloseAndSend(msg), "late" \in DOMAIN msg,
         msg.kind = "answer" => msg.asked = pendingInputName,
         msg.kind = "override" => InvalidInputs(selectedWorkflow, inputs) \subseteq msg.waived,
         msg.kind = "run" => Waived(msg.config)
  PROVE  MessageInv'
  <1>1. Quiet(Overtaken(inFlight))
    BY OvertakenIsQuiet DEF MessageInv
  <1>2. inFlight' = Append(Overtaken(inFlight), msg)
    BY DEF CloseAndSend
  <1>3. /\ Sequence(inFlight') /\ Stamped(inFlight')
        /\ \A m \in ToSet(inFlight') : m = msg \/ m.late = TRUE
    BY <1>1, <1>2, AppendIsStamped
  <1>4. UNCHANGED <<pendingInputName, inputs, selectedWorkflow>>
    BY DEF CloseAndSend, Close, values, selection
  <1>. QED
    BY <1>3, <1>4 DEF Sent, MessageInv, AnswersMeetTheirQuestion, OverridesAreShown,
       SentAreValidated

LEMMA MessagesAfterAnswer ==
  ASSUME MessageInv, ModalInv, AnswerModal
  PROVE  MessageInv'
  <1>1. CASE KeyPassesBy
    BY <1>1, PassedByIsQuiet, QuietIsEnough
  <1>2. CASE AnswerInput
    <2>1. PICK value : CloseAndSend([kind |-> "answer", value |-> value, asked |-> modal.name,
                                     late |-> FALSE])
      BY <1>2 DEF AnswerInput
    <2>2. modal.name = pendingInputName
      BY <1>2 DEF AnswerInput, On, ModalInv, QuestionIsPending
    <2>. QED  BY <2>1, <2>2, SendingKeepsMessages
  <1>3. CASE AnswerBranch
    <2>1. PICK ref : CloseAndSend([kind |-> "branch", branch |-> ref, late |-> FALSE])
      BY <1>3 DEF AnswerBranch
    <2>. QED  BY <2>1, SendingKeepsMessages
  <1>4. CASE AnswerFilter
    <2>1. PICK text : CloseAndSend([kind |-> "filter", text |-> text, late |-> FALSE])
      BY <1>4 DEF AnswerFilter
    <2>. QED  BY <2>1, SendingKeepsMessages
  <1>5. CASE AnswerReset
    <2>1. CloseAndSend([kind |-> "reset", late |-> FALSE])
      BY <1>5 DEF AnswerReset
    <2>. QED  BY <2>1, SendingKeepsMessages
  <1>6. CASE Override
    <2>1. CloseAndSend([kind |-> "override", waived |-> modal.invalid, late |-> FALSE])
      BY <1>6 DEF Override
    <2>2. InvalidInputs(selectedWorkflow, inputs) \subseteq modal.invalid
      BY <1>6 DEF Override, On, ModalInv, FaultsAreShown
    <2>. QED  BY <2>1, <2>2, SendingKeepsMessages
  <1>7. CASE AnswerRunConfirm
    <2>1. CloseAndSend([kind |-> "run", config |-> modal, shared |-> TRUE, late |-> FALSE])
      BY <1>7 DEF AnswerRunConfirm
    <2>2. Waived(modal)
      BY <1>7 DEF AnswerRunConfirm, On, ModalInv, ConfirmIsValidated
    <2>. QED  BY <2>1, <2>2, SendingKeepsMessages
  <1>8. CASE SelectOption
    <2>1. CASE \E decisions :
                 CloseAndSend([kind |-> "remap", decisions |-> decisions, late |-> FALSE])
      BY <2>1, SendingKeepsMessages
    <2>. QED  BY <1>1, <1>8, <2>1 DEF SelectOption
  <1>9. CASE CloseModal
    BY <1>1, <1>9 DEF CloseModal
  <1>. QED  BY <1>2, <1>3, <1>4, <1>5, <1>6, <1>7, <1>8, <1>9 DEF AnswerModal

LEMMA MessagesAfterMessage ==
  ASSUME MessageInv, NEW i \in DOMAIN inFlight, HandleMessage(i)
  PROVE  MessageInv'
  <1>1. CASE inFlight' = Rest(i)
    BY <1>1, RestIsQuiet, QuietIsEnough DEF MessageInv, Rest
  <1>2. CASE \E map : WriteInputs(i, map)
    BY <1>2, WriteInputsIsQuiet, QuietIsEnough
  <1>3. CASE HandleAnswer(i)
    BY <1>1, <1>2, <1>3 DEF HandleAnswer
  <1>4. CASE HandleResetResult(i)
    BY <1>1, <1>2, <1>4 DEF HandleResetResult
  <1>5. CASE ~HandleAnswer(i) /\ ~HandleResetResult(i)
    BY <1>1, <1>5 DEF HandleMessage, LosesMessage, HandleBranchResult, HandleFilterResult,
       HandleRemapResult, HandleValidationErrorResult, HandleRunConfirmResult, Rest
  <1>. QED  BY <1>3, <1>4, <1>5

----------------------------------------------------------------------------
(* The preview and the lists *)

LEMMA SetEntriesKeepsIndex ==
  ASSUME IndexInv, NEW w \in DOMAIN Workflows, NEW list \in Histories[w], SetEntries(list)
  PROVE  Sequence(entries') /\ selectedEntry' \in Nat \ {0}
  <1>1. list \in Seq(ToSet(list))
    BY WorkflowsAssumption
  <1>2. Len(list) \in Nat /\ (list # <<>> => Len(list) # 0)
    BY <1>1
  <1>. QED  BY <1>1, <1>2 DEF SetEntries, IndexInv, Sequence

LEMMA WorkflowsAreIndexed ==
  /\ Len(Workflows) \in Nat \ {0}
  /\ DOMAIN Workflows = 1..Len(Workflows)
  <1>. DEFINE S == ToSet(Workflows)
  <1>1. Workflows \in Seq(S) /\ Workflows # <<>>
    BY WorkflowsAssumption
  <1>. HIDE DEF S
  <1>2. Len(Workflows) \in Nat /\ DOMAIN Workflows = 1..Len(Workflows) /\ Len(Workflows) # 0
    BY <1>1
  <1>. QED  BY <1>2

(* There is nothing in no preview.                                          *)
LEMMA NoPreviewIsNowhere ==
  ASSUME previewing' = NoPreview, viewMode' # "preview"
  PROVE  PreviewInv'
  <1>1. NoPreview.at = -1 /\ {"at", "entry"} \subseteq DOMAIN NoPreview
    BY DEF NoPreview
  <1>2. -1 \in Int /\ ~(-1 > 0)
    OBVIOUS
  <1>. QED  BY <1>1, <1>2 DEF PreviewInv

(* Another workflow: the preview belongs to no place in the list any more.  *)
LEMMA PreviewAfterSelection ==
  ASSUME PreviewInv, IndexInv, NEW k, SelectsWorkflow(k)
  PROVE  PreviewInv' /\ IndexInv'
  <1>1. Len(Workflows) \in Nat /\ DOMAIN Workflows = 1..Len(Workflows)
    BY WorkflowsAreIndexed
  <1>2. selectedWorkflow' \in All..Len(Workflows)
    BY <1>1 DEF SelectsWorkflow, IndexInv, All
  <1>3. CASE selectedWorkflow' = All
    <2>1. UNCHANGED <<entries, selectedEntry, previewing, viewMode>>
      BY <1>3 DEF SelectsWorkflow, shown
    <2>. QED  BY <1>2, <2>1 DEF PreviewInv, IndexInv
  <1>4. CASE selectedWorkflow' # All
    <2>1. InitializeInputs(selectedWorkflow') /\ selectedWorkflow' \in DOMAIN Workflows
      BY <1>1, <1>2, <1>4 DEF SelectsWorkflow, All
    <2>2. PICK list \in Histories[selectedWorkflow'] : SetEntries(list)
      BY <2>1 DEF InitializeInputs
    <2>3. Sequence(entries') /\ selectedEntry' \in Nat \ {0}
      BY <2>1, <2>2, SetEntriesKeepsIndex
    <2>4. viewMode' = "list"
      BY <2>1 DEF InitializeInputs
    <2>5. /\ \/ previewing' = [previewing EXCEPT !.at = 0]
             \/ ~(previewing.at > 0) /\ previewing' = [previewing EXCEPT !.at = previewing.at]
      BY <2>1 DEF InitializeInputs
    <2>6. {"at", "entry"} \subseteq DOMAIN previewing' /\ previewing'.at \in Int
          /\ ~(previewing'.at > 0)
      BY <2>5 DEF PreviewInv
    <2>. QED  BY <1>2, <2>3, <2>4, <2>6 DEF PreviewInv, IndexInv
  <1>. QED  BY <1>3, <1>4

(* The wizard edits the preview and its place in the list alike.            *)
LEMMA PreviewAfterRemap ==
  ASSUME PreviewInv, IndexInv, NEW i \in DOMAIN inFlight, HandleRemapResult(i)
  PROVE  PreviewInv' /\ IndexInv'
  <1>1. UNCHANGED <<viewMode, selectedEntry, selectedWorkflow>>
    BY DEF HandleRemapResult
  <1>2. CASE previewing = NoPreview
    BY <1>1, <1>2 DEF HandleRemapResult, PreviewInv, IndexInv
  <1>3. CASE previewing # NoPreview
    <2>. DEFINE remapped == Decided(previewing.entry.inputs, inFlight[i].decisions)
                entry    == [previewing.entry EXCEPT !.inputs = remapped]
    <2>1. previewing' = [previewing EXCEPT !.entry = entry]
      BY <1>3 DEF HandleRemapResult
    <2>2. /\ {"at", "entry"} \subseteq DOMAIN previewing'
          /\ previewing'.at = previewing.at
          /\ previewing'.entry = entry
      BY <2>1 DEF PreviewInv
    <2>3. CASE previewing.at < 1
      <3>1. entries' = entries
        BY <1>3, <2>3 DEF HandleRemapResult
      <3>. QED  BY <1>1, <2>2, <2>3, <3>1 DEF PreviewInv, IndexInv
    <2>4. CASE ~(previewing.at < 1)
      <3>. DEFINE at == previewing.at
      <3>1. at \in DOMAIN entries /\ previewing.entry = entries[at]
        BY <2>4 DEF PreviewInv
      <3>2. entries' = [entries EXCEPT ![at] = [entries[at] EXCEPT !.inputs = remapped]]
        BY <1>3, <2>4 DEF HandleRemapResult
      <3>3. DOMAIN entries' = DOMAIN entries /\ entries'[at] = entry
        BY <3>1, <3>2
      <3>4. Len(entries) \in Nat /\ DOMAIN entries = 1..Len(entries)
        BY DEF IndexInv, Sequence
      <3>5. entries' = [j \in 1..Len(entries) |-> entries'[j]]
        BY <3>2, <3>4
      <3>6. Sequence(entries')
        BY <3>4, <3>5, FunctionIsSequence
      <3>. QED  BY <1>1, <2>2, <2>4, <3>1, <3>3, <3>6 DEF PreviewInv, IndexInv
    <2>. QED  BY <2>3, <2>4
  <1>. QED  BY <1>2, <1>3

LEMMA PreviewAfterKey ==
  ASSUME PreviewInv, IndexInv, NEW k, PressKey(k)
  PROVE  PreviewInv' /\ IndexInv'
  <1>1. CASE UNCHANGED <<selection, shown>>
    BY <1>1 DEF selection, shown, PreviewInv, IndexInv
  <1>2. CASE \/ MovesFocus(k) \/ CyclesTabs(k)
    BY <1>2 DEF MovesFocus, CyclesTabs, shown, PreviewInv, IndexInv
  <1>3. CASE HandleEscapeKey(k)
    <2>1. /\ viewMode' = "list" /\ previewing' = NoPreview
          /\ UNCHANGED <<entries, selectedEntry, selectedWorkflow>>
      BY <1>3 DEF HandleEscapeKey
    <2>. QED  BY <2>1, NoPreviewIsNowhere DEF IndexInv
  <1>4. CASE SelectsWorkflow(k)
    BY <1>4, PreviewAfterSelection
  <1>5. CASE SelectsEntry(k)
    <2>1. UNCHANGED <<entries, previewing, viewMode, selectedWorkflow>>
      BY <1>5 DEF SelectsEntry, shown
    <2>2. \/ selectedEntry > 1 /\ selectedEntry' = selectedEntry - 1
          \/ selectedEntry' = selectedEntry + 1
      BY <1>5 DEF SelectsEntry
    <2>. QED  BY <2>1, <2>2 DEF PreviewInv, IndexInv
  <1>6. CASE SelectsInput(k)
    <2>1. viewMode' = "input" /\ UNCHANGED <<entries, selectedEntry, selectedWorkflow, previewing>>
      BY <1>6, Zenon DEF SelectsInput
    <2>. QED  BY <2>1 DEF PreviewInv, IndexInv
  <1>7. CASE PreviewsEntry(k)
    <2>1. /\ previewing' = [at |-> selectedEntry, entry |-> entries[selectedEntry]]
          /\ selectedEntry <= Len(entries)
          /\ UNCHANGED <<entries, selectedEntry, selectedWorkflow>>
      BY <1>7 DEF PreviewsEntry, EnterInHistory, selection
    <2>2. selectedEntry \in DOMAIN entries
      BY <2>1 DEF IndexInv, Sequence
    <2>. QED  BY <2>1, <2>2 DEF PreviewInv, IndexInv
  <1>8. CASE ReplaysEntry(k)
    <2>1. /\ viewMode' = "list" /\ previewing' = NoPreview
          /\ UNCHANGED <<entries, selectedEntry, selectedWorkflow>>
      BY <1>8 DEF ReplaysEntry, selection
    <2>. QED  BY <2>1, NoPreviewIsNowhere DEF IndexInv
  <1>. QED
    BY <1>1, <1>2, <1>3, <1>4, <1>5, <1>6, <1>7, <1>8 DEF PressKey, OpensOther, EnterInConfig,
       EditsInput, ConfigPaneAction, OpenBranchModal, OpenRemapModal

LEMMA PreviewAfterMessage ==
  ASSUME PreviewInv, IndexInv, NEW i \in DOMAIN inFlight, HandleMessage(i)
  PROVE  PreviewInv' /\ IndexInv'
  <1>1. CASE UNCHANGED <<selection, shown>>
    BY <1>1 DEF selection, shown, PreviewInv, IndexInv
  <1>2. CASE HandleFilterResult(i)
    BY <1>2 DEF HandleFilterResult, PreviewInv, IndexInv
  <1>3. CASE HandleRemapResult(i)
    BY <1>3, PreviewAfterRemap
  <1>. QED
    BY <1>1, <1>2, <1>3 DEF HandleMessage, LosesMessage, HandleAnswer, HandleBranchResult,
       HandleResetResult, HandleValidationErrorResult, HandleRunConfirmResult

LEMMA PreviewAfterAnswer ==
  ASSUME PreviewInv, IndexInv, AnswerModal
  PROVE  PreviewInv' /\ IndexInv'
  <1>1. UNCHANGED <<selection, shown>>
    BY DEF AnswerModal, CloseModal, AnswerInput, AnswerBranch, AnswerFilter, AnswerReset, Override,
       AnswerRunConfirm, SelectOption, CloseAndSend, Close
  <1>. QED  BY <1>1 DEF selection, shown, PreviewInv, IndexInv

----------------------------------------------------------------------------
LEMMA InitIInv ==
  ASSUME Init
  PROVE  IInv
  <1>1. 1 \in DOMAIN Workflows /\ Len(Workflows) \in Nat
    BY WorkflowsAreIndexed
  <1>2. Sequence(entries)
    BY <1>1, WorkflowsAssumption DEF Init, Sequence
  <1>3. IndexInv
    <2>1. selectedEntry = 1 /\ selectedWorkflow = 1
      BY DEF Init
    <2>. QED  BY <1>1, <1>2, <2>1 DEF IndexInv, All
  <1>4. PreviewInv
    <2>1. NoPreview.at = -1 /\ {"at", "entry"} \subseteq DOMAIN NoPreview
      BY DEF NoPreview
    <2>2. -1 \in Int /\ ~(-1 > 0)
      OBVIOUS
    <2>3. previewing = NoPreview /\ viewMode = "list"
      BY DEF Init
    <2>. QED  BY <2>1, <2>2, <2>3 DEF PreviewInv
  <1>5. ModalInv
    BY DEF Init, NoModal, ModalInv, QuestionIsPending, FaultsAreShown, ConfirmIsValidated
  <1>6. MessageInv
    <2>1. inFlight = <<>>
      BY DEF Init
    <2>2. Sequence(inFlight) /\ DOMAIN inFlight = {}
      BY <2>1 DEF Sequence
    <2>. QED
      BY <2>2 DEF MessageInv, Stamped, Sent, ToSet, AnswersMeetTheirQuestion, OverridesAreShown,
         SentAreValidated
  <1>. QED  BY <1>3, <1>4, <1>5, <1>6 DEF IInv

LEMMA NextIInv ==
  ASSUME IInv, [Next]_vars
  PROVE  IInv'
  <1>1. CASE UNCHANGED vars
    BY <1>1 DEF vars, selection, shown, values, IInv, ModalInv, QuestionIsPending, FaultsAreShown,
       ConfirmIsValidated, MessageInv, Sent, AnswersMeetTheirQuestion, OverridesAreShown,
       SentAreValidated, PreviewInv, IndexInv
  <1>2. ASSUME NEW k \in Presses, PressKey(k)
        PROVE  IInv'
    BY <1>2, ModalAfterKey, MessagesAfterKey, PreviewAfterKey DEF IInv
  <1>3. CASE AnswerModal
    BY <1>3, ModalAfterAnswer, MessagesAfterAnswer, PreviewAfterAnswer DEF IInv
  <1>4. ASSUME NEW i \in DOMAIN inFlight, HandleMessage(i)
        PROVE  IInv'
    BY <1>4, ModalAfterMessage, MessagesAfterMessage, PreviewAfterMessage DEF IInv
  <1>. QED  BY <1>1, <1>2, <1>3, <1>4 DEF Next

LEMMA Invariant == Spec => []IInv
  <1>. QED  BY InitIInv, NextIInv, PTL DEF Spec

(* An answer that is not overtaken meets the input it was given for         *)
(* (openInputModalForName, handleInputResult), for all workflows, keys and  *)
(* numbers of messages in flight.                                           *)
THEOREM AnswersArrive == Spec => []AnswersMeetTheirQuestion
  <1>1. IInv => AnswersMeetTheirQuestion
    BY DEF IInv, MessageInv
  <1>. QED  BY <1>1, Invariant, PTL

(* No dispatch is put to the user or sent on with inputs that break a rule, *)
(* other than those the user passed over (executeWorkflow,                  *)
(* handleValidationErrorResult).                                            *)
THEOREM RunsStayValidated == Spec => []RunsAreValidated
  <1>1. IInv => RunsAreValidated
    BY DEF IInv, ModalInv, ConfirmIsValidated, MessageInv, SentAreValidated, RunsAreValidated
  <1>. QED  BY <1>1, Invariant, PTL

(* What is previewed is the run in the list, as it is by now (handleEnter,  *)
(* handleRemapResult, SetEntries).                                          *)
THEOREM PreviewStaysListed == Spec => []PreviewIsListed
  <1>1. IInv => PreviewIsListed
    BY DEF IInv, PreviewInv, PreviewIsListed
  <1>. QED  BY <1>1, Invariant, PTL

----------------------------------------------------------------------------
(* Types *)

Good(map) == map \in [DOMAIN map -> Texts]

IsRun(e) == {"branch", "inputs"} \subseteq DOMAIN e /\ e.branch \in Refs /\ Good(e.inputs)

(* What a message that is used says.                                        *)
Well(msg) ==
  /\ "kind" \in DOMAIN msg
  /\ msg.kind = "answer" => "value" \in DOMAIN msg /\ msg.value \in Texts
  /\ msg.kind = "branch" => "branch" \in DOMAIN msg /\ msg.branch \in Refs
  /\ msg.kind = "filter" => "text" \in DOMAIN msg /\ msg.text \in DOMAIN Ranking
  /\ msg.kind = "remap" => "decisions" \in DOMAIN msg /\ Sequence(msg.decisions)

ScreenType ==
  /\ focused \in DOMAIN NextPane /\ tab \in DOMAIN NextTab
  /\ viewMode \in {"list", "input", "preview"}
  /\ crashed \in BOOLEAN

FormType == Good(inputs) /\ branch \in Refs

(* Without a filter everything is shown.                                    *)
ListType ==
  /\ Sequence(inputOrder) /\ filteredInputs \in Seq(ToSet(inputOrder))
  /\ filterText = "" => filteredInputs = inputOrder
  /\ selectedInput \in NoInput..(IF filteredInputs = <<>> THEN 1 ELSE Len(filteredInputs))

RunsType ==
  /\ \A i \in DOMAIN entries : IsRun(entries[i])
  /\ IsRun(previewing.entry) /\ previewing.at >= -1

(* The input that is asked for is one of the workflow.                      *)
ModalType ==
  /\ modal.kind = "input" => selectedWorkflow # All /\ modal.name \in Names(selectedWorkflow)
  /\ modal.kind = "remap" => "decisions" \in DOMAIN modal /\ Sequence(modal.decisions)

AllWell(q) == \A i \in DOMAIN q : Well(q[i])

MessagesType == AllWell(inFlight) /\ Len(inFlight) <= MaxInFlight

TypeInv ==
  /\ ScreenType /\ FormType /\ ListType /\ RunsType /\ ModalType /\ MessagesType

----------------------------------------------------------------------------
(* The inputs *)

LEMMA PutIsGood ==
  ASSUME NEW map, Good(map), NEW n, NEW value \in Texts
  PROVE  Good(Put(map, n, value)) /\ DOMAIN Put(map, n, value) = DOMAIN map \cup {n}
  BY DEF Good, Put

LEMMA DropIsGood ==
  ASSUME NEW map, Good(map), NEW n
  PROVE  Good(Drop(map, n)) /\ DOMAIN Drop(map, n) = DOMAIN map \ {n}
  BY DEF Good, Drop

LEMMA DecideIsGood ==
  ASSUME NEW map, Good(map), NEW decision
  PROVE  /\ Good(Decide(map, decision))
         /\ DOMAIN Decide(map, decision) \subseteq DOMAIN map \cup {decision.to}
  <1>1. CASE decision.action = "drop"
    <2>1. Decide(map, decision) = Drop(map, decision.name)
      BY <1>1 DEF Decide
    <2>2. /\ Good(Drop(map, decision.name))
          /\ DOMAIN Drop(map, decision.name) \subseteq DOMAIN map
      BY DropIsGood
    <2>. QED  BY <2>1, <2>2
  <1>2. CASE decision.action = "map" /\ decision.name \in DOMAIN map
    <2>1. Decide(map, decision) = Put(Drop(map, decision.name), decision.to, map[decision.name])
      BY <1>2 DEF Decide
    <2>2. map[decision.name] \in Texts
      BY <1>2 DEF Good
    <2>3. Good(Drop(map, decision.name)) /\ DOMAIN Drop(map, decision.name) \subseteq DOMAIN map
      BY DropIsGood
    <2>. DEFINE dropped == Drop(map, decision.name)
                value   == map[decision.name]
    <2>4. /\ Good(Put(dropped, decision.to, value))
          /\ DOMAIN Put(dropped, decision.to, value) = DOMAIN dropped \cup {decision.to}
      <3>. HIDE DEF dropped, value
      <3>. QED  BY <2>2, <2>3, PutIsGood DEF dropped, value
    <2>. QED  BY <2>1, <2>3, <2>4
  <1>3. CASE ~(decision.action = "drop") /\ ~(decision.action = "map" /\ decision.name \in DOMAIN map)
    <2>1. Decide(map, decision) = map
      BY <1>3 DEF Decide
    <2>. QED  BY <2>1
  <1>. QED  BY <1>1, <1>2, <1>3

(* The wizard's decisions leave an input a text.                            *)
LEMMA DecidedIsGood ==
  ASSUME NEW map, Good(map), NEW decisions, Sequence(decisions)
  PROVE  Good(Decided(map, decisions))
  <1>. DEFINE size  == Len(decisions)
              Known  == DOMAIN map \cup {decisions[n].to : n \in 1..size}
              S     == UNION {[D -> Texts] : D \in SUBSET Known}
              Is(g) == g = [n \in 0..size |->
                              IF n = 0 THEN map ELSE Decide(g[n - 1], decisions[n])]
              after == CHOOSE g : Is(g)
  <1>0. size \in Nat
    BY DEF Sequence
  <1>1. Decided(map, decisions) = after[size]
    BY DEF Decided
  <1>2. map \in S
    BY DEF Good
  <1>3. ASSUME NEW n \in 1..size, NEW s \in S
        PROVE  Decide(s, decisions[n]) \in S
    <2>1. Good(s) /\ DOMAIN s \subseteq Known
      BY DEF Good
    <2>2. decisions[n].to \in Known
      OBVIOUS
    <2>. HIDE DEF Known
    <2>3. /\ Good(Decide(s, decisions[n]))
          /\ DOMAIN Decide(s, decisions[n]) \subseteq Known
      BY <2>1, <2>2, DecideIsGood
    <2>. QED  BY <2>3 DEF Good
  <1>4. ASSUME NEW s \in S
        PROVE  Good(s)
    BY DEF Good
  <1>. HIDE DEF S
  <1>5. \E g : Is(g)
    <2>. DEFINE step == [n \in 1..size |-> [s \in S |-> Decide(s, decisions[n])]]
    <2>1. \A n \in 1..size : \A s \in S :
            step[n][s] = Decide(s, decisions[n]) /\ step[n][s] \in S
      BY <1>3
    <2>. HIDE DEF step
    <2>2. PICK g \in [0..size -> S] : Rounds(map, step, size, g)
      <3>. HIDE DEF size
      <3>. QED  BY <1>0, <1>2, <2>1, LoopComputes
    <2>3. ASSUME NEW n \in 0..size
          PROVE  g[n] = IF n = 0 THEN map ELSE Decide(g[n - 1], decisions[n])
      <3>1. CASE n = 0
        BY <2>2, <3>1 DEF Rounds
      <3>2. CASE n # 0
        <4>1. n \in 1..size /\ n - 1 \in 0..size
          BY <1>0, <3>2
        <4>2. g[n] = step[n][g[n - 1]] /\ g[n - 1] \in S
          BY <2>2, <4>1 DEF Rounds
        <4>. QED  BY <2>1, <3>2, <4>1, <4>2
      <3>. QED  BY <3>1, <3>2
    <2>4. Is(g)
      BY <2>3
    <2>. QED  BY <2>4
  <1>6. Is(after)
    <2>. HIDE DEF Is
    <2>. QED  BY <1>5
  <1>. HIDE DEF after
  <1>. DEFINE T == {n \in 0..size : after[n] \in S}
  <1>7. 0 \in T
    BY <1>0, <1>2, <1>6
  <1>8. ASSUME NEW n \in 1..size, n - 1 \in T
        PROVE  n \in T
    <2>1. n \in 0..size /\ n # 0 /\ after[n - 1] \in S
      BY <1>0, <1>8
    <2>2. after[n] = Decide(after[n - 1], decisions[n])
      BY <1>6, <2>1
    <2>. QED  BY <1>3, <2>1, <2>2
  <1>. HIDE DEF T
  <1>9. size \in T
    <2>. HIDE DEF size
    <2>. QED  BY <1>0, <1>7, <1>8, LoopKeeps
  <1>10. after[size] \in S
    BY <1>9 DEF T
  <1>. QED  BY <1>1, <1>4, <1>10

----------------------------------------------------------------------------
(* What is on screen *)

LEMMA NextPanes ==
  ASSUME NEW x \in DOMAIN NextPane
  PROVE  NextPane[x] \in DOMAIN NextPane /\ Before(NextPane, x) \in DOMAIN NextPane
  <1>1. \E y \in DOMAIN NextPane : NextPane[y] = x
    BY DEF NextPane
  <1>2. NextPane[x] \in DOMAIN NextPane
    BY DEF NextPane
  <1>. QED  BY <1>1, <1>2 DEF Before

LEMMA NextTabs ==
  ASSUME NEW x \in DOMAIN NextTab
  PROVE  NextTab[x] \in DOMAIN NextTab /\ Before(NextTab, x) \in DOMAIN NextTab
  <1>1. \E y \in DOMAIN NextTab : NextTab[y] = x
    BY DEF NextTab
  <1>2. NextTab[x] \in DOMAIN NextTab
    BY DEF NextTab
  <1>. QED  BY <1>1, <1>2 DEF Before

LEMMA ScreenAfterKey ==
  ASSUME ScreenType, NEW k, PressKey(k)
  PROVE  ScreenType'
  <1>1. CASE MovesFocus(k)
    <2>1. focused' \in {focused, NextPane[focused], Before(NextPane, focused), "config"}
      BY <1>1 DEF MovesFocus
    <2>2. focused' \in DOMAIN NextPane
      <3>1. "config" \in DOMAIN NextPane
        BY DEF NextPane
      <3>. QED  BY <2>1, <3>1, NextPanes DEF ScreenType
    <2>3. UNCHANGED <<tab, viewMode, crashed>>
      BY <1>1 DEF MovesFocus, shown
    <2>. QED  BY <2>2, <2>3 DEF ScreenType
  <1>2. CASE CyclesTabs(k)
    <2>1. tab' \in {NextTab[tab], Before(NextTab, tab)}
      BY <1>2 DEF CyclesTabs
    <2>2. tab' \in DOMAIN NextTab
      BY <2>1, NextTabs DEF ScreenType
    <2>3. UNCHANGED <<focused, viewMode, crashed>>
      BY <1>2 DEF CyclesTabs, shown
    <2>. QED  BY <2>2, <2>3 DEF ScreenType
  <1>3. CASE /\ UNCHANGED <<focused, tab, crashed>>
             /\ viewMode' \in {viewMode, "list", "input", "preview"}
    BY <1>3 DEF ScreenType
  <1>4. CASE OpensOther(k) \/ EnterInConfig(k) \/ OpenBranchModal(k) \/ OpenRemapModal(k)
    BY <1>3, <1>4 DEF OpensOther, EnterInConfig, OpenBranchModal, OpenRemapModal, selection, shown
  <1>5. CASE HandleEscapeKey(k) \/ SelectsEntry(k) \/ SelectsInput(k)
    BY <1>3, <1>5 DEF HandleEscapeKey, SelectsEntry, SelectsInput, shown
  <1>6. CASE PreviewsEntry(k) \/ ReplaysEntry(k)
    BY <1>3, <1>6 DEF PreviewsEntry, ReplaysEntry, selection
  <1>7. CASE SelectsWorkflow(k)
    BY <1>3, <1>7 DEF SelectsWorkflow, InitializeInputs, shown
  <1>8. CASE EditsInput(k) \/ ConfigPaneAction(k)
    <2>1. crashed' \in {crashed, TRUE} /\ UNCHANGED <<focused, tab, viewMode>>
      BY <1>8 DEF EditsInput, ConfigPaneAction, OpenInputModalFiltered, OpenInputModal, Panics,
         selection, shown
    <2>. QED  BY <2>1 DEF ScreenType
  <1>. QED
    BY <1>1, <1>2, <1>4, <1>5, <1>6, <1>7, <1>8 DEF PressKey

(* An answer leaves the form alone until it arrives.                        *)
LEMMA AnswersLeaveForm ==
  ASSUME AnswerModal
  PROVE  UNCHANGED <<selection, shown, values, crashed>>
  BY DEF AnswerModal, CloseModal, AnswerInput, AnswerBranch, AnswerFilter, AnswerReset, Override,
     AnswerRunConfirm, SelectOption, CloseAndSend, Close

LEMMA ScreenStep ==
  ASSUME ScreenType, [Next]_vars
  PROVE  ScreenType'
  <1>1. CASE UNCHANGED <<selection, shown, crashed>>
    BY <1>1 DEF selection, shown, ScreenType
  <1>2. ASSUME NEW k \in Presses, PressKey(k)
        PROVE  ScreenType'
    BY <1>2, ScreenAfterKey
  <1>3. CASE AnswerModal
    BY <1>1, <1>3, AnswersLeaveForm
  <1>4. ASSUME NEW i \in DOMAIN inFlight, HandleMessage(i)
        PROVE  ScreenType'
    <2>1. CASE HandleResetResult(i)
      BY <2>1 DEF HandleResetResult, selection, shown, ScreenType
    <2>2. CASE HandleFilterResult(i) \/ HandleRemapResult(i)
      BY <2>2 DEF HandleFilterResult, HandleRemapResult, ScreenType
    <2>. QED
      BY <1>1, <1>4, <2>1, <2>2 DEF HandleMessage, LosesMessage, HandleAnswer, HandleBranchResult,
         HandleValidationErrorResult, HandleRunConfirmResult
  <1>5. CASE UNCHANGED vars
    BY <1>1, <1>5 DEF vars
  <1>. QED  BY <1>2, <1>3, <1>4, <1>5 DEF Next

----------------------------------------------------------------------------
(* The form's values *)

LEMMA DefaultsAreGood ==
  ASSUME NEW w \in DOMAIN Workflows
  PROVE  Good(Defaults(w))
  <1>1. \A n \in Names(w) : InputsOf(w)[n].default \in Texts
    BY TextsAssumption
  <1>. QED  BY <1>1 DEF Good, Defaults

LEMMA ListedAreRuns ==
  ASSUME NEW w \in DOMAIN Workflows, NEW list \in Histories[w], NEW i \in DOMAIN list
  PROVE  IsRun(list[i])
  <1>1. /\ {"branch", "inputs"} \subseteq DOMAIN list[i]
        /\ list[i].inputs \in [DOMAIN list[i].inputs -> Texts]
    BY TextsAssumption
  <1>2. list[i].branch \in Refs
    <2>1. list \in UNION {Histories[v] : v \in DOMAIN Workflows}
      OBVIOUS
    <2>2. list[i].branch \in {list[j].branch : j \in DOMAIN list}
      OBVIOUS
    <2>. HIDE DEF Refs
    <2>. QED  BY <2>1, <2>2 DEF Refs
  <1>. QED  BY <1>1, <1>2 DEF IsRun, Good

(* The workflow that is selected, if there is one.                          *)
LEMMA SelectedIsListed ==
  ASSUME IndexInv, selectedWorkflow # All
  PROVE  selectedWorkflow \in DOMAIN Workflows
  BY WorkflowsAreIndexed DEF IndexInv, All

LEMMA FormAfterKey ==
  ASSUME FormType, RunsType, IndexInv, IndexInv', NEW k, PressKey(k)
  PROVE  FormType'
  <1>1. CASE UNCHANGED <<inputs, branch>>
    BY <1>1 DEF FormType, Good
  <1>2. CASE SelectsWorkflow(k) /\ selectedWorkflow' # All
    <2>1. inputs' = Defaults(selectedWorkflow') /\ branch' = branch
      BY <1>2 DEF SelectsWorkflow, InitializeInputs, NewMap
    <2>2. selectedWorkflow' \in DOMAIN Workflows
      BY <1>2, WorkflowsAreIndexed DEF IndexInv, All
    <2>3. Good(Defaults(selectedWorkflow'))
      BY <2>2, DefaultsAreGood
    <2>. QED  BY <2>1, <2>3 DEF FormType, Good
  <1>3. CASE ReplaysEntry(k)
    <2>. DEFINE entry == entries[selectedEntry]
    <2>1. inputs' = entry.inputs /\ branch' = entry.branch /\ selectedEntry <= Len(entries)
      BY <1>3 DEF ReplaysEntry, NewMap, EnterInHistory
    <2>2. selectedEntry \in DOMAIN entries
      BY <2>1 DEF IndexInv, Sequence
    <2>3. IsRun(entry)
      BY <2>2 DEF RunsType
    <2>. HIDE DEF entry
    <2>. QED  BY <2>1, <2>3 DEF FormType, Good, IsRun
  <1>4. CASE EditsInput(k) \/ ConfigPaneAction(k)
    BY <1>1, <1>4 DEF EditsInput, ConfigPaneAction, OpenInputModalFiltered, OpenInputModal, Panics,
       values
  <1>. QED
    BY <1>1, <1>2, <1>3, <1>4 DEF PressKey, MovesFocus, CyclesTabs, OpensOther, HandleEscapeKey,
       SelectsWorkflow, SelectsEntry, SelectsInput, EnterInConfig, PreviewsEntry, OpenBranchModal,
       OpenRemapModal, values

LEMMA FormAfterMessage ==
  ASSUME FormType, MessagesType, IndexInv, NEW i \in DOMAIN inFlight, HandleMessage(i)
  PROVE  FormType'
  <1>0. Well(inFlight[i])
    BY DEF MessagesType, AllWell
  <1>1. CASE UNCHANGED <<inputs, branch>>
    BY <1>1 DEF FormType, Good
  <1>2. CASE HandleAnswer(i) /\ ~UNCHANGED inputs
    <2>. DEFINE value == inFlight[i].value
    <2>1. inputs' = Put(inputs, pendingInputName, value) /\ branch' = branch
      BY <1>2 DEF HandleAnswer, WriteInputs
    <2>2. value \in Texts
      BY <1>0, <1>2 DEF HandleAnswer, Handles, Well
    <2>. HIDE DEF value
    <2>3. Good(Put(inputs, pendingInputName, value))
      BY <2>2, PutIsGood DEF FormType
    <2>. QED  BY <2>1, <2>3 DEF FormType, Good
  <1>3. CASE HandleBranchResult(i)
    <2>1. inputs' = inputs /\ branch' = inFlight[i].branch
      BY <1>3 DEF HandleBranchResult
    <2>2. inFlight[i].branch \in Refs
      BY <1>0, <1>3 DEF HandleBranchResult, Handles, Well
    <2>. QED  BY <2>1, <2>2 DEF FormType, Good
  <1>4. CASE HandleResetResult(i) /\ ~UNCHANGED inputs
    <2>1. inputs' = AllReset(inputs, selectedWorkflow) /\ branch' = branch /\ selectedWorkflow # All
      BY <1>4 DEF HandleResetResult, WriteInputs, Indexed
    <2>2. \A n \in Names(selectedWorkflow) : InputsOf(selectedWorkflow)[n].default \in Texts
      BY <2>1, SelectedIsListed, TextsAssumption
    <2>3. Good(AllReset(inputs, selectedWorkflow))
      BY <2>2 DEF FormType, Good, AllReset
    <2>. QED  BY <2>1, <2>3 DEF FormType, Good
  <1>. QED
    BY <1>1, <1>2, <1>3, <1>4 DEF HandleMessage, LosesMessage, HandleAnswer, HandleFilterResult,
       HandleResetResult, HandleRemapResult, HandleValidationErrorResult, HandleRunConfirmResult,
       values

LEMMA FormStep ==
  ASSUME FormType, RunsType, MessagesType, IInv, IInv', [Next]_vars
  PROVE  FormType'
  <1>1. CASE UNCHANGED values
    BY <1>1 DEF values, FormType, Good
  <1>2. ASSUME NEW k \in Presses, PressKey(k)
        PROVE  FormType'
    BY <1>2, FormAfterKey DEF IInv
  <1>3. CASE AnswerModal
    BY <1>1, <1>3, AnswersLeaveForm
  <1>4. ASSUME NEW i \in DOMAIN inFlight, HandleMessage(i)
        PROVE  FormType'
    BY <1>4, FormAfterMessage DEF IInv
  <1>. QED  BY <1>1, <1>2, <1>3, <1>4 DEF Next, vars

----------------------------------------------------------------------------
(* The runs that are listed and previewed *)

LEMMA RunsAfterKey ==
  ASSUME RunsType, PreviewInv, IndexInv, IndexInv', NEW k, PressKey(k)
  PROVE  RunsType'
  <1>1. CASE UNCHANGED <<entries, previewing>>
    BY <1>1 DEF RunsType
  <1>2. CASE UNCHANGED entries /\ previewing' = NoPreview
    <2>1. NoPreview.at >= -1 /\ NoPreview.entry = [branch |-> "", inputs |-> <<>>]
      BY DEF NoPreview
    <2>2. Good(<<>>)
      BY DEF Good
    <2>3. IsRun([branch |-> "", inputs |-> <<>>])
      BY <2>2 DEF IsRun, Refs
    <2>. QED  BY <1>2, <2>1, <2>3 DEF RunsType
  <1>3. CASE SelectsWorkflow(k) /\ selectedWorkflow' # All
    <2>1. selectedWorkflow' \in DOMAIN Workflows
      BY <1>3, WorkflowsAreIndexed DEF IndexInv, All
    <2>2. PICK list \in Histories[selectedWorkflow'] : entries' = list
      BY <1>3 DEF SelectsWorkflow, InitializeInputs, SetEntries
    <2>3. \A i \in DOMAIN entries' : IsRun(entries'[i])
      BY <2>1, <2>2, ListedAreRuns
    <2>4. \/ previewing' = [previewing EXCEPT !.at = 0]
          \/ previewing' = [previewing EXCEPT !.at = previewing.at]
      BY <1>3 DEF SelectsWorkflow, InitializeInputs
    <2>5. previewing'.entry = previewing.entry /\ previewing'.at \in {0, previewing.at}
      BY <2>4 DEF PreviewInv
    <2>. QED  BY <2>3, <2>5 DEF RunsType
  <1>4. CASE PreviewsEntry(k)
    <2>1. /\ previewing' = [at |-> selectedEntry, entry |-> entries[selectedEntry]]
          /\ entries' = entries /\ selectedEntry <= Len(entries)
      BY <1>4 DEF PreviewsEntry, EnterInHistory, selection
    <2>2. selectedEntry \in DOMAIN entries /\ selectedEntry \in Nat
      BY <2>1 DEF IndexInv, Sequence
    <2>. QED  BY <2>1, <2>2 DEF RunsType
  <1>. QED
    BY <1>1, <1>2, <1>3, <1>4 DEF PressKey, MovesFocus, CyclesTabs, OpensOther, HandleEscapeKey,
       SelectsWorkflow, SelectsEntry, SelectsInput, EnterInConfig, ReplaysEntry, OpenBranchModal,
       OpenRemapModal, EditsInput, ConfigPaneAction, selection, shown

(* The wizard's decisions make a run of a run.                              *)
LEMMA RunsAfterRemap ==
  ASSUME RunsType, PreviewInv, IndexInv, MessagesType,
         NEW i \in DOMAIN inFlight, HandleRemapResult(i)
  PROVE  RunsType'
  <1>1. CASE previewing = NoPreview
    BY <1>1 DEF HandleRemapResult, RunsType
  <1>2. CASE previewing # NoPreview
    <2>. DEFINE remapped == Decided(previewing.entry.inputs, inFlight[i].decisions)
                entry    == [previewing.entry EXCEPT !.inputs = remapped]
    <2>1. Good(remapped)
      <3>1. Sequence(inFlight[i].decisions)
        BY DEF MessagesType, AllWell, Well, HandleRemapResult, Handles
      <3>2. Good(previewing.entry.inputs)
        BY DEF RunsType, IsRun
      <3>. QED  BY <3>1, <3>2, DecidedIsGood
    <2>2. /\ previewing' = [previewing EXCEPT !.entry = entry]
          /\ \/ entries' = entries
             \/ /\ ~(previewing.at < 1)
                /\ entries' = [entries EXCEPT ![previewing.at] =
                                 [entries[previewing.at] EXCEPT !.inputs = remapped]]
      BY <1>2 DEF HandleRemapResult
    <2>. HIDE DEF remapped
    <2>3. IsRun(entry)
      BY <2>1 DEF RunsType, IsRun
    <2>4. previewing'.entry = entry /\ previewing'.at = previewing.at
      BY <2>2 DEF PreviewInv
    <2>5. CASE entries' = entries
      BY <2>3, <2>4, <2>5 DEF RunsType
    <2>6. CASE /\ ~(previewing.at < 1)
               /\ entries' = [entries EXCEPT ![previewing.at] =
                                [entries[previewing.at] EXCEPT !.inputs = remapped]]
      <3>1. previewing.at \in DOMAIN entries /\ previewing.entry = entries[previewing.at]
        BY <2>6 DEF PreviewInv
      <3>2. DOMAIN entries' = DOMAIN entries /\ entries'[previewing.at] = entry
            /\ \A j \in DOMAIN entries : j # previewing.at => entries'[j] = entries[j]
        BY <2>6, <3>1
      <3>. HIDE DEF entry
      <3>3. \A j \in DOMAIN entries' : IsRun(entries'[j])
        BY <2>3, <3>2 DEF RunsType
      <3>. QED  BY <2>3, <2>4, <3>3 DEF RunsType
    <2>. QED  BY <2>2, <2>5, <2>6
  <1>. QED  BY <1>1, <1>2

LEMMA RunsStep ==
  ASSUME RunsType, MessagesType, IInv, IInv', [Next]_vars
  PROVE  RunsType'
  <1>1. CASE UNCHANGED <<selection, shown>>
    BY <1>1 DEF selection, shown, RunsType
  <1>2. ASSUME NEW k \in Presses, PressKey(k)
        PROVE  RunsType'
    BY <1>2, RunsAfterKey DEF IInv
  <1>3. CASE AnswerModal
    BY <1>1, <1>3, AnswersLeaveForm
  <1>4. ASSUME NEW i \in DOMAIN inFlight, HandleMessage(i)
        PROVE  RunsType'
    <2>1. CASE HandleRemapResult(i)
      BY <2>1, <1>4, RunsAfterRemap DEF IInv
    <2>2. CASE HandleFilterResult(i)
      BY <2>2 DEF HandleFilterResult, RunsType
    <2>. QED
      BY <1>1, <1>4, <2>1, <2>2 DEF HandleMessage, LosesMessage, HandleAnswer, HandleBranchResult,
         HandleResetResult, HandleValidationErrorResult, HandleRunConfirmResult
  <1>. QED  BY <1>1, <1>2, <1>3, <1>4 DEF Next, vars

----------------------------------------------------------------------------
(* The inputs that are shown *)

(* A filter shows inputs of the form.                                       *)
LEMMA FilterShowsInputs ==
  ASSUME Sequence(inputOrder), NEW text \in DOMAIN Ranking
  PROVE  ApplyFuzzyFilter(text, inputOrder) \in Seq(ToSet(inputOrder))
  <1>1. CASE text = ""
    BY <1>1 DEF ApplyFuzzyFilter, Sequence
  <1>2. CASE text # ""
    <2>. DEFINE ranked == Ranking[text]
                shownOf == Only(ranked, ToSet(inputOrder))
    <2>1. ranked \in Seq(ToSet(ranked))
      BY WorkflowsAssumption
    <2>2. shownOf \in Seq(ToSet(ranked) \cap ToSet(inputOrder))
      <3>. HIDE DEF ranked
      <3>. QED  BY <2>1, OnlyKeepsMembers
    <2>3. ApplyFuzzyFilter(text, inputOrder) = shownOf
      BY <1>2 DEF ApplyFuzzyFilter
    <2>. HIDE DEF shownOf
    <2>. QED  BY <2>2, <2>3
  <1>. QED  BY <1>1, <1>2

LEMMA Lengths ==
  ASSUME NEW S, NEW q \in Seq(S)
  PROVE  Len(q) \in Nat /\ (q = <<>> <=> Len(q) = 0)
  OBVIOUS

LEMMA NoInputIsFirst ==
  ASSUME NEW n \in Nat
  PROVE  NoInput \in NoInput..n
  BY DEF NoInput

(* Nothing needs to be selected.                                            *)
LEMMA NoInputSelected ==
  ASSUME Sequence(inputOrder'), filteredInputs' \in Seq(ToSet(inputOrder')),
         filterText' = "" => filteredInputs' = inputOrder', selectedInput' = NoInput
  PROVE  ListType'
  <1>1. Len(filteredInputs') \in Nat
    BY Lengths
  <1>2. NoInput \in NoInput..(IF filteredInputs' = <<>> THEN 1 ELSE Len(filteredInputs'))
    <2>. DEFINE last == IF filteredInputs' = <<>> THEN 1 ELSE Len(filteredInputs')
    <2>1. last \in Nat
      BY <1>1
    <2>. HIDE DEF last
    <2>2. NoInput \in NoInput..last
      BY <2>1, NoInputIsFirst
    <2>. QED  BY <2>2 DEF last
  <1>. QED  BY <1>2 DEF ListType

LEMMA ListAfterKey ==
  ASSUME ListType, IndexInv, IndexInv', NEW k, PressKey(k)
  PROVE  ListType'
  <1>1. CASE UNCHANGED <<inputOrder, filteredInputs, filterText, selectedInput>>
    BY <1>1 DEF ListType
  <1>2. CASE HandleEscapeKey(k)
    <2>1. UNCHANGED <<inputOrder, filteredInputs, filterText>> /\ selectedInput' = NoInput
      BY <1>2 DEF HandleEscapeKey
    <2>. QED  BY <2>1, NoInputSelected DEF ListType
  <1>3. CASE SelectsWorkflow(k) /\ selectedWorkflow' # All
    <2>. DEFINE order == Workflows[selectedWorkflow'].order
    <2>1. selectedWorkflow' \in DOMAIN Workflows
      BY <1>3, WorkflowsAreIndexed DEF IndexInv, All
    <2>2. order \in Seq(DOMAIN Workflows[selectedWorkflow'].inputs)
      BY <2>1, WorkflowsAssumption
    <2>3. /\ inputOrder' = order /\ filteredInputs' = order
          /\ filterText' = "" /\ selectedInput' = NoInput
      BY <1>3 DEF SelectsWorkflow, InitializeInputs
    <2>. HIDE DEF order
    <2>4. Sequence(order)
      BY <2>2, SequenceOfItsOwn
    <2>. QED  BY <2>3, <2>4, NoInputSelected DEF Sequence
  <1>4. CASE SelectsInput(k)
    <2>1. UNCHANGED <<inputOrder, filteredInputs, filterText>>
      BY <1>4 DEF SelectsInput, ListType
    <2>2. Len(filteredInputs) \in Nat /\ (filteredInputs = <<>> <=> Len(filteredInputs) = 0)
      BY Lengths DEF ListType
    <2>3. \/ selectedInput' \in {1, selectedInput}
          \/ selectedInput > 1 /\ selectedInput' = selectedInput - 1
          \/ selectedInput < Len(filteredInputs) /\ selectedInput' = selectedInput + 1
      <3>1. selectedInput' = CASE selectedInput = NoInput -> 1
               [] k.does = "up" /\ selectedInput > 1 -> selectedInput - 1
               [] k.does = "down" /\ selectedInput # NoInput /\ selectedInput < Len(filteredInputs)
                    -> selectedInput + 1
               [] OTHER -> selectedInput
        BY <1>4 DEF SelectsInput
      <3>. QED  BY <3>1
    <2>4. selectedInput \in NoInput..(IF filteredInputs = <<>> THEN 1 ELSE Len(filteredInputs))
      BY DEF ListType
    <2>6. selectedInput' \in NoInput..(IF filteredInputs = <<>> THEN 1 ELSE Len(filteredInputs))
      BY <2>2, <2>3, <2>4 DEF NoInput
    <2>. QED  BY <2>1, <2>6 DEF ListType
  <1>. QED
    BY <1>1, <1>2, <1>3, <1>4 DEF PressKey, MovesFocus, CyclesTabs, OpensOther, SelectsWorkflow,
       SelectsEntry, EnterInConfig, PreviewsEntry, ReplaysEntry, OpenBranchModal, OpenRemapModal,
       EditsInput, ConfigPaneAction, selection, shown

LEMMA ListStep ==
  ASSUME ListType, MessagesType, IInv, IInv', [Next]_vars
  PROVE  ListType'
  <1>1. CASE UNCHANGED <<selection, shown>>
    BY <1>1 DEF selection, shown, ListType
  <1>2. ASSUME NEW k \in Presses, PressKey(k)
        PROVE  ListType'
    BY <1>2, ListAfterKey DEF IInv
  <1>3. CASE AnswerModal
    BY <1>1, <1>3, AnswersLeaveForm
  <1>4. ASSUME NEW i \in DOMAIN inFlight, HandleMessage(i)
        PROVE  ListType'
    <2>1. CASE HandleFilterResult(i)
      <3>. DEFINE text == inFlight[i].text
      <3>1. text \in DOMAIN Ranking
        BY <1>4, <2>1 DEF MessagesType, AllWell, Well, HandleFilterResult, Handles
      <3>2. /\ filterText' = text /\ filteredInputs' = ApplyFuzzyFilter(text, inputOrder)
            /\ selectedInput' = NoInput /\ inputOrder' = inputOrder
        BY <2>1 DEF HandleFilterResult
      <3>. HIDE DEF text
      <3>3. filteredInputs' \in Seq(ToSet(inputOrder'))
        BY <3>1, <3>2, FilterShowsInputs DEF ListType
      <3>4. filterText' = "" => filteredInputs' = inputOrder'
        BY <3>2 DEF ApplyFuzzyFilter
      <3>. QED  BY <3>2, <3>3, <3>4, NoInputSelected DEF ListType
    <2>2. CASE HandleRemapResult(i)
      BY <2>2 DEF HandleRemapResult, ListType
    <2>. QED
      BY <1>1, <1>4, <2>1, <2>2 DEF HandleMessage, LosesMessage, HandleAnswer, HandleBranchResult,
         HandleResetResult, HandleValidationErrorResult, HandleRunConfirmResult
  <1>. QED  BY <1>1, <1>2, <1>3, <1>4 DEF Next, vars

----------------------------------------------------------------------------
(* The modals and the messages *)

LEMMA OtherModalType ==
  ASSUME modal'.kind \notin {"input", "remap"}
  PROVE  ModalType'
  BY DEF ModalType

LEMMA ModalTypeStep ==
  ASSUME ModalType, IInv, [Next]_vars
  PROVE  ModalType'
  <1>1. CASE UNCHANGED <<modal, selectedWorkflow>>
    BY <1>1 DEF ModalType
  <1>2. CASE modal' = NoModal
    BY <1>2, OtherModalType DEF NoModal
  <1>3. ASSUME NEW map, NEW ref, ExecuteWorkflow(map, ref)
        PROVE  ModalType'
    BY <1>3, OtherModalType DEF ExecuteWorkflow, NoModal, RunConfirm
  <1>4. ASSUME NEW k \in Presses, PressKey(k)
        PROVE  ModalType'
    <2>0. CASE modal = NoModal /\ UNCHANGED modal
      BY <1>2, <2>0
    <2>1. CASE \/ MovesFocus(k) \/ CyclesTabs(k) \/ HandleEscapeKey(k) \/ SelectsEntry(k)
               \/ SelectsInput(k) \/ SelectsWorkflow(k) \/ PreviewsEntry(k)
      BY <2>0, <2>1 DEF MovesFocus, CyclesTabs, HandleEscapeKey, SelectsEntry, SelectsInput,
         SelectsWorkflow, PreviewsEntry, EnterInHistory, Key, Running
    <2>2. CASE EnterInConfig(k) \/ ReplaysEntry(k)
      <3>1. \E map, ref : ExecuteWorkflow(map, ref)
        BY <2>2, Zenon DEF EnterInConfig, ReplaysEntry
      <3>. QED  BY <1>3, <3>1
    <2>3. CASE OpensOther(k) \/ OpenBranchModal(k)
      <3>1. modal' = [kind |-> "other"] \/ modal' = [kind |-> "branch"]
        BY <2>3, Zenon DEF OpensOther, OpenBranchModal
      <3>. QED  BY <3>1, OtherModalType
    <2>4. CASE EditsInput(k)
      <3>1. PICK name : OpenInputModal(name)
        BY <2>4 DEF EditsInput, OpenInputModalFiltered
      <3>2. modal = NoModal /\ selectedWorkflow' = selectedWorkflow
        BY <2>4 DEF EditsInput, Key, Running, selection
      <3>3. CASE /\ Indexed /\ name \in Names(selectedWorkflow)
                 /\ modal' = [kind |-> "input", name |-> name]
        BY <3>2, <3>3 DEF ModalType, Indexed, Names, InputsOf
      <3>. QED  BY <2>0, <3>1, <3>2, <3>3 DEF OpenInputModal, Panics
    <2>5. CASE ConfigPaneAction(k)
      <3>1. \/ UNCHANGED modal
            \/ modal' = [kind |-> "filter"]
            \/ modal' = [kind |-> "reset", empty |-> Diffs = {}]
        BY <2>5 DEF ConfigPaneAction, Panics
      <3>2. modal = NoModal
        BY <2>5 DEF ConfigPaneAction, Key, Running
      <3>. QED  BY <2>0, <3>1, <3>2, OtherModalType
    <2>6. CASE OpenRemapModal(k)
      <3>1. modal'.kind = "remap" /\ "decisions" \in DOMAIN modal' /\ modal'.decisions = <<>>
        BY <2>6 DEF OpenRemapModal
      <3>2. Sequence(<<>>)
        BY DEF Sequence
      <3>. QED  BY <3>1, <3>2 DEF ModalType
    <2>. QED  BY <1>4, <2>1, <2>2, <2>3, <2>4, <2>5, <2>6 DEF PressKey
  <1>5. CASE AnswerModal
    <2>1. CASE SelectOption /\ modal' # NoModal
      <3>1. PICK error, option, rest :
              modal' = [modal EXCEPT !.decisions = Append(modal.decisions, option @@ [name |-> error.name]),
                                     !.errors = rest]
        BY <2>1 DEF SelectOption, CloseAndSend, Close
      <3>. DEFINE new == option @@ [name |-> error.name]
                  decisions == Append(modal.decisions, new)
      <3>2. modal.kind = "remap" /\ "decisions" \in DOMAIN modal /\ Sequence(modal.decisions)
        BY <2>1 DEF SelectOption, On, ModalType
      <3>3. Sequence(decisions)
        <4>. HIDE DEF new
        <4>. DEFINE S == ToSet(modal.decisions) \cup {new}
        <4>1. modal.decisions \in Seq(ToSet(modal.decisions))
          BY <3>2 DEF Sequence
        <4>2. modal.decisions \in Seq(S) /\ new \in S
          BY <4>1
        <4>. HIDE DEF S
        <4>3. decisions \in Seq(S)
          BY <4>2
        <4>. QED  BY <4>3, SequenceOfItsOwn
      <3>. HIDE DEF new
      <3>4. modal' = [modal EXCEPT !.decisions = decisions, !.errors = rest]
        BY <3>1 DEF new
      <3>. HIDE DEF decisions
      <3>5. "decisions" \in DOMAIN modal' /\ modal'.decisions = decisions
        BY <3>2, <3>4
      <3>6. modal'.kind = "remap"
        BY <3>2, <3>4 DEF IInv, ModalInv
      <3>. QED  BY <3>3, <3>5, <3>6 DEF ModalType
    <2>. QED
      BY <1>2, <1>5, <2>1 DEF AnswerModal, CloseModal, AnswerInput, AnswerBranch, AnswerFilter,
         AnswerReset, Override, AnswerRunConfirm, CloseAndSend, Close
  <1>6. ASSUME NEW i \in DOMAIN inFlight, HandleMessage(i)
        PROVE  ModalType'
    <2>1. CASE HandleValidationErrorResult(i)
      BY <2>1, OtherModalType DEF HandleValidationErrorResult, NoModal, RunConfirm
    <2>. QED
      BY <1>1, <1>6, <2>1 DEF HandleMessage, LosesMessage, HandleAnswer, HandleBranchResult,
         HandleFilterResult, HandleResetResult, HandleRemapResult, HandleRunConfirmResult, selection
  <1>7. CASE UNCHANGED vars
    BY <1>1, <1>7 DEF vars, selection
  <1>. QED  BY <1>4, <1>5, <1>6, <1>7 DEF Next

(* What a message says outlasts its stamps.                                 *)
LEMMA RestampedIsWell ==
  ASSUME NEW msg, Well(msg), NEW other, DOMAIN other = DOMAIN msg,
         \A f \in DOMAIN msg : f \notin {"late", "shared", "config"} => other[f] = msg[f]
  PROVE  Well(other)
  <1>1. "kind" \in DOMAIN other /\ other.kind = msg.kind
    BY DEF Well
  <1>2. other.kind = "answer" => "value" \in DOMAIN other /\ other.value \in Texts
    BY <1>1 DEF Well
  <1>3. other.kind = "branch" => "branch" \in DOMAIN other /\ other.branch \in Refs
    BY <1>1 DEF Well
  <1>4. other.kind = "filter" => "text" \in DOMAIN other /\ other.text \in DOMAIN Ranking
    BY <1>1 DEF Well
  <1>5. other.kind = "remap" => "decisions" \in DOMAIN other /\ Sequence(other.decisions)
    BY <1>1 DEF Well
  <1>. QED  BY <1>1, <1>2, <1>3, <1>4, <1>5 DEF Well

LEMMA SameDomainSameLength ==
  ASSUME NEW q, Sequence(q), NEW r, Sequence(r), DOMAIN r = DOMAIN q
  PROVE  Len(r) = Len(q)
  <1>1. /\ Len(q) \in Nat /\ DOMAIN q = 1..Len(q)
        /\ Len(r) \in Nat /\ DOMAIN r = 1..Len(r)
    BY DEF Sequence
  <1>2. 1..Len(q) = 1..Len(r)
    BY <1>1
  <1>. DEFINE m == Len(q)
              n == Len(r)
  <1>3. m \in Nat /\ n \in Nat /\ 1..m = 1..n
    BY <1>1, <1>2
  <1>. HIDE DEF m, n
  <1>4. m <= n
    <2>1. m = 0 \/ m \in 1..m
      BY <1>3
    <2>2. m \in 1..m => m \in 1..n
      BY <1>3
    <2>. QED  BY <1>3, <2>1, <2>2
  <1>5. n <= m
    <2>1. n = 0 \/ n \in 1..n
      BY <1>3
    <2>2. n \in 1..n => n \in 1..m
      BY <1>3
    <2>. QED  BY <1>3, <2>1, <2>2
  <1>6. m = n
    BY <1>3, <1>4, <1>5
  <1>. QED  BY <1>6 DEF m, n

(* Messages that can be in flight.                                          *)
Carried(q) == AllWell(q) /\ Len(q) <= MaxInFlight

(* Those of q, with other stamps.                                           *)
Restamped(q, r) ==
  /\ DOMAIN r = DOMAIN q
  /\ \A i \in DOMAIN q : /\ DOMAIN r[i] = DOMAIN q[i]
                         /\ \A f \in DOMAIN q[i] :
                              f \notin {"late", "shared", "config"} => r[i][f] = q[i][f]

LEMMA RestampedAreCarried ==
  ASSUME NEW q, Sequence(q), Carried(q), NEW r, Sequence(r), Restamped(q, r)
  PROVE  Carried(r)
  <1>1. Len(r) = Len(q)
    BY SameDomainSameLength DEF Restamped
  <1>2. AllWell(r)
    BY RestampedIsWell DEF AllWell, Carried, Restamped
  <1>. QED  BY <1>1, <1>2 DEF Carried

LEMMA OvertakenAreCarried ==
  ASSUME NEW q, Sequence(q), Stamped(q), Carried(q)
  PROVE  Carried(Overtaken(q)) /\ Len(Overtaken(q)) = Len(q)
  <1>. DEFINE r == Overtaken(q)
  <1>1. Sequence(r) /\ DOMAIN r = DOMAIN q
    BY OvertakenIsQuiet DEF Quiet
  <1>2. \A i \in DOMAIN q : r[i] = [q[i] EXCEPT !.late = TRUE]
    BY DEF Overtaken
  <1>. HIDE DEF r
  <1>3. Restamped(q, r)
    BY <1>1, <1>2 DEF Restamped
  <1>. QED  BY <1>1, <1>3, RestampedAreCarried, SameDomainSameLength DEF r

(* One of them is taken out.                                                *)
LEMMA RemovalKeepsCarried ==
  ASSUME NEW q, Sequence(q), Stamped(q), Carried(q), NEW i \in DOMAIN q
  PROVE  /\ Sequence(RemoveAt(q, i)) /\ Stamped(RemoveAt(q, i)) /\ Carried(RemoveAt(q, i))
  <1>. DEFINE r == RemoveAt(q, i)
              S == ToSet(q)
  <1>1. /\ Len(q) \in Nat
        /\ DOMAIN q = 1..Len(q)
        /\ i \in 1..Len(q)
    BY DEF Sequence
  <1>2. /\ SubSeq(q, 1, i - 1) \in Seq(S) /\ Len(SubSeq(q, 1, i - 1)) = i - 1
        /\ SubSeq(q, i + 1, Len(q)) \in Seq(S) /\ Len(SubSeq(q, i + 1, Len(q))) = Len(q) - i
    BY <1>1 DEF Sequence
  <1>3. r = SubSeq(q, 1, i - 1) \o SubSeq(q, i + 1, Len(q))
    BY DEF RemoveAt
  <1>. HIDE DEF r, S
  <1>4. r \in Seq(S) /\ Len(r) <= Len(q)
    BY <1>1, <1>2, <1>3
  <1>5. \A j \in DOMAIN r : r[j] \in S
    BY <1>4
  <1>6. AllWell(r) /\ Stamped(r)
    <2>1. \A msg \in S : Well(msg) /\ "late" \in DOMAIN msg
      BY DEF S, ToSet, Carried, AllWell, Stamped
    <2>. QED  BY <1>5, <2>1 DEF AllWell, Stamped
  <1>7. Sequence(r)
    BY <1>4, SequenceOfItsOwn
  <1>8. Len(r) \in Nat /\ MaxInFlight \in Nat
    BY <1>4, WorkflowsAssumption
  <1>. QED  BY <1>1, <1>4, <1>6, <1>7, <1>8 DEF Carried, r

LEMMA RestIsCarried ==
  ASSUME MessageInv, MessagesType, NEW i \in DOMAIN inFlight
  PROVE  Sequence(Rest(i)) /\ Carried(Rest(i))
  <1>. DEFINE r == RemoveAt(inFlight, i)
  <1>1. Sequence(r) /\ Stamped(r) /\ Carried(r)
    BY RemovalKeepsCarried DEF MessageInv, MessagesType, Carried
  <1>. HIDE DEF r
  <1>2. Carried(Overtaken(r)) /\ Sequence(Overtaken(r))
    BY <1>1, OvertakenAreCarried, OvertakenIsQuiet DEF Quiet
  <1>. QED  BY <1>2 DEF Rest, r

LEMMA AppendIsCarried ==
  ASSUME NEW q, Sequence(q), Carried(q), Len(q) < MaxInFlight, NEW msg, Well(msg)
  PROVE  Carried(Append(q, msg))
  <1>. DEFINE S == ToSet(q) \cup {msg}
  <1>1. q \in Seq(S) /\ Len(q) \in Nat
    BY DEF Sequence
  <1>2. Len(Append(q, msg)) = Len(q) + 1 /\ Append(q, msg) \in Seq(S)
    BY <1>1
  <1>3. \A m \in S : Well(m)
    BY DEF ToSet, Carried, AllWell
  <1>. HIDE DEF S
  <1>4. \A i \in DOMAIN Append(q, msg) : Append(q, msg)[i] \in S
    BY <1>2
  <1>5. AllWell(Append(q, msg))
    BY <1>3, <1>4 DEF AllWell
  <1>. QED  BY <1>1, <1>2, <1>5, WorkflowsAssumption DEF Carried

LEMMA PassedByAreCarried ==
  ASSUME MessageInv, MessagesType, KeyPassesBy
  PROVE  MessagesType'
  BY OvertakenAreCarried DEF MessageInv, MessagesType, Carried, KeyPassesBy

LEMMA SentAreCarried ==
  ASSUME MessageInv, MessagesType, NEW msg, Well(msg), CloseAndSend(msg)
  PROVE  MessagesType'
  <1>. DEFINE q == Overtaken(inFlight)
  <1>1. Carried(q) /\ Len(q) = Len(inFlight) /\ Sequence(q)
    BY OvertakenAreCarried, OvertakenIsQuiet DEF MessageInv, MessagesType, Carried, Quiet
  <1>2. inFlight' = Append(q, msg) /\ Len(inFlight) < MaxInFlight
    BY DEF CloseAndSend, Room
  <1>. HIDE DEF q
  <1>3. Carried(Append(q, msg))
    BY <1>1, <1>2, AppendIsCarried
  <1>. QED  BY <1>2, <1>3 DEF MessagesType, Carried

LEMMA NewMapIsCarried ==
  ASSUME MessageInv, MessageInv', MessagesType, NEW map, NewMap(map)
  PROVE  MessagesType'
  <1>1. DOMAIN inFlight' = DOMAIN inFlight
    BY DEF NewMap
  <1>2. ASSUME NEW i \in DOMAIN inFlight
        PROVE  \/ inFlight'[i] = [inFlight[i] EXCEPT !.late = TRUE, !.shared = FALSE]
               \/ inFlight'[i] = [inFlight[i] EXCEPT !.late = TRUE]
    BY DEF NewMap
  <1>3. Restamped(inFlight, inFlight')
    BY <1>1, <1>2 DEF Restamped
  <1>. QED  BY <1>3, RestampedAreCarried DEF MessageInv, MessagesType, Carried

LEMMA WrittenAreCarried ==
  ASSUME MessageInv, MessageInv', MessagesType, NEW i \in DOMAIN inFlight, NEW map,
         WriteInputs(i, map)
  PROVE  MessagesType'
  <1>. DEFINE q == Rest(i)
  <1>1. Sequence(q) /\ Carried(q)
    BY RestIsCarried
  <1>2. DOMAIN inFlight' = DOMAIN q
    BY DEF WriteInputs
  <1>3. ASSUME NEW j \in DOMAIN q
        PROVE  \/ inFlight'[j] = q[j]
               \/ inFlight'[j] = [q[j] EXCEPT !.config = [q[j].config EXCEPT !.inputs = map]]
    BY DEF WriteInputs
  <1>. HIDE DEF q
  <1>4. Restamped(q, inFlight')
    BY <1>2, <1>3 DEF Restamped
  <1>. QED  BY <1>1, <1>4, RestampedAreCarried DEF MessageInv, MessagesType, Carried

LEMMA MessagesTypeStep ==
  ASSUME MessagesType, ModalType, FormType, IInv, IInv', [Next]_vars
  PROVE  MessagesType'
  <1>0. MessageInv /\ MessageInv' /\ IndexInv
    BY DEF IInv
  <1>1. CASE UNCHANGED inFlight
    BY <1>1 DEF MessagesType, AllWell
  <1>2. CASE KeyPassesBy
    BY <1>0, <1>2, PassedByAreCarried
  <1>3. CASE \E map : NewMap(map)
    BY <1>0, <1>3, NewMapIsCarried
  <1>4. ASSUME NEW k \in Presses, PressKey(k)
        PROVE  MessagesType'
    <2>1. CASE SelectsWorkflow(k) \/ ReplaysEntry(k)
      BY <1>2, <1>3, <2>1, Zenon DEF SelectsWorkflow, InitializeInputs, ReplaysEntry
    <2>2. CASE ~SelectsWorkflow(k) /\ ~ReplaysEntry(k)
      BY <1>2, <1>4, <2>2 DEF PressKey, MovesFocus, CyclesTabs, OpensOther, HandleEscapeKey,
         SelectsEntry, SelectsInput, EnterInConfig, PreviewsEntry, EditsInput, ConfigPaneAction,
         OpenBranchModal, OpenRemapModal, Key
    <2>. QED  BY <2>1, <2>2
  <1>5. ASSUME NEW msg, Well(msg), CloseAndSend(msg)
        PROVE  MessagesType'
    BY <1>0, <1>5, SentAreCarried
  <1>6. CASE AnswerModal
    <2>1. CASE CloseModal
      BY <1>2, <2>1 DEF CloseModal
    <2>2. CASE AnswerInput
      <3>1. PICK value \in Answers(InputsOf(selectedWorkflow)[modal.name]) :
              CloseAndSend([kind |-> "answer", value |-> value, asked |-> modal.name, late |-> FALSE])
        BY <2>2 DEF AnswerInput
      <3>2. selectedWorkflow \in DOMAIN Workflows /\ modal.name \in Names(selectedWorkflow)
        BY <1>0, <2>2, SelectedIsListed DEF AnswerInput, On, ModalType
      <3>3. value \in Texts
        BY <3>1, <3>2, TextsAssumption
      <3>4. Well([kind |-> "answer", value |-> value, asked |-> modal.name, late |-> FALSE])
        BY <3>3 DEF Well
      <3>. QED  BY <1>5, <3>1, <3>4
    <2>3. CASE AnswerBranch
      <3>1. PICK ref \in Branches \cup {branch, ""} :
              CloseAndSend([kind |-> "branch", branch |-> ref, late |-> FALSE])
        BY <2>3 DEF AnswerBranch
      <3>2. ref \in Refs
        BY <3>1 DEF Refs, FormType
      <3>3. Well([kind |-> "branch", branch |-> ref, late |-> FALSE])
        BY <3>2 DEF Well
      <3>. QED  BY <1>5, <3>1, <3>3
    <2>4. CASE AnswerFilter
      <3>1. PICK text \in DOMAIN Ranking :
              CloseAndSend([kind |-> "filter", text |-> text, late |-> FALSE])
        BY <2>4 DEF AnswerFilter
      <3>2. Well([kind |-> "filter", text |-> text, late |-> FALSE])
        BY DEF Well
      <3>. QED  BY <1>5, <3>1, <3>2
    <2>5. CASE AnswerReset
      <3>1. Well([kind |-> "reset", late |-> FALSE])
        BY DEF Well
      <3>. QED  BY <1>5, <2>5, <3>1 DEF AnswerReset
    <2>6. CASE Override
      <3>1. Well([kind |-> "override", waived |-> modal.invalid, late |-> FALSE])
        BY DEF Well
      <3>. QED  BY <1>5, <2>6, <3>1 DEF Override
    <2>7. CASE AnswerRunConfirm
      <3>1. Well([kind |-> "run", config |-> modal, shared |-> TRUE, late |-> FALSE])
        BY DEF Well
      <3>. QED  BY <1>5, <2>7, <3>1 DEF AnswerRunConfirm
    <2>8. CASE SelectOption
      <3>1. PICK new :
              \/ KeyPassesBy
              \/ CloseAndSend([kind |-> "remap", decisions |-> Append(modal.decisions, new),
                               late |-> FALSE])
        BY <2>8, Zenon DEF SelectOption
      <3>2. Sequence(modal.decisions)
        BY <2>8 DEF SelectOption, On, ModalType
      <3>3. Sequence(Append(modal.decisions, new))
        <4>. DEFINE S == ToSet(modal.decisions) \cup {new}
        <4>1. modal.decisions \in Seq(ToSet(modal.decisions))
          BY <3>2 DEF Sequence
        <4>2. modal.decisions \in Seq(S) /\ new \in S
          BY <4>1
        <4>. HIDE DEF S
        <4>3. Append(modal.decisions, new) \in Seq(S)
          BY <4>2
        <4>. QED  BY <4>3, SequenceOfItsOwn
      <3>4. Well([kind |-> "remap", decisions |-> Append(modal.decisions, new), late |-> FALSE])
        BY <3>3 DEF Well
      <3>. QED  BY <1>2, <1>5, <3>1, <3>4
    <2>. QED  BY <1>6, <2>1, <2>2, <2>3, <2>4, <2>5, <2>6, <2>7, <2>8 DEF AnswerModal
  <1>7. ASSUME NEW i \in DOMAIN inFlight, HandleMessage(i)
        PROVE  MessagesType'
    <2>1. CASE inFlight' = Rest(i)
      BY <1>0, <2>1, RestIsCarried DEF MessagesType, Carried
    <2>2. CASE \E map : WriteInputs(i, map)
      BY <1>0, <2>2, WrittenAreCarried
    <2>3. CASE HandleAnswer(i) \/ HandleResetResult(i)
      BY <2>1, <2>2, <2>3, Zenon DEF HandleAnswer, HandleResetResult
    <2>4. CASE ~HandleAnswer(i) /\ ~HandleResetResult(i)
      BY <1>7, <2>1, <2>4 DEF HandleMessage, LosesMessage, HandleBranchResult, HandleFilterResult,
         HandleRemapResult, HandleValidationErrorResult, HandleRunConfirmResult, Rest
    <2>. QED  BY <2>3, <2>4
  <1>. QED  BY <1>1, <1>4, <1>6, <1>7 DEF Next, vars

----------------------------------------------------------------------------
LEMMA InitTypeInv ==
  ASSUME Init
  PROVE  TypeInv
  <1>1. 1 \in DOMAIN Workflows
    BY WorkflowsAreIndexed
  <1>2. ScreenType
    BY DEF Init, ScreenType, NextPane, NextTab
  <1>3. FormType
    BY <1>1, DefaultsAreGood DEF Init, FormType, Refs
  <1>4. ListType
    <2>. DEFINE order == Workflows[1].order
    <2>1. order \in Seq(DOMAIN Workflows[1].inputs)
      BY <1>1, WorkflowsAssumption
    <2>2. /\ inputOrder = order /\ filteredInputs = order
          /\ filterText = "" /\ selectedInput = NoInput
      BY DEF Init
    <2>. HIDE DEF order
    <2>3. Sequence(order) /\ Len(order) \in Nat
      BY <2>1, SequenceOfItsOwn
    <2>. DEFINE last == IF filteredInputs = <<>> THEN 1 ELSE Len(filteredInputs)
    <2>4. last \in Nat
      BY <2>2, <2>3
    <2>. HIDE DEF last
    <2>5. NoInput \in NoInput..last
      BY <2>4, NoInputIsFirst
    <2>. QED  BY <2>2, <2>3, <2>5 DEF ListType, Sequence, last
  <1>5. RunsType
    <2>1. \A i \in DOMAIN entries : IsRun(entries[i])
      BY <1>1, ListedAreRuns DEF Init
    <2>2. Good(<<>>)
      BY DEF Good
    <2>3. NoPreview.at >= -1 /\ NoPreview.entry = [branch |-> "", inputs |-> <<>>]
      BY DEF NoPreview
    <2>4. IsRun([branch |-> "", inputs |-> <<>>])
      BY <2>2 DEF IsRun, Refs
    <2>. QED  BY <2>1, <2>3, <2>4 DEF Init, RunsType
  <1>6. ModalType
    BY DEF Init, NoModal, ModalType
  <1>7. MessagesType
    <2>1. inFlight = <<>>
      BY DEF Init
    <2>2. DOMAIN <<>> = {} /\ Len(<<>>) = 0
      OBVIOUS
    <2>. QED  BY <2>1, <2>2, WorkflowsAssumption DEF MessagesType, AllWell
  <1>. QED  BY <1>2, <1>3, <1>4, <1>5, <1>6, <1>7 DEF TypeInv

LEMMA TypeInvHolds ==
  ASSUME TypeInv, IInv
  PROVE  TypeOK
  <1>1. ToSet(filteredInputs) \subseteq ToSet(inputOrder)
    <2>1. filteredInputs \in Seq(ToSet(inputOrder))
      BY DEF TypeInv, ListType
    <2>2. \A i \in DOMAIN filteredInputs : filteredInputs[i] \in ToSet(inputOrder)
      BY <2>1
    <2>3. ToSet(filteredInputs) = {filteredInputs[i] : i \in DOMAIN filteredInputs}
      BY DEF ToSet
    <2>. QED  BY <2>2, <2>3
  <1>2. previewing.at \in -1..Len(entries)
    <2>1. Len(entries) \in Nat /\ DOMAIN entries = 1..Len(entries)
      BY DEF IInv, IndexInv, Sequence
    <2>2. previewing.at \in Int /\ previewing.at >= -1
      BY DEF IInv, PreviewInv, TypeInv, RunsType
    <2>3. previewing.at > 0 => previewing.at <= Len(entries)
      BY <2>1 DEF IInv, PreviewInv
    <2>. QED  BY <2>1, <2>2, <2>3
  <1>. QED
    BY <1>1, <1>2 DEF TypeOK, TypeInv, ScreenType, FormType, Good, ListType, MessagesType, IInv,
       IndexInv

(* Whatever is typed, chosen, replayed and answered late, the form's values *)
(* are texts, its cursors are in their lists and its messages fit: for all  *)
(* workflows, histories and rankings (handlers.go, helpers.go).             *)
THEOREM TypeCorrect == Spec => []TypeOK
  <1>1. Init => TypeInv
    BY InitTypeInv
  <1>2. TypeInv /\ IInv /\ IInv' /\ [Next]_vars => TypeInv'
    BY ScreenStep, FormStep, ListStep, RunsStep, ModalTypeStep, MessagesTypeStep DEF TypeInv
  <1>3. TypeInv /\ IInv => TypeOK
    BY TypeInvHolds
  <1>. QED  BY <1>1, <1>2, <1>3, Invariant, PTL DEF Spec

=============================================================================
