-------------------------- MODULE AppSessionProofs --------------------------
(***************************************************************************)
(* Theorems about the session, for all sets of chains, capacities and      *)
(* bounds.                                                                 *)
(***************************************************************************)
EXTENDS AppSession, SequenceTheorems, FiniteSetTheorems, TLAPS

----------------------------------------------------------------------------
(* Bags *)

Copies(m, bag) == IF m \in DOMAIN bag THEN bag[m] ELSE 0

LEMMA PutSet ==
  ASSUME NEW bag, NEW m
  PROVE  BagToSet(bag (+) SetToBag({m})) = BagToSet(bag) \cup {m}
  BY DEF BagToSet, SetToBag, (+)

LEMMA TakeSet ==
  ASSUME NEW bag, NEW m
  PROVE  BagToSet(bag (-) SetToBag({m})) \subseteq BagToSet(bag)
  BY DEF BagToSet, SetToBag, (-)

LEMMA PutCopies ==
  ASSUME NEW bag, IsABag(bag), NEW m
  PROVE  /\ IsABag(bag (+) SetToBag({m}))
         /\ \A x : Copies(x, bag (+) SetToBag({m})) = Copies(x, bag) + IF x = m THEN 1 ELSE 0
  BY DEF IsABag, Copies, SetToBag, (+)

LEMMA TakeCopies ==
  ASSUME NEW bag, IsABag(bag), NEW m, BagIn(m, bag)
  PROVE  /\ IsABag(bag (-) SetToBag({m}))
         /\ \A x : Copies(x, bag (-) SetToBag({m})) = Copies(x, bag) - IF x = m THEN 1 ELSE 0
  BY DEF IsABag, BagIn, BagToSet, Copies, SetToBag, (-)

----------------------------------------------------------------------------
(* Types *)

LEMMA PushOK ==
  ASSUME modals \in Seq(Modal), NEW m \in Modal, Push(m)
  PROVE  modals' \in Seq(Modal)
  BY DEF Push

LEMMA PopOK ==
  ASSUME modals \in Seq(Modal), modals # <<>>, modals' = SubSeq(modals, 1, Len(modals) - 1)
  PROVE  /\ modals' \in Seq(Modal)
         /\ \A i \in DOMAIN modals' : i \in DOMAIN modals /\ modals'[i] = modals[i]
         /\ modals[Len(modals)] \in Modal
  OBVIOUS

LEMMA SendOK ==
  ASSUME BagToSet(inFlight) \subseteq Message, NEW m \in Message,
         inFlight' = inFlight (+) SetToBag({m})
  PROVE  BagToSet(inFlight') \subseteq Message
  <1>1. BagToSet(inFlight') = BagToSet(inFlight) \cup {m}
    BY PutSet
  <1>. QED  BY <1>1

LEMMA TakeOK ==
  ASSUME BagToSet(inFlight) \subseteq Message, NEW m, Take(m)
  PROVE  BagToSet(inFlight') \subseteq Message /\ m \in Message
  BY TakeSet DEF Take, BagIn

LEMMA RecordOK ==
  ASSUME history \in [Chains \cup {None} -> Entry],
         NEW name \in Chains \cup {None}, NEW results \in Nat, RecordChain(name, results)
  PROVE  history' \in [Chains \cup {None} -> Entry]
  <1>. DEFINE counted == [history EXCEPT ![name].runCount = @ + 1]
  <1>1. counted \in [Chains \cup {None} -> Entry]
    BY DEF Entry
  <1>2. history' = [counted EXCEPT ![name].results = results]
    BY DEF RecordChain
  <1>. HIDE DEF counted
  <1>. QED  BY <1>1, <1>2 DEF Entry

(* Executors keep their number and their names, or one is added.            *)
ExecutorsOK ==
  /\ executors \in Seq(Executor)
  /\ \A e \in DOMAIN executors : Len(executors[e].updates) <= UpdateCap

SameExecutors ==
  /\ Len(executors') = Len(executors)
  /\ \A e \in DOMAIN executors : executors'[e].name = executors[e].name

LEMMA ReplaceOK ==
  ASSUME ExecutorsOK, NEW e \in DOMAIN executors,
         NEW r \in Executor, r.name = executors[e].name, Len(r.updates) <= UpdateCap,
         executors' = [executors EXCEPT ![e] = r]
  PROVE  ExecutorsOK' /\ SameExecutors
  BY DEF ExecutorsOK, SameExecutors

LEMMA SentOK ==
  ASSUME ExecutorsOK, NEW e \in DOMAIN executors, NEW status \in {"running", "completed"}
  PROVE  Sent(e, status) \in Seq({"running", "completed"}) /\ Len(Sent(e, status)) <= UpdateCap
  <1>. DEFINE updates == executors[e].updates
  <1>0. executors[e] \in Executor /\ Len(executors[e].updates) <= UpdateCap
    BY DEF ExecutorsOK
  <1>1. updates \in Seq({"running", "completed"}) /\ Len(updates) <= UpdateCap
    BY <1>0 DEF Executor
  <1>. HIDE DEF updates
  <1>2. Append(updates, status) \in Seq({"running", "completed"})
        /\ Len(Append(updates, status)) = Len(updates) + 1
    BY <1>1
  <1>. QED  BY <1>1, <1>2, SessionBounds DEF Sent, updates

LEMMA ReceiveOK ==
  ASSUME ExecutorsOK, NEW e \in DOMAIN executors, Receive(e)
  PROVE  ExecutorsOK' /\ SameExecutors
  <1>1. CASE UNCHANGED executors
    BY <1>1 DEF ExecutorsOK, SameExecutors
  <1>2. CASE executors[e].updates # <<>> /\ executors' = [executors EXCEPT ![e].updates = Tail(@)]
    <2>. DEFINE rest == Tail(executors[e].updates)
                r    == [executors[e] EXCEPT !.updates = rest]
    <2>1. executors[e] \in Executor /\ Len(executors[e].updates) <= UpdateCap
      BY DEF ExecutorsOK
    <2>2. executors[e].updates \in Seq({"running", "completed"})
      BY <2>1 DEF Executor
    <2>3. rest \in Seq({"running", "completed"}) /\ Len(rest) <= UpdateCap
      BY <1>2, <2>1, <2>2, SessionBounds
    <2>4. executors' = [executors EXCEPT ![e] = r]
      BY <1>2
    <2>. HIDE DEF rest
    <2>5. r \in Executor /\ r.name = executors[e].name /\ r.updates = rest
      BY <2>1, <2>3 DEF Executor
    <2>. HIDE DEF r
    <2>. QED  BY <2>3, <2>4, <2>5, ReplaceOK
  <1>. QED  BY <1>1, <1>2 DEF Receive

LEMMA ReportsOK ==
  ASSUME ExecutorsOK, NEW e \in DOMAIN executors, ExecutorReports(e)
  PROVE  ExecutorsOK' /\ SameExecutors
  <1>. DEFINE sent == Sent(e, "running")
              r == [executors[e] EXCEPT !.updates = sent]
  <1>1. executors[e] \in Executor
    BY DEF ExecutorsOK
  <1>2. sent \in Seq({"running", "completed"}) /\ Len(sent) <= UpdateCap
    BY SentOK
  <1>3. executors' = [executors EXCEPT ![e] = r]
    BY DEF ExecutorReports
  <1>. HIDE DEF sent
  <1>4. r \in Executor /\ r.name = executors[e].name /\ r.updates = sent
    BY <1>1, <1>2 DEF Executor
  <1>. HIDE DEF r
  <1>. QED  BY <1>2, <1>3, <1>4, ReplaceOK

LEMMA EndsOK ==
  ASSUME ExecutorsOK, NEW e \in DOMAIN executors, ExecutorEnds(e)
  PROVE  ExecutorsOK' /\ SameExecutors
  <1>1. executors[e] \in Executor /\ Len(executors[e].updates) <= UpdateCap
    BY DEF ExecutorsOK
  <1>2. CASE executors' = [executors EXCEPT ![e].updates = Sent(e, "completed"), ![e].end = "completed"]
    <2>. DEFINE sent == Sent(e, "completed")
                told == [executors[e] EXCEPT !.updates = sent]
                r    == [told EXCEPT !.end = "completed"]
    <2>1. sent \in Seq({"running", "completed"}) /\ Len(sent) <= UpdateCap
      BY SentOK
    <2>2. executors' = [[executors EXCEPT ![e].updates = sent] EXCEPT ![e].end = "completed"]
      BY <1>2
    <2>. HIDE DEF sent
    <2>3. told \in Executor /\ told.name = executors[e].name /\ told.updates = sent
      BY <1>1, <2>1 DEF Executor
    <2>4. executors' = [executors EXCEPT ![e] = r]
      BY <2>2
    <2>. HIDE DEF told
    <2>5. r \in Executor /\ r.name = executors[e].name /\ r.updates = sent
      BY <2>3 DEF Executor
    <2>. HIDE DEF r
    <2>. QED  BY <2>1, <2>4, <2>5, ReplaceOK
  <1>3. CASE executors' = [executors EXCEPT ![e].end = "silent"]
    <2>. DEFINE r == [executors[e] EXCEPT !.end = "silent"]
    <2>1. r \in Executor /\ r.name = executors[e].name /\ r.updates = executors[e].updates
      BY <1>1 DEF Executor
    <2>2. executors' = [executors EXCEPT ![e] = r]
      BY <1>3
    <2>. HIDE DEF r
    <2>. QED  BY <1>1, <2>1, <2>2, ReplaceOK
  <1>. QED  BY <1>2, <1>3 DEF ExecutorEnds

LEMMA StopOK ==
  ASSUME ExecutorsOK, NEW msg, HandleChainStatusStop(msg)
  PROVE  ExecutorsOK' /\ SameExecutors
  <1>. DEFINE r(e) == [executors[e] EXCEPT !.stopped = @ \/ e = chainExecutor]
  <1>1. executors' = [e \in DOMAIN executors |-> r(e)]
    BY DEF HandleChainStatusStop
  <1>2. ASSUME NEW e \in DOMAIN executors
        PROVE  /\ r(e) \in Executor /\ r(e).name = executors[e].name
               /\ r(e).updates = executors[e].updates
    <2>1. executors[e] \in Executor
      BY DEF ExecutorsOK
    <2>2. (executors[e].stopped \/ e = chainExecutor) \in BOOLEAN
      OBVIOUS
    <2>. QED  BY <2>1, <2>2 DEF Executor
  <1>. HIDE DEF r
  <1>. QED  BY <1>1, <1>2 DEF ExecutorsOK, SameExecutors

----------------------------------------------------------------------------
(* Type correctness *)

LEMMA TypeInit == Init => TypeOK
  <1>. SUFFICES ASSUME Init PROVE TypeOK
    OBVIOUS
  <1>1. BagToSet(inFlight) = {} /\ BagToSet(receivers) = {}
    BY DEF Init, EmptyBag, SetToBag, BagToSet
  <1>2. overtaken \in BOOLEAN
    BY DEF Init
  <1>3. /\ modals = <<>> /\ executors = <<>>
        /\ pendingChain = None /\ chainExecutor = 0 /\ executingChain = None
        /\ history = [c \in Chains \cup {None} |-> [runCount |-> 0, results |-> 0]]
        /\ confirmed = [c \in Chains |-> 0]
    BY DEF Init
  <1>. QED  BY <1>1, <1>2, <1>3 DEF TypeOK, Entry

(* What keeps the executors, or at least their number, keeps what refers to *)
(* them.                                                                    *)
LEMMA TypeKept ==
  ASSUME TypeOK, ExecutorsOK', SameExecutors,
         modals' \in Seq(Modal), BagToSet(inFlight') \subseteq Message,
         BagToSet(receivers') \subseteq DOMAIN executors,
         pendingChain' \in Chains \cup {None}, chainExecutor' \in 0..Len(executors),
         executingChain' \in Chains \cup {None}, history' \in [Chains \cup {None} -> Entry],
         confirmed' \in [Chains -> Nat], overtaken' \in BOOLEAN
  PROVE  TypeOK'
  <1>1. DOMAIN executors' = DOMAIN executors
    BY DEF TypeOK, ExecutorsOK, SameExecutors
  <1>. QED  BY <1>1 DEF TypeOK, ExecutorsOK, SameExecutors

LEMMA TypeUnchangedExecutors ==
  ASSUME TypeOK, UNCHANGED executors
  PROVE  ExecutorsOK' /\ SameExecutors
  BY DEF TypeOK, ExecutorsOK, SameExecutors

LEMMA StartChainFlowOK ==
  ASSUME NEW c, StartChainFlow(c)
  PROVE  overtaken' \in BOOLEAN
  BY DEF StartChainFlow

LEMMA KeysType ==
  ASSUME TypeOK,
         \/ \E c \in Chains : EnterOnChain(c)
         \/ OpenChainSelectModal
         \/ AnswerModal
  PROVE  TypeOK'
  <1>1. /\ modals \in Seq(Modal) /\ BagToSet(inFlight) \subseteq Message
        /\ BagToSet(receivers) \subseteq DOMAIN executors
        /\ pendingChain \in Chains \cup {None} /\ chainExecutor \in 0..Len(executors)
        /\ executingChain \in Chains \cup {None} /\ history \in [Chains \cup {None} -> Entry]
        /\ confirmed \in [Chains -> Nat] /\ overtaken \in BOOLEAN
    BY DEF TypeOK
  <1>2. ASSUME NEW c \in Chains, EnterOnChain(c)
        PROVE  TypeOK'
    <2>1. [kind |-> IF c \in Asking THEN "variables" ELSE "confirm", chain |-> c] \in Modal
      BY DEF Modal
    <2>2. modals' \in Seq(Modal) /\ pendingChain' = c /\ overtaken' \in BOOLEAN
      BY <1>1, <1>2, <2>1, PushOK, StartChainFlowOK DEF EnterOnChain, StartChainFlow
    <2>3. UNCHANGED <<inFlight, receivers, chainExecutor, executingChain, history, executors, confirmed>>
      BY <1>2 DEF EnterOnChain
    <2>. QED  BY <1>1, <2>2, <2>3, TypeKept, TypeUnchangedExecutors
  <1>3. CASE OpenChainSelectModal
    <2>1. [kind |-> "select"] \in Modal
      BY DEF Modal
    <2>2. modals' \in Seq(Modal)
      BY <1>1, <1>3, <2>1, PushOK DEF OpenChainSelectModal
    <2>3. UNCHANGED <<inFlight, receivers, pendingChain, chainExecutor, executingChain, history,
                      executors, confirmed, overtaken>>
      BY <1>3 DEF OpenChainSelectModal
    <2>. QED  BY <1>1, <2>2, <2>3, TypeKept, TypeUnchangedExecutors
  <1>4. CASE CloseModal
    <2>1. modals' \in Seq(Modal)
      BY <1>1, <1>4, PopOK DEF CloseModal, On
    <2>2. UNCHANGED <<inFlight, receivers, pendingChain, chainExecutor, executingChain, history,
                      executors, confirmed, overtaken>>
      BY <1>4 DEF CloseModal
    <2>. QED  BY <1>1, <2>1, <2>2, TypeKept, TypeUnchangedExecutors
  <1>5. ASSUME NEW msg \in Message, modals # <<>>, PopAndSend(msg), confirmed' \in [Chains -> Nat],
               UNCHANGED <<receivers, pendingChain, chainExecutor, executingChain, history, executors,
                           overtaken>>
        PROVE  TypeOK'
    <2>1. modals' \in Seq(Modal)
      BY <1>1, <1>5, PopOK DEF PopAndSend
    <2>2. BagToSet(inFlight') \subseteq Message
      BY <1>1, <1>5, SendOK DEF PopAndSend
    <2>. QED  BY <1>1, <1>5, <2>1, <2>2, TypeKept, TypeUnchangedExecutors
  <1>6. CASE StopInStatus
    <2>1. [kind |-> "stop"] \in Message
      BY DEF Message
    <2>. QED  BY <1>1, <1>5, <1>6, <2>1 DEF StopInStatus, On
  <1>7. ASSUME NEW c \in Chains, SelectChain(c)
        PROVE  TypeOK'
    <2>1. [kind |-> "selected", chain |-> c] \in Message
      BY DEF Message
    <2>. QED  BY <1>1, <1>5, <1>7, <2>1 DEF SelectChain, On
  <1>8. ASSUME NEW b \in BOOLEAN, AnswerVariables(b)
        PROVE  TypeOK'
    <2>1. [kind |-> "variables", canceled |-> b] \in Message
      BY DEF Message
    <2>. QED  BY <1>1, <1>5, <1>8, <2>1 DEF AnswerVariables, On
  <1>9. ASSUME NEW b \in BOOLEAN, AnswerConfirm(b)
        PROVE  TypeOK'
    <2>1. modals # <<>> /\ Top \in Modal /\ Top.kind = "confirm"
      BY <1>1, <1>9, PopOK DEF AnswerConfirm, On, Top, PopAndSend
    <2>2. Top.chain \in Chains
      BY <2>1 DEF Modal
    <2>3. [kind |-> "confirm", chain |-> Top.chain, confirmed |-> b] \in Message
      BY <2>2 DEF Message
    <2>4. confirmed' \in [Chains -> Nat]
      BY <1>1, <1>9, <2>2 DEF AnswerConfirm
    <2>. QED  BY <1>5, <1>9, <2>1, <2>3, <2>4 DEF AnswerConfirm
  <1>. QED  BY <1>2, <1>3, <1>4, <1>6, <1>7, <1>8, <1>9 DEF AnswerModal

LEMMA MessagesType ==
  ASSUME TypeOK, HandleMessage
  PROVE  TypeOK'
  <1>1. /\ modals \in Seq(Modal) /\ BagToSet(inFlight) \subseteq Message
        /\ BagToSet(receivers) \subseteq DOMAIN executors
        /\ pendingChain \in Chains \cup {None} /\ chainExecutor \in 0..Len(executors)
        /\ executingChain \in Chains \cup {None} /\ history \in [Chains \cup {None} -> Entry]
        /\ confirmed \in [Chains -> Nat] /\ overtaken \in BOOLEAN /\ ExecutorsOK
    BY DEF TypeOK, ExecutorsOK
  <1>2. PICK msg \in BagToSet(inFlight) :
          \/ GoesToModal(msg)
          \/ HandleChainSelectResult(msg)
          \/ HandleChainVariableResult(msg)
          \/ DeclineChain(msg)
          \/ HandleChainConfirmResult(msg)
          \/ HandleChainStatusStop(msg)
          \/ HandleChainUpdate(msg)
    BY DEF HandleMessage
  <1>3. Take(msg)
    BY <1>2 DEF GoesToModal, HandleChainSelectResult, HandleChainVariableResult, DeclineChain,
       HandleChainConfirmResult, HandleChainStatusStop, HandleChainUpdate
  <1>4. BagToSet(inFlight') \subseteq Message /\ msg \in Message
    BY <1>1, <1>3, TakeOK
  <1>5. CASE GoesToModal(msg)
    <2>1. UNCHANGED <<modals, pendingChain, chainExecutor, executingChain, receivers, history,
                      executors, confirmed, overtaken>>
      BY <1>5 DEF GoesToModal, model
    <2>. QED  BY <1>1, <1>4, <2>1, TypeKept, TypeUnchangedExecutors
  <1>6. CASE HandleChainSelectResult(msg)
    <2>. DEFINE c == msg.chain
    <2>1. c \in Chains
      BY <1>4, <1>6 DEF HandleChainSelectResult, Message
    <2>2. [kind |-> IF c \in Asking THEN "variables" ELSE "confirm", chain |-> c] \in Modal
      BY <2>1 DEF Modal
    <2>3. modals' \in Seq(Modal) /\ pendingChain' = c /\ overtaken' \in BOOLEAN
      BY <1>1, <1>6, <2>2, PushOK, StartChainFlowOK DEF HandleChainSelectResult, StartChainFlow
    <2>4. UNCHANGED <<receivers, chainExecutor, executingChain, history, executors, confirmed>>
      BY <1>6 DEF HandleChainSelectResult
    <2>. QED  BY <1>1, <1>4, <2>1, <2>3, <2>4, TypeKept, TypeUnchangedExecutors
  <1>7. CASE HandleChainVariableResult(msg)
    <2>1. /\ modals' \in Seq(Modal) /\ pendingChain' \in Chains \cup {None}
          /\ overtaken' \in BOOLEAN
      <3>1. CASE msg.canceled \/ pendingChain = None
        BY <1>1, <1>7, <3>1 DEF HandleChainVariableResult, ClearPending
      <3>2. CASE ~(msg.canceled \/ pendingChain = None)
        <4>1. [kind |-> "confirm", chain |-> pendingChain] \in Modal
          BY <1>1, <3>2 DEF Modal
        <4>2. Push([kind |-> "confirm", chain |-> pendingChain]) /\ UNCHANGED <<pendingChain, overtaken>>
          BY <1>7, <3>2 DEF HandleChainVariableResult
        <4>. QED  BY <1>1, <4>1, <4>2, PushOK
      <3>. QED  BY <3>1, <3>2
    <2>2. UNCHANGED <<receivers, chainExecutor, executingChain, history, executors, confirmed>>
      BY <1>7 DEF HandleChainVariableResult
    <2>. QED  BY <1>1, <1>4, <2>1, <2>2, TypeKept, TypeUnchangedExecutors
  <1>8. CASE DeclineChain(msg)
    BY <1>1, <1>4, <1>8, TypeKept, TypeUnchangedExecutors DEF DeclineChain, ClearPending
  <1>9. CASE HandleChainConfirmResult(msg)
    <2>. DEFINE new == NewExecutor(msg.chain, pendingChain)
    <2>1. msg.chain \in Chains /\ pendingChain \in Chains
      BY <1>1, <1>4, <1>9 DEF HandleChainConfirmResult, Message
    <2>2. new \in Executor /\ new.updates = <<>>
      BY <2>1 DEF NewExecutor, Executor
    <2>3. executors' = Append(executors, new)
      BY <1>9 DEF HandleChainConfirmResult
    <2>. HIDE DEF new
    <2>4. /\ executors' \in Seq(Executor)
          /\ Len(executors') = Len(executors) + 1
          /\ DOMAIN executors' = DOMAIN executors \cup {Len(executors')}
      BY <1>1, <2>2, <2>3 DEF ExecutorsOK
    <2>5. \A e \in DOMAIN executors' : Len(executors'[e].updates) <= UpdateCap
      BY <1>1, <2>2, <2>3, SessionBounds DEF ExecutorsOK
    <2>6. [kind |-> "status", executor |-> Len(executors')] \in Modal
      BY <1>1, <2>4 DEF Modal, ExecutorsOK
    <2>7. modals' \in Seq(Modal)
      BY <1>1, <1>9, <2>6, PushOK DEF HandleChainConfirmResult
    <2>8. BagToSet(receivers') \subseteq DOMAIN executors'
      <3>1. receivers' = receivers (+) SetToBag({Len(executors')})
        BY <1>1, <1>9, <2>4 DEF HandleChainConfirmResult, ChainSubscription, ExecutorsOK
      <3>2. BagToSet(receivers') = BagToSet(receivers) \cup {Len(executors')}
        BY <3>1, PutSet
      <3>. QED  BY <1>1, <2>4, <3>2
    <2>9. history' \in [Chains \cup {None} -> Entry]
      BY <1>1, <1>9, <2>1, RecordOK DEF HandleChainConfirmResult
    <2>10. /\ chainExecutor' = Len(executors') /\ executingChain' = msg.chain
           /\ pendingChain' = None /\ overtaken' \in BOOLEAN /\ UNCHANGED confirmed
      BY <1>9 DEF HandleChainConfirmResult, ClearPending
    <2>. QED  BY <1>1, <1>4, <2>1, <2>4, <2>5, <2>7, <2>8, <2>9, <2>10 DEF TypeOK
  <1>10. CASE HandleChainStatusStop(msg)
    <2>1. ExecutorsOK' /\ SameExecutors
      BY <1>1, <1>10, StopOK
    <2>2. /\ chainExecutor' = 0
          /\ UNCHANGED <<modals, receivers, pendingChain, executingChain, history, confirmed,
                         overtaken>>
      BY <1>10 DEF HandleChainStatusStop
    <2>. QED  BY <1>1, <1>4, <2>1, <2>2, TypeKept
  <1>11. CASE HandleChainUpdate(msg)
    <2>1. /\ BagToSet(receivers') \subseteq DOMAIN executors
          /\ chainExecutor' \in 0..Len(executors)
          /\ executingChain' \in Chains \cup {None}
          /\ history' \in [Chains \cup {None} -> Entry]
      <3>1. CASE chainExecutor = 0 /\ UNCHANGED <<receivers, chainExecutor, executingChain, history>>
        BY <1>1, <3>1
      <3>2. CASE /\ RecordChain(executingChain, msg.executor)
                 /\ executingChain' = None /\ chainExecutor' = 0 /\ UNCHANGED receivers
        <4>1. msg.executor \in Nat
          BY <1>4, <1>11 DEF HandleChainUpdate, Message
        <4>2. 0 \in 0..Len(executors)
          BY <1>1
        <4>. QED  BY <1>1, <3>2, <4>1, <4>2, RecordOK
      <3>3. CASE /\ chainExecutor # 0 /\ ChainSubscription(chainExecutor)
                 /\ UNCHANGED <<chainExecutor, executingChain, history>>
        <4>1. BagToSet(receivers') = BagToSet(receivers) \cup {chainExecutor}
          BY <3>3, PutSet DEF ChainSubscription
        <4>2. chainExecutor \in DOMAIN executors
          BY <1>1, <3>3 DEF ExecutorsOK
        <4>. QED  BY <1>1, <3>3, <4>1, <4>2
      <3>. QED  BY <1>11, <3>1, <3>2, <3>3 DEF HandleChainUpdate
    <2>2. UNCHANGED <<modals, pendingChain, executors, confirmed, overtaken>>
      BY <1>11 DEF HandleChainUpdate
    <2>. QED  BY <1>1, <1>4, <2>1, <2>2, TypeKept, TypeUnchangedExecutors
  <1>. QED  BY <1>2, <1>5, <1>6, <1>7, <1>8, <1>9, <1>10, <1>11

LEMMA GoroutinesType ==
  ASSUME TypeOK, NEW e \in DOMAIN executors, Receive(e) \/ ExecutorReports(e) \/ ExecutorEnds(e)
  PROVE  TypeOK'
  <1>1. ExecutorsOK
    BY DEF TypeOK, ExecutorsOK
  <1>2. ExecutorsOK' /\ SameExecutors
    BY <1>1, ReceiveOK, ReportsOK, EndsOK
  <1>3. UNCHANGED <<modals, pendingChain, chainExecutor, executingChain, history, confirmed,
                  overtaken>>
    BY DEF Receive, ExecutorReports, ExecutorEnds, model
  <1>4. BagToSet(receivers') \subseteq DOMAIN executors /\ BagToSet(inFlight') \subseteq Message
    <2>1. CASE UNCHANGED <<inFlight, receivers>>
      BY <2>1 DEF TypeOK
    <2>2. CASE Receive(e)
      <3>1. BagToSet(receivers') \subseteq DOMAIN executors
        BY <2>2, TakeSet DEF Receive, TypeOK
      <3>2. PICK status \in {"running", "completed", "zero"} :
              inFlight' = inFlight (+) SetToBag({[kind |-> "update", executor |-> e, status |-> status]})
        <4>1. CASE executors[e].updates # <<>>
          <5>1. executors[e] \in Executor
            BY <1>1 DEF ExecutorsOK
          <5>2. executors[e].updates \in Seq({"running", "completed"})
            BY <5>1 DEF Executor
          <5>3. Head(executors[e].updates) \in {"running", "completed"}
            BY <4>1, <5>2
          <5>. QED  BY <2>2, <4>1, <5>3 DEF Receive
        <4>2. CASE executors[e].updates = <<>>
          BY <2>2, <4>2 DEF Receive
        <4>. QED  BY <4>1, <4>2
      <3>3. e \in Nat \ {0}
        BY <1>1 DEF ExecutorsOK
      <3>4. [kind |-> "update", executor |-> e, status |-> status] \in Message
        BY <3>3 DEF Message
      <3>5. BagToSet(inFlight') \subseteq Message
        BY <3>2, <3>4, SendOK DEF TypeOK
      <3>. QED  BY <3>1, <3>5
    <2>. QED  BY <2>1, <2>2 DEF ExecutorReports, ExecutorEnds
  <1>. QED  BY <1>2, <1>3, <1>4, TypeKept DEF TypeOK

LEMMA TypeStep == TypeOK /\ [Next]_vars => TypeOK'
  <1>1. TypeOK /\ UNCHANGED vars => TypeOK'
    BY DEF TypeOK, vars, model
  <1>. QED  BY <1>1, KeysType, MessagesType, GoroutinesType DEF Next

(* Every variable of the session keeps its type: whatever is in flight, the *)
(* executors that messages, modals and subscriptions name exist.            *)
THEOREM TypeCorrect == Spec => []TypeOK
  BY TypeInit, TypeStep, PTL DEF Spec

----------------------------------------------------------------------------
(* What the status modal shows, and under which name results are recorded *)

(* Modals are opened while none is open.                                    *)
LEMMA OnlyModal ==
  ASSUME modals = <<>>, NEW m, Push(m)
  PROVE  DOMAIN modals' = {1} /\ modals'[1] = m
  BY DEF Push

LEMMA ExecutorsStep ==
  ASSUME TypeOK, [Next]_vars,
         \A msg : ~HandleChainConfirmResult(msg)
  PROVE  ExecutorsOK' /\ SameExecutors
  <1>1. ExecutorsOK
    BY DEF TypeOK, ExecutorsOK
  <1>2. CASE UNCHANGED executors
    BY <1>2, TypeUnchangedExecutors
  <1>3. ASSUME NEW e \in DOMAIN executors, Receive(e) \/ ExecutorReports(e) \/ ExecutorEnds(e)
        PROVE  ExecutorsOK' /\ SameExecutors
    BY <1>1, <1>3, ReceiveOK, ReportsOK, EndsOK
  <1>4. ASSUME NEW msg, HandleChainStatusStop(msg)
        PROVE  ExecutorsOK' /\ SameExecutors
    BY <1>1, <1>4, StopOK
  <1>5. CASE \/ \E c \in Chains : EnterOnChain(c)
             \/ OpenChainSelectModal
             \/ AnswerModal
    BY <1>2, <1>5 DEF EnterOnChain, OpenChainSelectModal, AnswerModal, CloseModal, StopInStatus,
       SelectChain, AnswerVariables, AnswerConfirm
  <1>6. CASE HandleMessage
    BY <1>2, <1>4, <1>6 DEF HandleMessage, GoesToModal, HandleChainSelectResult,
       HandleChainVariableResult, DeclineChain, HandleChainUpdate
  <1>. QED  BY <1>2, <1>3, <1>5, <1>6 DEF Next, vars

LEMMA StatusStep ==
  ASSUME TypeOK, StatusShowsExecutor, [Next]_vars
  PROVE  StatusShowsExecutor'
  <1>1. CASE UNCHANGED <<modals, chainExecutor>>
    BY <1>1 DEF StatusShowsExecutor
  <1>2. ASSUME NEW m, NoModal, Push(m), m.kind = "status" => m.executor = chainExecutor'
        PROVE  StatusShowsExecutor'
    BY <1>2, OnlyModal DEF NoModal, StatusShowsExecutor
  <1>3. CASE NoModal /\ UNCHANGED modals
    BY <1>3 DEF NoModal, StatusShowsExecutor
  <1>4. CASE /\ modals # <<>> /\ modals' = SubSeq(modals, 1, Len(modals) - 1)
             /\ UNCHANGED chainExecutor
    BY <1>4, PopOK DEF TypeOK, StatusShowsExecutor
  <1>5. ASSUME NEW c, NoModal, StartChainFlow(c)
        PROVE  StatusShowsExecutor'
    BY <1>2, <1>5 DEF StartChainFlow
  <1>6. CASE \/ \E c \in Chains : EnterOnChain(c)
             \/ OpenChainSelectModal
    BY <1>2, <1>5, <1>6 DEF EnterOnChain, OpenChainSelectModal
  <1>7. CASE AnswerModal
    BY <1>4, <1>7 DEF AnswerModal, CloseModal, StopInStatus, SelectChain, AnswerVariables,
       AnswerConfirm, PopAndSend, On
  <1>8. ASSUME NEW msg, HandleChainVariableResult(msg)
        PROVE  StatusShowsExecutor'
    BY <1>2, <1>3, <1>8 DEF HandleChainVariableResult
  <1>9. ASSUME NEW msg, HandleChainConfirmResult(msg)
        PROVE  StatusShowsExecutor'
    BY <1>2, <1>9 DEF HandleChainConfirmResult
  <1>10. CASE HandleMessage
    BY <1>1, <1>3, <1>5, <1>8, <1>9, <1>10 DEF HandleMessage, GoesToModal, HandleChainSelectResult,
       DeclineChain, HandleChainStatusStop, HandleChainUpdate, model
  <1>11. CASE \E e \in DOMAIN executors : Receive(e) \/ ExecutorReports(e) \/ ExecutorEnds(e)
    BY <1>1, <1>11 DEF Receive, ExecutorReports, ExecutorEnds, model
  <1>. QED  BY <1>1, <1>6, <1>7, <1>10, <1>11 DEF Next, vars, model

LEMMA MetadataStep ==
  ASSUME TypeOK, MetadataMatchesExecutor, [Next]_vars
  PROVE  MetadataMatchesExecutor'
  <1>1. CASE chainExecutor' = 0
    BY <1>1 DEF MetadataMatchesExecutor
  <1>2. CASE UNCHANGED <<chainExecutor, executingChain>> /\ SameExecutors
    BY <1>2 DEF TypeOK, SameExecutors, MetadataMatchesExecutor
  <1>3. ASSUME NEW msg, HandleChainConfirmResult(msg)
        PROVE  MetadataMatchesExecutor'
    <2>. DEFINE new == NewExecutor(msg.chain, pendingChain)
    <2>1. new.name = msg.chain
      BY DEF NewExecutor
    <2>2. /\ executors' = Append(executors, new)
          /\ chainExecutor' = Len(executors') /\ executingChain' = msg.chain
      BY <1>3 DEF HandleChainConfirmResult
    <2>. HIDE DEF new
    <2>3. executors'[chainExecutor'] = new
      BY <2>2 DEF TypeOK
    <2>. QED  BY <2>1, <2>2, <2>3 DEF MetadataMatchesExecutor
  <1>4. CASE \A msg : ~HandleChainConfirmResult(msg)
    <2>1. SameExecutors
      BY <1>4, ExecutorsStep
    <2>2. UNCHANGED <<chainExecutor, executingChain>> \/ chainExecutor' = 0
      <3>1. CASE \/ \E c \in Chains : EnterOnChain(c)
                 \/ OpenChainSelectModal
                 \/ AnswerModal
        BY <3>1 DEF EnterOnChain, OpenChainSelectModal, AnswerModal, CloseModal, StopInStatus,
           SelectChain, AnswerVariables, AnswerConfirm
      <3>2. CASE HandleMessage
        BY <1>4, <3>2 DEF HandleMessage, GoesToModal, HandleChainSelectResult,
           HandleChainVariableResult, DeclineChain, HandleChainStatusStop, HandleChainUpdate, model
      <3>3. CASE \E e \in DOMAIN executors : Receive(e) \/ ExecutorReports(e) \/ ExecutorEnds(e)
        BY <3>3 DEF Receive, ExecutorReports, ExecutorEnds, model
      <3>. QED  BY <3>1, <3>2, <3>3 DEF Next, vars, model
    <2>. QED  BY <1>1, <1>2, <2>1, <2>2
  <1>. QED  BY <1>3, <1>4

LEMMA ShownInit == Init => StatusShowsExecutor /\ MetadataMatchesExecutor
  BY DEF Init, StatusShowsExecutor, MetadataMatchesExecutor

(* The status modal on screen is that of the executor held, whatever chains *)
(* were started, stopped or completed before it was opened.                 *)
THEOREM StatusShowsWhatIsHeld == Spec => []StatusShowsExecutor
  BY TypeCorrect, ShownInit, StatusStep, PTL DEF Spec

(* The name that results will be recorded under is that of the executor     *)
(* held, also when a second chain replaces the first.                       *)
THEOREM MetadataFollowsExecutor == Spec => []MetadataMatchesExecutor
  BY TypeCorrect, ShownInit, MetadataStep, PTL DEF Spec

----------------------------------------------------------------------------
(* What was confirmed *)

Yes(c) == [kind |-> "confirm", chain |-> c, confirmed |-> TRUE]

Named(c) == {e \in DOMAIN executors : executors[e].name = c}

(* Each confirmation is still on its way, or has started an executor, or    *)
(* was lost.                                                                *)
StartsInv ==
  /\ IsABag(inFlight)
  /\ \A c \in Chains : Cardinality(Named(c)) + Copies(Yes(c), inFlight) <= confirmed[c]

LEMMA CopiesAreNat ==
  ASSUME NEW bag, IsABag(bag), NEW m
  PROVE  Copies(m, bag) \in Nat
  BY DEF IsABag, Copies

LEMMA NamedIsFinite ==
  ASSUME TypeOK, NEW c
  PROVE  IsFiniteSet(Named(c)) /\ Cardinality(Named(c)) \in Nat
  <1>1. Named(c) \subseteq 1..Len(executors) /\ Len(executors) \in Nat
    BY DEF TypeOK, Named
  <1>2. IsFiniteSet(1..Len(executors))
    BY <1>1, FS_Interval
  <1>. QED  BY <1>1, <1>2, FS_Subset, FS_CardinalityType

LEMMA StartsInit == Init => StartsInv
  <1>. SUFFICES ASSUME Init PROVE StartsInv
    OBVIOUS
  <1>1. inFlight = EmptyBag /\ executors = <<>> /\ confirmed = [c \in Chains |-> 0]
    BY DEF Init
  <1>2. IsABag(inFlight) /\ DOMAIN inFlight = {}
    BY <1>1 DEF EmptyBag, SetToBag, IsABag
  <1>3. ASSUME NEW c \in Chains
        PROVE  Named(c) = {} /\ Copies(Yes(c), inFlight) = 0 /\ confirmed[c] = 0
    BY <1>1, <1>2 DEF Named, Copies
  <1>4. \A c \in Chains : Cardinality(Named(c)) + Copies(Yes(c), inFlight) <= confirmed[c]
    <2>. TAKE c \in Chains
    <2>1. Cardinality(Named(c)) = 0
      BY <1>3, FS_EmptySet
    <2>. QED  BY <1>3, <2>1
  <1>. QED  BY <1>2, <1>4 DEF StartsInv

LEMMA SameNamed ==
  ASSUME TypeOK, ExecutorsOK', SameExecutors
  PROVE  \A c : Named(c)' = Named(c)
  <1>1. DOMAIN executors' = DOMAIN executors
    BY DEF TypeOK, ExecutorsOK, SameExecutors
  <1>. QED  BY <1>1 DEF Named, SameExecutors

(* A step that starts no executor and confirms nothing.                     *)
LEMMA QuietStarts ==
  ASSUME TypeOK, StartsInv, \A c : Named(c)' = Named(c), UNCHANGED confirmed,
         IsABag(inFlight'),
         \A c \in Chains : Copies(Yes(c), inFlight') <= Copies(Yes(c), inFlight)
  PROVE  StartsInv'
  <1>. SUFFICES ASSUME NEW c \in Chains
                PROVE  Cardinality(Named(c))' + Copies(Yes(c), inFlight') <= confirmed'[c]
    BY DEF StartsInv
  <1>1. /\ Cardinality(Named(c)) \in Nat /\ confirmed[c] \in Nat
        /\ Copies(Yes(c), inFlight) \in Nat /\ Copies(Yes(c), inFlight') \in Nat
    BY NamedIsFinite, CopiesAreNat DEF StartsInv, TypeOK
  <1>. QED  BY <1>1 DEF StartsInv

LEMMA TakeStarts ==
  ASSUME StartsInv, NEW msg, Take(msg)
  PROVE  /\ IsABag(inFlight')
         /\ \A c : Copies(Yes(c), inFlight')
                   = Copies(Yes(c), inFlight) - IF Yes(c) = msg THEN 1 ELSE 0
  BY TakeCopies DEF StartsInv, Take

LEMMA SendStarts ==
  ASSUME StartsInv, NEW msg, inFlight' = inFlight (+) SetToBag({msg})
  PROVE  /\ IsABag(inFlight')
         /\ \A c : Copies(Yes(c), inFlight')
                   = Copies(Yes(c), inFlight) + IF Yes(c) = msg THEN 1 ELSE 0
  BY PutCopies DEF StartsInv

LEMMA ConfirmStarts ==
  ASSUME TypeOK, StartsInv, NEW b \in BOOLEAN, AnswerConfirm(b)
  PROVE  StartsInv'
  <1>. DEFINE chain == Top.chain
              msg   == [kind |-> "confirm", chain |-> chain, confirmed |-> b]
  <1>1. inFlight' = inFlight (+) SetToBag({msg}) /\ UNCHANGED executors
    BY DEF AnswerConfirm, PopAndSend
  <1>2. /\ IsABag(inFlight')
        /\ \A c : Copies(Yes(c), inFlight')
                  = Copies(Yes(c), inFlight) + IF Yes(c) = msg THEN 1 ELSE 0
    BY <1>1, SendStarts
  <1>3. confirmed' = IF b THEN [confirmed EXCEPT ![chain] = @ + 1] ELSE confirmed
    BY DEF AnswerConfirm
  <1>. SUFFICES ASSUME NEW c \in Chains
                PROVE  Cardinality(Named(c))' + Copies(Yes(c), inFlight') <= confirmed'[c]
    BY <1>2 DEF StartsInv
  <1>4. /\ Cardinality(Named(c)) \in Nat /\ confirmed[c] \in Nat
        /\ Copies(Yes(c), inFlight) \in Nat
        /\ Cardinality(Named(c)) + Copies(Yes(c), inFlight) <= confirmed[c]
    BY NamedIsFinite, CopiesAreNat DEF StartsInv, TypeOK
  <1>5. Named(c)' = Named(c)
    BY <1>1 DEF Named
  <1>6. CASE b /\ c = chain
    <2>1. confirmed'[c] = confirmed[c] + 1
      BY <1>3, <1>6 DEF TypeOK
    <2>2. Copies(Yes(c), inFlight') <= Copies(Yes(c), inFlight) + 1
      BY <1>2, <1>4
    <2>3. Copies(Yes(c), inFlight') \in Nat
      BY <1>2, CopiesAreNat
    <2>. QED  BY <1>4, <1>5, <2>1, <2>2, <2>3
  <1>7. CASE ~(b /\ c = chain)
    <2>1. confirmed'[c] = confirmed[c]
      BY <1>3, <1>7 DEF TypeOK
    <2>2. Yes(c) # msg
      BY <1>7 DEF Yes
    <2>3. Copies(Yes(c), inFlight') = Copies(Yes(c), inFlight)
      BY <1>2, <1>4, <2>2
    <2>. QED  BY <1>4, <1>5, <2>1, <2>3
  <1>. QED  BY <1>6, <1>7

LEMMA StartingAnswer ==
  ASSUME TypeOK, NEW msg, HandleChainConfirmResult(msg)
  PROVE  msg.chain \in Chains /\ msg = Yes(msg.chain)
  <1>1. msg \in Message /\ msg.kind = "confirm" /\ msg.confirmed
    BY TakeOK DEF HandleChainConfirmResult, TypeOK
  <1>2. msg \in [kind : {"confirm"}, chain : Chains, confirmed : BOOLEAN]
    BY <1>1 DEF Message
  <1>3. msg.confirmed = TRUE
    BY <1>1, <1>2
  <1>. QED  BY <1>2, <1>3 DEF Yes

(* A start adds one to the executors of its name, and to no others.         *)
LEMMA StartingNamed ==
  ASSUME TypeOK, NEW msg, HandleChainConfirmResult(msg)
  PROVE  /\ Cardinality(Named(msg.chain))' = Cardinality(Named(msg.chain)) + 1
         /\ \A c : c # msg.chain => Named(c)' = Named(c)
  <1>. DEFINE new == NewExecutor(msg.chain, pendingChain)
  <1>1. executors' = Append(executors, new)
    BY DEF HandleChainConfirmResult
  <1>2. new.name = msg.chain
    BY DEF NewExecutor
  <1>. HIDE DEF new
  <1>3. /\ Named(msg.chain)' = Named(msg.chain) \cup {Len(executors) + 1}
        /\ Len(executors) + 1 \notin Named(msg.chain)
    BY <1>1, <1>2 DEF TypeOK, Named
  <1>4. Cardinality(Named(msg.chain))' = Cardinality(Named(msg.chain)) + 1
    BY <1>3, NamedIsFinite, FS_AddElement
  <1>5. \A c : c # msg.chain => Named(c)' = Named(c)
    BY <1>1, <1>2 DEF TypeOK, Named
  <1>. QED  BY <1>4, <1>5

LEMMA StartingStarts ==
  ASSUME TypeOK, StartsInv, NEW msg, HandleChainConfirmResult(msg)
  PROVE  StartsInv' /\ Cardinality(Named(msg.chain))' <= confirmed[msg.chain]
  <1>. DEFINE chain == msg.chain
  <1>1. Take(msg) /\ UNCHANGED confirmed
    BY DEF HandleChainConfirmResult
  <1>2. chain \in Chains /\ msg = Yes(chain)
    BY StartingAnswer
  <1>3. /\ IsABag(inFlight')
        /\ \A c : Copies(Yes(c), inFlight')
                  = Copies(Yes(c), inFlight) - IF Yes(c) = msg THEN 1 ELSE 0
    BY <1>1, TakeStarts
  <1>4. ASSUME NEW c \in Chains
        PROVE  /\ Cardinality(Named(c)) \in Nat /\ confirmed[c] \in Nat
               /\ Copies(Yes(c), inFlight) \in Nat /\ Copies(Yes(c), inFlight') \in Nat
               /\ Cardinality(Named(c)) + Copies(Yes(c), inFlight) <= confirmed[c]
    BY <1>3, NamedIsFinite, CopiesAreNat DEF StartsInv, TypeOK
  <1>5. /\ Cardinality(Named(chain))' = Cardinality(Named(chain)) + 1
        /\ Copies(Yes(chain), inFlight') = Copies(Yes(chain), inFlight) - 1
    BY <1>2, <1>3, StartingNamed
  <1>6. ASSUME NEW c \in Chains, c # chain
        PROVE  /\ Named(c)' = Named(c)
               /\ Copies(Yes(c), inFlight') = Copies(Yes(c), inFlight)
    <2>1. Yes(c) # msg
      BY <1>2, <1>6 DEF Yes
    <2>. QED  BY <1>3, <1>4, <1>6, <2>1, StartingNamed
  <1>7. Cardinality(Named(chain))' + Copies(Yes(chain), inFlight') <= confirmed[chain]
    BY <1>2, <1>4, <1>5
  <1>8. Cardinality(Named(chain))' <= confirmed[chain]
    BY <1>2, <1>4, <1>5, <1>7
  <1>9. \A c \in Chains : Cardinality(Named(c))' + Copies(Yes(c), inFlight') <= confirmed'[c]
    BY <1>1, <1>4, <1>6, <1>7
  <1>. QED  BY <1>3, <1>8, <1>9 DEF StartsInv

LEMMA StartsStep ==
  ASSUME TypeOK, StartsInv, [Next]_vars
  PROVE  StartsInv'
  <1>1. CASE \E msg : HandleChainConfirmResult(msg)
    BY <1>1, StartingStarts
  <1>2. CASE \E b \in BOOLEAN : AnswerConfirm(b)
    BY <1>2, ConfirmStarts
  <1>3. CASE /\ \A msg : ~HandleChainConfirmResult(msg)
             /\ \A b \in BOOLEAN : ~AnswerConfirm(b)
    <2>1. \A c : Named(c)' = Named(c)
      BY <1>3, ExecutorsStep, SameNamed
    <2>2. ASSUME NEW msg, inFlight' = inFlight (+) SetToBag({msg}), msg.kind # "confirm",
                 UNCHANGED confirmed
          PROVE  StartsInv'
      <3>1. \A c : Yes(c) # msg
        BY <2>2 DEF Yes
      <3>2. /\ IsABag(inFlight')
            /\ \A c : Copies(Yes(c), inFlight')
                      = Copies(Yes(c), inFlight) + IF Yes(c) = msg THEN 1 ELSE 0
        BY <2>2, SendStarts
      <3>3. \A c : Copies(Yes(c), inFlight) \in Nat
        BY CopiesAreNat DEF StartsInv
      <3>4. \A c \in Chains : Copies(Yes(c), inFlight') <= Copies(Yes(c), inFlight)
        BY <3>1, <3>2, <3>3
      <3>. QED  BY <2>1, <2>2, <3>2, <3>4, QuietStarts
    <2>3. ASSUME NEW msg, Take(msg), UNCHANGED confirmed
          PROVE  StartsInv'
      <3>1. /\ IsABag(inFlight')
            /\ \A c : Copies(Yes(c), inFlight')
                      = Copies(Yes(c), inFlight) - IF Yes(c) = msg THEN 1 ELSE 0
        BY <2>3, TakeStarts
      <3>2. \A c : Copies(Yes(c), inFlight) \in Nat
        BY CopiesAreNat DEF StartsInv
      <3>3. \A c \in Chains : Copies(Yes(c), inFlight') <= Copies(Yes(c), inFlight)
        BY <3>1, <3>2
      <3>. QED  BY <2>1, <2>3, <3>1, <3>3, QuietStarts
    <2>4. CASE UNCHANGED <<inFlight, confirmed>>
      <3>1. \A c : Copies(Yes(c), inFlight) \in Nat
        BY CopiesAreNat DEF StartsInv
      <3>. QED  BY <2>1, <2>4, <3>1, QuietStarts DEF StartsInv
    <2>5. CASE AnswerModal
      <3>1. CASE CloseModal
        BY <2>4, <3>1 DEF CloseModal
      <3>2. CASE StopInStatus
        <4>1. inFlight' = inFlight (+) SetToBag({[kind |-> "stop"]}) /\ UNCHANGED confirmed
          BY <3>2 DEF StopInStatus, PopAndSend
        <4>2. [kind |-> "stop"].kind # "confirm"
          OBVIOUS
        <4>. QED  BY <2>2, <4>1, <4>2
      <3>3. CASE \E c \in Chains : SelectChain(c)
        <4>1. PICK c : /\ inFlight' = inFlight (+) SetToBag({[kind |-> "selected", chain |-> c]})
                       /\ UNCHANGED confirmed
          BY <3>3 DEF SelectChain, PopAndSend
        <4>2. [kind |-> "selected", chain |-> c].kind # "confirm"
          OBVIOUS
        <4>. QED  BY <2>2, <4>1, <4>2
      <3>4. CASE \E b \in BOOLEAN : AnswerVariables(b)
        <4>1. PICK b : /\ inFlight' = inFlight (+) SetToBag({[kind |-> "variables", canceled |-> b]})
                       /\ UNCHANGED confirmed
          BY <3>4 DEF AnswerVariables, PopAndSend
        <4>2. [kind |-> "variables", canceled |-> b].kind # "confirm"
          OBVIOUS
        <4>. QED  BY <2>2, <4>1, <4>2
      <3>. QED  BY <1>3, <2>5, <3>1, <3>2, <3>3, <3>4 DEF AnswerModal
    <2>6. CASE HandleMessage
      BY <1>3, <2>3, <2>6 DEF HandleMessage, GoesToModal, HandleChainSelectResult,
         HandleChainVariableResult, DeclineChain, HandleChainStatusStop, HandleChainUpdate
    <2>7. ASSUME NEW e \in DOMAIN executors, Receive(e)
          PROVE  StartsInv'
      <3>1. PICK status :
              /\ inFlight' = inFlight (+) SetToBag({[kind |-> "update", executor |-> e, status |-> status]})
              /\ UNCHANGED confirmed
        BY <2>7 DEF Receive
      <3>2. [kind |-> "update", executor |-> e, status |-> status].kind # "confirm"
        OBVIOUS
      <3>. QED  BY <2>2, <3>1, <3>2
    <2>8. CASE \/ \E c \in Chains : EnterOnChain(c)
               \/ OpenChainSelectModal
               \/ \E e \in DOMAIN executors : ExecutorReports(e) \/ ExecutorEnds(e)
               \/ UNCHANGED vars
      BY <2>4, <2>8 DEF EnterOnChain, OpenChainSelectModal, ExecutorReports, ExecutorEnds, vars
    <2>. QED  BY <2>5, <2>6, <2>7, <2>8 DEF Next
  <1>. QED  BY <1>1, <1>2, <1>3

(* What is asked is what is pending; and an answer on its way is about what *)
(* is pending, unless it was overtaken.                                     *)
PendingInv ==
  /\ \A i \in DOMAIN modals : modals[i].kind = "confirm" => modals[i].chain = pendingChain
  /\ \A msg \in YesInFlight : pendingChain \in {None, msg.chain} \/ overtaken

LEMMA PendingInit == Init => PendingInv
  <1>. SUFFICES ASSUME Init PROVE PendingInv
    OBVIOUS
  <1>1. modals = <<>> /\ BagToSet(inFlight) = {}
    BY DEF Init, EmptyBag, SetToBag, BagToSet
  <1>. QED  BY <1>1 DEF PendingInv, YesInFlight

LEMMA TakeYes ==
  ASSUME NEW msg, Take(msg)
  PROVE  YesInFlight' \subseteq YesInFlight
  BY TakeSet DEF Take, YesInFlight

LEMMA SendYes ==
  ASSUME NEW msg, inFlight' = inFlight (+) SetToBag({msg})
  PROVE  YesInFlight' \subseteq YesInFlight \cup {msg}
         /\ (msg.kind # "confirm" => YesInFlight' \subseteq YesInFlight)
  <1>1. BagToSet(inFlight') = BagToSet(inFlight) \cup {msg}
    BY PutSet
  <1>. QED  BY <1>1 DEF YesInFlight

(* Another chain is opened: the answers on their way are overtaken.         *)
LEMMA OpeningPending ==
  ASSUME PendingInv, NEW c, NoModal, StartChainFlow(c), YesInFlight' \subseteq YesInFlight
  PROVE  PendingInv'
  <1>. DEFINE m == [kind |-> IF c \in Asking THEN "variables" ELSE "confirm", chain |-> c]
  <1>1. /\ pendingChain' = c /\ Push(m)
        /\ overtaken' = \E msg \in YesInFlight : msg.chain # c
    BY DEF StartChainFlow
  <1>2. DOMAIN modals' = {1} /\ modals'[1] = m
    BY <1>1, OnlyModal DEF NoModal
  <1>3. \A i \in DOMAIN modals' : modals'[i].chain = pendingChain'
    BY <1>1, <1>2
  <1>4. ASSUME NEW msg \in YesInFlight'
        PROVE  pendingChain' \in {None, msg.chain} \/ overtaken'
    BY <1>1, <1>4
  <1>. QED  BY <1>3, <1>4 DEF PendingInv

(* An answer is about the chain its modal asked for, which is pending.      *)
LEMMA AnsweringPending ==
  ASSUME TypeOK, PendingInv, NEW b \in BOOLEAN, AnswerConfirm(b)
  PROVE  PendingInv'
  <1>. DEFINE msg == [kind |-> "confirm", chain |-> Top.chain, confirmed |-> b]
  <1>1. /\ modals # <<>> /\ Top.kind = "confirm"
        /\ modals' = SubSeq(modals, 1, Len(modals) - 1)
        /\ inFlight' = inFlight (+) SetToBag({msg})
        /\ UNCHANGED <<pendingChain, overtaken>>
    BY DEF AnswerConfirm, On, PopAndSend
  <1>2. Len(modals) \in DOMAIN modals
    BY <1>1 DEF TypeOK
  <1>3. Top.chain = pendingChain
    BY <1>1, <1>2 DEF PendingInv, Top
  <1>4. \A i \in DOMAIN modals' : i \in DOMAIN modals /\ modals'[i] = modals[i]
    BY <1>1, PopOK DEF TypeOK
  <1>5. YesInFlight' \subseteq YesInFlight \cup {msg}
    BY <1>1, SendYes
  <1>6. msg.chain = pendingChain
    BY <1>3
  <1>. HIDE DEF msg
  <1>. QED  BY <1>1, <1>4, <1>5, <1>6 DEF PendingInv

LEMMA PendingStep ==
  ASSUME TypeOK, PendingInv, [Next]_vars
  PROVE  PendingInv'
  <1>1. CASE /\ UNCHANGED <<modals, pendingChain, overtaken>>
             /\ YesInFlight' \subseteq YesInFlight
    BY <1>1 DEF PendingInv
  <1>2. ASSUME /\ modals # <<>> /\ modals' = SubSeq(modals, 1, Len(modals) - 1)
               /\ UNCHANGED <<pendingChain, overtaken>>
               /\ YesInFlight' \subseteq YesInFlight
        PROVE  PendingInv'
    <2>1. \A i \in DOMAIN modals' : i \in DOMAIN modals /\ modals'[i] = modals[i]
      BY <1>2, PopOK DEF TypeOK
    <2>. QED  BY <1>2, <2>1 DEF PendingInv
  <1>3. ASSUME NEW m, NoModal, Push(m), m.kind = "confirm" => m.chain = pendingChain,
               UNCHANGED <<pendingChain, overtaken>>, YesInFlight' \subseteq YesInFlight
        PROVE  PendingInv'
    BY <1>3, OnlyModal DEF PendingInv, NoModal
  <1>4. CASE AnswerModal
    <2>1. ASSUME NEW msg, modals # <<>>, PopAndSend(msg), msg.kind # "confirm",
                 UNCHANGED <<pendingChain, overtaken>>
          PROVE  PendingInv'
      BY <1>2, <2>1, SendYes DEF PopAndSend
    <2>2. CASE CloseModal
      BY <1>2, <2>2 DEF CloseModal, On, YesInFlight
    <2>3. CASE StopInStatus
      BY <2>1, <2>3 DEF StopInStatus, On
    <2>4. ASSUME NEW c \in Chains, SelectChain(c)
          PROVE  PendingInv'
      BY <2>1, <2>4 DEF SelectChain, On
    <2>5. ASSUME NEW b \in BOOLEAN, AnswerVariables(b)
          PROVE  PendingInv'
      BY <2>1, <2>5 DEF AnswerVariables, On
    <2>. QED  BY <1>4, <2>2, <2>3, <2>4, <2>5, AnsweringPending DEF AnswerModal
  <1>5. ASSUME NEW msg, HandleChainVariableResult(msg)
        PROVE  PendingInv'
    <2>1. YesInFlight' \subseteq YesInFlight /\ NoModal
      BY <1>5, TakeYes DEF HandleChainVariableResult
    <2>2. CASE msg.canceled \/ pendingChain = None
      BY <1>5, <2>1, <2>2 DEF HandleChainVariableResult, ClearPending, PendingInv, NoModal
    <2>3. CASE ~(msg.canceled \/ pendingChain = None)
      BY <1>3, <1>5, <2>1, <2>3 DEF HandleChainVariableResult
    <2>. QED  BY <2>2, <2>3
  <1>6. ASSUME NEW msg, HandleChainConfirmResult(msg)
        PROVE  PendingInv'
    <2>1. DOMAIN modals' = {1} /\ modals'[1].kind = "status"
      BY <1>6, OnlyModal DEF HandleChainConfirmResult, NoModal
    <2>2. pendingChain' = None
      BY <1>6 DEF HandleChainConfirmResult, ClearPending
    <2>. QED  BY <2>1, <2>2 DEF PendingInv
  <1>7. ASSUME NEW msg, HandleChainSelectResult(msg)
        PROVE  PendingInv'
    BY <1>7, TakeYes, OpeningPending DEF HandleChainSelectResult
  <1>8. ASSUME NEW msg, DeclineChain(msg)
        PROVE  PendingInv'
    BY <1>8 DEF DeclineChain, ClearPending, PendingInv, NoModal
  <1>9. CASE HandleMessage
    BY <1>1, <1>5, <1>6, <1>7, <1>8, <1>9, TakeYes DEF HandleMessage, GoesToModal, model,
       HandleChainStatusStop, HandleChainUpdate
  <1>10. ASSUME NEW e \in DOMAIN executors, Receive(e)
         PROVE  PendingInv'
    <2>1. PICK status :
            inFlight' = inFlight (+) SetToBag({[kind |-> "update", executor |-> e, status |-> status]})
      BY <1>10 DEF Receive
    <2>2. [kind |-> "update", executor |-> e, status |-> status].kind # "confirm"
      OBVIOUS
    <2>3. YesInFlight' \subseteq YesInFlight
      BY <2>1, <2>2, SendYes
    <2>. QED  BY <1>1, <1>10, <2>3 DEF Receive, model
  <1>11. CASE \/ \E e \in DOMAIN executors : ExecutorReports(e) \/ ExecutorEnds(e)
              \/ UNCHANGED vars
    BY <1>1, <1>11 DEF ExecutorReports, ExecutorEnds, model, vars, YesInFlight
  <1>12. ASSUME NEW c \in Chains, EnterOnChain(c)
         PROVE  PendingInv'
    BY <1>12, OpeningPending DEF EnterOnChain, YesInFlight
  <1>13. CASE OpenChainSelectModal
    <2>1. [kind |-> "select"].kind # "confirm"
      OBVIOUS
    <2>. QED  BY <1>3, <1>13, <2>1 DEF OpenChainSelectModal, YesInFlight
  <1>. QED  BY <1>4, <1>9, <1>10, <1>11, <1>12, <1>13 DEF Next

LEMMA StartingConfirmed ==
  ASSUME TypeOK, StartsInv, PendingInv, NEW msg, HandleChainConfirmResult(msg)
  PROVE  \A e \in Started : StartIsConfirmed(e)
  <1>. DEFINE new == NewExecutor(msg.chain, pendingChain)
  <1>1. executors' = Append(executors, new)
    BY DEF HandleChainConfirmResult
  <1>2. new.name = msg.chain /\ new.steps = pendingChain
    BY DEF NewExecutor
  <1>. HIDE DEF new
  <1>3. \A e \in Started : executors'[e] = new
    BY <1>1 DEF TypeOK, Started
  <1>4. Cardinality({i \in DOMAIN executors' : executors'[i].name = msg.chain})
          <= confirmed[msg.chain]
    BY StartingStarts DEF Named
  <1>5. msg \in YesInFlight /\ pendingChain # None
    BY DEF HandleChainConfirmResult, Take, BagIn, YesInFlight
  <1>6. pendingChain = msg.chain \/ overtaken
    BY <1>5 DEF PendingInv
  <1>. QED  BY <1>2, <1>3, <1>4, <1>6 DEF StartIsConfirmed

(* However answers are delayed, overtaken or lost under other modals: no    *)
(* chain is started under a name more often than the user confirmed it, and *)
(* the steps that run are not those of the chain so named only if another   *)
(* chain was opened while the answer was in flight.                         *)
THEOREM OnlyConfirmedStarts == Spec => StartsAsConfirmed
  <1>1. Spec => []StartsInv
    BY TypeCorrect, StartsInit, StartsStep, PTL DEF Spec
  <1>2. Spec => []PendingInv
    BY TypeCorrect, PendingInit, PendingStep, PTL DEF Spec
  <1>3. TypeOK /\ StartsInv /\ PendingInv /\ [Next]_vars
          => [\A e \in Started : StartIsConfirmed(e)]_vars
    <2>. SUFFICES ASSUME TypeOK, StartsInv, PendingInv, [Next]_vars
                  PROVE  \A e \in Started : StartIsConfirmed(e)
      OBVIOUS
    <2>1. CASE \E msg : HandleChainConfirmResult(msg)
      BY <2>1, StartingConfirmed
    <2>2. CASE \A msg : ~HandleChainConfirmResult(msg)
      <3>1. SameExecutors /\ ExecutorsOK'
        BY <2>2, ExecutorsStep
      <3>2. Started = {}
        BY <3>1 DEF TypeOK, ExecutorsOK, SameExecutors, Started
      <3>. QED  BY <3>2
    <2>. QED  BY <2>1, <2>2
  <1>. QED  BY TypeCorrect, <1>1, <1>2, <1>3, PTL DEF Spec, StartsAsConfirmed

----------------------------------------------------------------------------
(* Counting one by one *)

LEMMA CountedElements ==
  ASSUME NEW f, NEW t
  PROVE  t \in Counted(f) <=> \E x : \E n \in 1..Copies(x, f) : t = <<x, n>>
  BY DEF Counted, Copies

LEMMA CountedSame ==
  ASSUME NEW f, NEW g, \A x : Copies(x, g) = Copies(x, f)
  PROVE  Counted(g) = Counted(f)
  BY CountedElements

(* One more of x is one more in all. *)
LEMMA CountedOneMore ==
  ASSUME NEW f, NEW g, NEW x, \A y : Copies(y, f) \in Nat,
         \A y : Copies(y, g) = Copies(y, f) + IF y = x THEN 1 ELSE 0
  PROVE  \E t : t \notin Counted(f) /\ Counted(g) = Counted(f) \cup {t}
  <1>. DEFINE t == <<x, Copies(x, g)>>
  <1>1. t \notin Counted(f)
    <2>. SUFFICES ASSUME NEW y, NEW n \in 1..Copies(y, f), t = <<y, n>> PROVE FALSE
      BY CountedElements
    <2>1. y = x /\ n = Copies(x, g)
      OBVIOUS
    <2>. QED  BY <2>1
  <1>2. ASSUME NEW u \in Counted(f) PROVE u \in Counted(g)
    <2>1. PICK y : \E n \in 1..Copies(y, f) : u = <<y, n>>
      BY <1>2, CountedElements
    <2>2. PICK n \in 1..Copies(y, f) : u = <<y, n>>
      BY <2>1
    <2>3. Copies(y, f) \in Nat /\ Copies(y, g) \in Nat /\ Copies(y, f) <= Copies(y, g)
      OBVIOUS
    <2>4. n \in 1..Copies(y, g)
      BY <2>3
    <2>. QED  BY <2>2, <2>4, CountedElements
  <1>3. t \in Counted(g)
    <2>1. Copies(x, f) \in Nat /\ Copies(x, g) = Copies(x, f) + 1
      OBVIOUS
    <2>2. Copies(x, g) \in 1..Copies(x, g)
      BY <2>1
    <2>. QED  BY <2>2, CountedElements
  <1>4. ASSUME NEW u \in Counted(g), u # t PROVE u \in Counted(f)
    <2>1. PICK y : \E n \in 1..Copies(y, g) : u = <<y, n>>
      BY <1>4, CountedElements
    <2>2. PICK n \in 1..Copies(y, g) : u = <<y, n>>
      BY <2>1
    <2>3. y = x => n # Copies(x, g)
      BY <1>4, <2>2
    <2>4. Copies(y, f) \in Nat /\ Copies(y, g) = Copies(y, f) + IF y = x THEN 1 ELSE 0
      OBVIOUS
    <2>5. n \in 1..Copies(y, f)
      BY <2>3, <2>4
    <2>. QED  BY <2>2, <2>5, CountedElements
  <1>. HIDE DEF t
  <1>5. Counted(g) = Counted(f) \cup {t}
    BY <1>2, <1>3, <1>4
  <1>. QED  BY <1>1, <1>5

LEMMA TotalUp ==
  ASSUME NEW f, NEW g, NEW x, \A y : Copies(y, f) \in Nat, IsFiniteSet(Counted(f)),
         \A y : Copies(y, g) = Copies(y, f) + IF y = x THEN 1 ELSE 0
  PROVE  IsFiniteSet(Counted(g)) /\ Total(f) \in Nat /\ Total(g) = Total(f) + 1
  <1>1. PICK t : t \notin Counted(f) /\ Counted(g) = Counted(f) \cup {t}
    BY CountedOneMore
  <1>. QED  BY <1>1, FS_AddElement, FS_CardinalityType DEF Total

LEMMA TotalDown ==
  ASSUME NEW f, NEW g, NEW x, \A y : Copies(y, g) \in Nat, IsFiniteSet(Counted(f)),
         \A y : Copies(y, f) = Copies(y, g) + IF y = x THEN 1 ELSE 0
  PROVE  IsFiniteSet(Counted(g)) /\ Total(g) \in Nat /\ Total(g) = Total(f) - 1
  <1>1. PICK t : t \notin Counted(g) /\ Counted(f) = Counted(g) \cup {t}
    BY CountedOneMore
  <1>2. IsFiniteSet(Counted(g))
    BY <1>1, FS_Subset
  <1>3. Total(f) = Total(g) + 1 /\ Total(g) \in Nat
    BY <1>1, <1>2, FS_AddElement, FS_CardinalityType DEF Total
  <1>. QED  BY <1>2, <1>3

LEMMA TotalOfNone ==
  ASSUME NEW f, \A x : Copies(x, f) = 0
  PROVE  IsFiniteSet(Counted(f)) /\ Total(f) = 0
  <1>1. Counted(f) = {}
    BY CountedElements
  <1>. QED  BY <1>1, FS_EmptySet DEF Total

(* Bags that are put into and taken from. *)
IsCounted(bag) == IsABag(bag) /\ IsFiniteSet(Counted(bag))

LEMMA PutTotal ==
  ASSUME NEW bag, IsCounted(bag), NEW m
  PROVE  /\ IsCounted(bag (+) SetToBag({m})) /\ Total(bag) \in Nat
         /\ Total(bag (+) SetToBag({m})) = Total(bag) + 1
  <1>. DEFINE more == bag (+) SetToBag({m})
  <1>1. \A y : Copies(y, bag) \in Nat
    BY CopiesAreNat DEF IsCounted
  <1>2. IsABag(more) /\ \A x : Copies(x, more) = Copies(x, bag) + IF x = m THEN 1 ELSE 0
    BY PutCopies DEF IsCounted
  <1>. HIDE DEF more
  <1>3. IsFiniteSet(Counted(more)) /\ Total(bag) \in Nat /\ Total(more) = Total(bag) + 1
    BY <1>1, <1>2, TotalUp DEF IsCounted
  <1>. QED  BY <1>2, <1>3 DEF IsCounted, more

LEMMA TakeTotal ==
  ASSUME NEW bag, IsCounted(bag), NEW m, BagIn(m, bag)
  PROVE  /\ IsCounted(bag (-) SetToBag({m})) /\ Total(bag (-) SetToBag({m})) \in Nat
         /\ Total(bag (-) SetToBag({m})) = Total(bag) - 1
  <1>. DEFINE less == bag (-) SetToBag({m})
  <1>1. IsABag(less) /\ \A x : Copies(x, less) = Copies(x, bag) - IF x = m THEN 1 ELSE 0
    BY TakeCopies DEF IsCounted
  <1>2. \A y : Copies(y, bag) \in Nat
    BY CopiesAreNat DEF IsCounted
  <1>. HIDE DEF less
  <1>3. \A y : Copies(y, less) \in Nat
    BY <1>1, CopiesAreNat
  <1>4. \A y : Copies(y, bag) = Copies(y, less) + IF y = m THEN 1 ELSE 0
    BY <1>1, <1>2
  <1>5. IsFiniteSet(Counted(less)) /\ Total(less) \in Nat /\ Total(less) = Total(bag) - 1
    BY <1>3, <1>4, TotalDown DEF IsCounted
  <1>. QED  BY <1>1, <1>5 DEF IsCounted, less

----------------------------------------------------------------------------
(* Subscriptions *)

FlightInv == IsABag(inFlight) /\ IsFiniteSet(Counted(UpdatesInFlight))

SubscriptionsInv ==
  /\ FlightInv
  /\ IsCounted(receivers)
  /\ SubscriptionsDoNotMultiply

LEMMA UpdateCopies ==
  \A m : Copies(m, UpdatesInFlight) = IF m.kind = "update" THEN Copies(m, inFlight) ELSE 0
  BY DEF Copies, UpdatesInFlight, BagToSet

LEMMA UpdatesAreNat ==
  ASSUME FlightInv
  PROVE  /\ \A m : Copies(m, UpdatesInFlight) \in Nat
         /\ Total(UpdatesInFlight) \in Nat
  BY UpdateCopies, CopiesAreNat, FS_CardinalityType DEF FlightInv, Total

LEMMA SameUpdates ==
  ASSUME FlightInv, IsABag(inFlight'),
         \A m : Copies(m, UpdatesInFlight)' = Copies(m, UpdatesInFlight)
  PROVE  FlightInv' /\ Total(UpdatesInFlight)' = Total(UpdatesInFlight)
  <1>. DEFINE now == UpdatesInFlight
              next == UpdatesInFlight'
  <1>1. \A m : Copies(m, next) = Copies(m, now)
    BY DEF Copies
  <1>. HIDE DEF now, next
  <1>2. Counted(next) = Counted(now)
    BY <1>1, CountedSame
  <1>3. Counted(UpdatesInFlight)' = Counted(UpdatesInFlight)
    BY <1>2 DEF now, next, Counted
  <1>. QED  BY <1>3 DEF FlightInv, Total

LEMMA SendUpdates ==
  ASSUME FlightInv, NEW m, inFlight' = inFlight (+) SetToBag({m})
  PROVE  /\ FlightInv' /\ Total(UpdatesInFlight) \in Nat
         /\ Total(UpdatesInFlight)'
              = Total(UpdatesInFlight) + IF m.kind = "update" THEN 1 ELSE 0
  <1>1. /\ IsABag(inFlight')
        /\ \A x : Copies(x, inFlight') = Copies(x, inFlight) + IF x = m THEN 1 ELSE 0
    BY PutCopies DEF FlightInv
  <1>2. \A x : Copies(x, inFlight) \in Nat
    BY CopiesAreNat DEF FlightInv
  <1>3. \A x : Copies(x, UpdatesInFlight)' = IF x.kind = "update" THEN Copies(x, inFlight') ELSE 0
    BY DEF Copies, UpdatesInFlight, BagToSet
  <1>4. CASE m.kind # "update"
    <2>1. \A x : Copies(x, UpdatesInFlight)' = Copies(x, UpdatesInFlight)
      <3>. TAKE x
      <3>1. x.kind = "update" => x # m
        BY <1>4
      <3>2. x # m => Copies(x, inFlight') = Copies(x, inFlight)
        BY <1>1, <1>2
      <3>. QED  BY <1>3, <3>1, <3>2, UpdateCopies
    <2>. QED  BY <1>1, <1>4, <2>1, SameUpdates, UpdatesAreNat
  <1>5. CASE m.kind = "update"
    <2>. DEFINE now == UpdatesInFlight
                next == UpdatesInFlight'
    <2>1. \A x : Copies(x, next) = Copies(x, now) + IF x = m THEN 1 ELSE 0
      <3>1. \A x : Copies(x, UpdatesInFlight)' = Copies(x, UpdatesInFlight) + IF x = m THEN 1 ELSE 0
        BY <1>1, <1>2, <1>3, <1>5, UpdateCopies
      <3>. QED  BY <3>1 DEF Copies
    <2>2. \A x : Copies(x, now) \in Nat
      BY UpdatesAreNat
    <2>3. IsFiniteSet(Counted(now))
      BY DEF FlightInv
    <2>. HIDE DEF now, next
    <2>4. IsFiniteSet(Counted(next)) /\ Total(now) \in Nat /\ Total(next) = Total(now) + 1
      BY <2>1, <2>2, <2>3, TotalUp
    <2>. QED  BY <1>1, <1>5, <2>4 DEF now, next, FlightInv, Total, Counted
  <1>. QED  BY <1>4, <1>5

LEMMA TakeUpdates ==
  ASSUME FlightInv, NEW m, Take(m)
  PROVE  /\ FlightInv' /\ Total(UpdatesInFlight)' \in Nat
         /\ Total(UpdatesInFlight)
              = Total(UpdatesInFlight)' + IF m.kind = "update" THEN 1 ELSE 0
  <1>1. /\ IsABag(inFlight')
        /\ \A x : Copies(x, inFlight') = Copies(x, inFlight) - IF x = m THEN 1 ELSE 0
    BY TakeCopies DEF FlightInv, Take
  <1>2. /\ \A x : Copies(x, inFlight) \in Nat
        /\ \A x : Copies(x, inFlight') \in Nat
    BY <1>1, CopiesAreNat DEF FlightInv
  <1>3. \A x : Copies(x, UpdatesInFlight)' = IF x.kind = "update" THEN Copies(x, inFlight') ELSE 0
    BY DEF Copies, UpdatesInFlight, BagToSet
  <1>4. CASE m.kind # "update"
    <2>1. \A x : Copies(x, UpdatesInFlight)' = Copies(x, UpdatesInFlight)
      <3>. TAKE x
      <3>1. x.kind = "update" => x # m
        BY <1>4
      <3>2. x # m => Copies(x, inFlight') = Copies(x, inFlight)
        BY <1>1, <1>2
      <3>. QED  BY <1>3, <3>1, <3>2, UpdateCopies
    <2>. QED  BY <1>1, <1>4, <2>1, SameUpdates, UpdatesAreNat
  <1>5. CASE m.kind = "update"
    <2>. DEFINE now == UpdatesInFlight
                next == UpdatesInFlight'
    <2>1. \A x : Copies(x, now) = Copies(x, next) + IF x = m THEN 1 ELSE 0
      <3>1. \A x : Copies(x, UpdatesInFlight) = Copies(x, UpdatesInFlight)' + IF x = m THEN 1 ELSE 0
        BY <1>1, <1>2, <1>3, <1>5, UpdateCopies
      <3>. QED  BY <3>1 DEF Copies
    <2>2. \A x : Copies(x, next) \in Nat
      <3>1. \A x : Copies(x, UpdatesInFlight)' \in Nat
        BY <1>2, <1>3
      <3>. QED  BY <3>1 DEF Copies
    <2>3. IsFiniteSet(Counted(now))
      BY DEF FlightInv
    <2>. HIDE DEF now, next
    <2>4. IsFiniteSet(Counted(next)) /\ Total(next) \in Nat /\ Total(next) = Total(now) - 1
      BY <2>1, <2>2, <2>3, TotalDown
    <2>5. Total(now) \in Nat
      BY UpdatesAreNat DEF now
    <2>. QED  BY <1>1, <1>5, <2>4, <2>5 DEF now, next, FlightInv, Total, Counted
  <1>. QED  BY <1>4, <1>5

LEMMA SubscriptionsInit == Init => SubscriptionsInv
  <1>. SUFFICES ASSUME Init PROVE SubscriptionsInv
    OBVIOUS
  <1>1. /\ inFlight = EmptyBag /\ receivers = EmptyBag /\ executors = <<>>
        /\ IsABag(EmptyBag) /\ DOMAIN EmptyBag = {}
    BY DEF Init, EmptyBag, SetToBag, IsABag
  <1>2. \A m : Copies(m, EmptyBag) = 0 /\ Copies(m, UpdatesInFlight) = 0
    BY <1>1, UpdateCopies DEF Copies
  <1>3. IsFiniteSet(Counted(EmptyBag)) /\ Total(EmptyBag) = 0
    BY <1>2, TotalOfNone
  <1>4. IsFiniteSet(Counted(UpdatesInFlight)) /\ Total(UpdatesInFlight) = 0
    BY <1>2, TotalOfNone
  <1>. QED  BY <1>1, <1>3, <1>4 DEF SubscriptionsInv, FlightInv, IsCounted, SubscriptionsDoNotMultiply

(* What is answered in a modal is no update, and nothing else happens.      *)
LEMMA AnswersSend ==
  ASSUME AnswerModal
  PROVE  /\ UNCHANGED <<receivers, history, executors>>
         /\ \/ UNCHANGED inFlight
            \/ \E m : m.kind # "update" /\ inFlight' = inFlight (+) SetToBag({m})
  <1>1. CASE CloseModal
    BY <1>1 DEF CloseModal
  <1>. DEFINE stop        == [kind |-> "stop"]
              selected(c) == [kind |-> "selected", chain |-> c]
              answered(b) == [kind |-> "variables", canceled |-> b]
              chosen(c, b) == [kind |-> "confirm", chain |-> c, confirmed |-> b]
  <1>2. /\ stop.kind # "update" /\ \A c : selected(c).kind # "update"
        /\ \A b : answered(b).kind # "update" /\ \A c : chosen(c, b).kind # "update"
    OBVIOUS
  <1>3. CASE StopInStatus
    <2>1. inFlight' = inFlight (+) SetToBag({stop}) /\ UNCHANGED <<receivers, history, executors>>
      BY <1>3 DEF StopInStatus, PopAndSend
    <2>. HIDE DEF stop
    <2>. QED  BY <1>2, <2>1
  <1>4. CASE \E c \in Chains : SelectChain(c)
    <2>1. PICK c : /\ inFlight' = inFlight (+) SetToBag({selected(c)})
                   /\ UNCHANGED <<receivers, history, executors>>
      BY <1>4 DEF SelectChain, PopAndSend
    <2>. HIDE DEF selected
    <2>. QED  BY <1>2, <2>1
  <1>5. CASE \E b \in BOOLEAN : AnswerVariables(b)
    <2>1. PICK b : /\ inFlight' = inFlight (+) SetToBag({answered(b)})
                   /\ UNCHANGED <<receivers, history, executors>>
      BY <1>5 DEF AnswerVariables, PopAndSend
    <2>. HIDE DEF answered
    <2>. QED  BY <1>2, <2>1
  <1>6. CASE \E b \in BOOLEAN : AnswerConfirm(b)
    <2>. DEFINE chain == Top.chain
    <2>1. PICK b : /\ inFlight' = inFlight (+) SetToBag({chosen(chain, b)})
                   /\ UNCHANGED <<receivers, history, executors>>
      BY <1>6 DEF AnswerConfirm, PopAndSend
    <2>. HIDE DEF chosen, chain
    <2>. QED  BY <1>2, <2>1
  <1>. QED  BY <1>1, <1>3, <1>4, <1>5, <1>6 DEF AnswerModal

LEMMA SubscriptionsStep ==
  ASSUME TypeOK, SubscriptionsInv, [Next]_vars
  PROVE  SubscriptionsInv'
  <1>0. /\ FlightInv /\ IsCounted(receivers)
        /\ Total(receivers) \in Nat /\ Total(UpdatesInFlight) \in Nat /\ Len(executors) \in Nat
        /\ Total(receivers) + Total(UpdatesInFlight) <= Len(executors)
    BY UpdatesAreNat, FS_CardinalityType
       DEF SubscriptionsInv, SubscriptionsDoNotMultiply, IsCounted, Total, TypeOK
  <1>1. ASSUME NEW m, inFlight' = inFlight (+) SetToBag({m}), m.kind # "update",
               UNCHANGED receivers, Len(executors') = Len(executors)
        PROVE  SubscriptionsInv'
    BY <1>0, <1>1, SendUpdates DEF SubscriptionsInv, SubscriptionsDoNotMultiply
  <1>2. ASSUME NEW m, Take(m), UNCHANGED receivers, Len(executors') = Len(executors)
        PROVE  SubscriptionsInv'
    BY <1>0, <1>2, TakeUpdates DEF SubscriptionsInv, SubscriptionsDoNotMultiply
  <1>3. ASSUME UNCHANGED <<inFlight, receivers>>, Len(executors') = Len(executors)
        PROVE  SubscriptionsInv'
    BY <1>0, <1>3 DEF SubscriptionsInv, FlightInv, SubscriptionsDoNotMultiply, UpdatesInFlight
  <1>4. CASE \E msg : HandleChainConfirmResult(msg)
    <2>1. PICK msg : HandleChainConfirmResult(msg)
      BY <1>4
    <2>. DEFINE new == NewExecutor(msg.chain, pendingChain)
    <2>2. Take(msg) /\ executors' = Append(executors, new) /\ ChainSubscription(Len(executors'))
      BY <2>1 DEF HandleChainConfirmResult
    <2>. HIDE DEF new
    <2>3. Len(executors') = Len(executors) + 1
      BY <2>2 DEF TypeOK
    <2>4. receivers' = receivers (+) SetToBag({Len(executors')})
      BY <1>0, <2>2, <2>3 DEF ChainSubscription
    <2>5. IsCounted(receivers') /\ Total(receivers') = Total(receivers) + 1
      BY <1>0, <2>4, PutTotal
    <2>. QED  BY <1>0, <2>2, <2>3, <2>5, TakeUpdates DEF SubscriptionsInv, SubscriptionsDoNotMultiply
  <1>5. CASE \E msg : HandleChainUpdate(msg)
    <2>1. PICK msg : HandleChainUpdate(msg)
      BY <1>5
    <2>2. Take(msg) /\ msg.kind = "update" /\ UNCHANGED executors
      BY <2>1 DEF HandleChainUpdate
    <2>3. CASE UNCHANGED receivers
      BY <1>2, <2>2, <2>3
    <2>4. CASE receivers' # receivers
      <3>1. chainExecutor # 0 /\ receivers' = receivers (+) SetToBag({chainExecutor})
        BY <2>1, <2>4 DEF HandleChainUpdate, ChainSubscription
      <3>2. IsCounted(receivers') /\ Total(receivers') = Total(receivers) + 1
        BY <1>0, <3>1, PutTotal
      <3>. QED  BY <1>0, <2>2, <3>2, TakeUpdates DEF SubscriptionsInv, SubscriptionsDoNotMultiply
    <2>. QED  BY <2>3, <2>4
  <1>6. ASSUME NEW e \in DOMAIN executors, Receive(e)
        PROVE  SubscriptionsInv'
    <2>1. PICK status :
            inFlight' = inFlight (+) SetToBag({[kind |-> "update", executor |-> e, status |-> status]})
      BY <1>6 DEF Receive
    <2>. DEFINE msg == [kind |-> "update", executor |-> e, status |-> status]
    <2>2. inFlight' = inFlight (+) SetToBag({msg}) /\ msg.kind = "update"
      BY <2>1
    <2>. HIDE DEF msg
    <2>3. BagIn(e, receivers) /\ receivers' = receivers (-) SetToBag({e})
      BY <1>6 DEF Receive
    <2>4. IsCounted(receivers') /\ Total(receivers') \in Nat /\ Total(receivers') = Total(receivers) - 1
      BY <1>0, <2>3, TakeTotal
    <2>5. Len(executors') = Len(executors)
      BY <1>6, ReceiveOK DEF TypeOK, ExecutorsOK, SameExecutors
    <2>. QED  BY <1>0, <2>2, <2>4, <2>5, SendUpdates DEF SubscriptionsInv, SubscriptionsDoNotMultiply
  <1>7. CASE /\ \A msg : ~HandleChainConfirmResult(msg) /\ ~HandleChainUpdate(msg)
             /\ \A e \in DOMAIN executors : ~Receive(e)
    <2>1. Len(executors') = Len(executors)
      BY <1>7, ExecutorsStep DEF SameExecutors
    <2>2. CASE AnswerModal
      BY <1>1, <1>3, <2>1, <2>2, AnswersSend
    <2>3. CASE HandleMessage
      BY <1>2, <1>7, <2>1, <2>3 DEF HandleMessage, GoesToModal, HandleChainSelectResult,
         HandleChainVariableResult, DeclineChain, HandleChainStatusStop
    <2>4. CASE \/ \E c \in Chains : EnterOnChain(c)
               \/ OpenChainSelectModal
               \/ \E e \in DOMAIN executors : ExecutorReports(e) \/ ExecutorEnds(e)
               \/ UNCHANGED vars
      BY <1>3, <2>1, <2>4 DEF EnterOnChain, OpenChainSelectModal, ExecutorReports, ExecutorEnds, vars
    <2>. QED  BY <1>7, <2>2, <2>3, <2>4 DEF Next
  <1>. QED  BY <1>4, <1>5, <1>6, <1>7

(* A started chain accounts for one goroutine at most: what is subscribed   *)
(* or on its way to the loop are never more updates than chains started.    *)
THEOREM SubscriptionsAreRenewed == Spec => []SubscriptionsDoNotMultiply
  <1>1. Spec => []SubscriptionsInv
    BY TypeCorrect, SubscriptionsInit, SubscriptionsStep, PTL DEF Spec
  <1>2. SubscriptionsInv => SubscriptionsDoNotMultiply
    BY DEF SubscriptionsInv
  <1>. QED  BY <1>1, <1>2, PTL

----------------------------------------------------------------------------
(* Results *)

Completion(e) == [kind |-> "update", executor |-> e, status |-> "completed"]

(* The completion is in the channel, or in flight. *)
Queued(e)    == \E n \in DOMAIN executors[e].updates : executors[e].updates[n] = "completed"
Delivered(e) == Copies(Completion(e), inFlight)

Ended   == {e \in DOMAIN executors : executors[e].end = "completed"}
Awaited == {e \in DOMAIN executors : Queued(e) \/ Delivered(e) # 0}

(* A chain that completed reports it once, and last. *)
OneCompletion(e) ==
  /\ executors[e].end # "completed" => ~Queued(e) /\ Delivered(e) = 0
  /\ Delivered(e) \in {0, 1}
  /\ Delivered(e) = 1 => ~Queued(e)
  /\ \A n \in DOMAIN executors[e].updates :
       executors[e].updates[n] = "completed" => n = Len(executors[e].updates)

KnownSenders ==
  \A m \in BagToSet(inFlight) : m.kind = "update" => m.executor \in DOMAIN executors

(* A completion that was not taken yet may still be recorded. *)
ResultsInv ==
  /\ IsABag(inFlight) /\ KnownSenders
  /\ IsFiniteSet(Counted(RunCounts))
  /\ \A e \in DOMAIN executors : OneCompletion(e)
  /\ Recorded >= Len(executors)
  /\ Recorded + Cardinality(Awaited) <= Len(executors) + Cardinality(Ended)

LEMMA ExecutorSets ==
  ASSUME executors \in Seq(Executor)
  PROVE  /\ IsFiniteSet(Ended) /\ IsFiniteSet(Awaited)
         /\ Cardinality(Ended) \in Nat /\ Cardinality(Awaited) \in Nat
  <1>1. Len(executors) \in Nat /\ DOMAIN executors = 1..Len(executors)
    OBVIOUS
  <1>2. Ended \subseteq 1..Len(executors) /\ Awaited \subseteq 1..Len(executors)
    BY <1>1 DEF Ended, Awaited
  <1>3. IsFiniteSet(1..Len(executors))
    BY <1>1, FS_Interval
  <1>. QED  BY <1>2, <1>3, FS_Subset, FS_CardinalityType

LEMMA RecordedUp ==
  ASSUME TypeOK, IsFiniteSet(Counted(RunCounts)),
         NEW name \in Chains \cup {None}, NEW results, RecordChain(name, results)
  PROVE  IsFiniteSet(Counted(RunCounts'))
         /\ Recorded \in Nat /\ Total(RunCounts') = Recorded + 1
  <1>. DEFINE counts == RunCounts
              next   == RunCounts'
  <1>1. /\ history \in [Chains \cup {None} -> Entry]
        /\ \A c \in Chains \cup {None} : history[c].runCount \in Nat
    BY DEF TypeOK, Entry
  <1>2. /\ DOMAIN history' = Chains \cup {None}
        /\ \A c \in Chains \cup {None} :
             history'[c].runCount = history[c].runCount + IF c = name THEN 1 ELSE 0
    <2>. DEFINE counted == [history EXCEPT ![name].runCount = @ + 1]
    <2>1. /\ counted \in [Chains \cup {None} -> Entry]
          /\ \A c \in Chains \cup {None} :
               counted[c].runCount = history[c].runCount + IF c = name THEN 1 ELSE 0
      BY <1>1 DEF Entry
    <2>2. history' = [counted EXCEPT ![name].results = results]
      BY DEF RecordChain
    <2>. HIDE DEF counted
    <2>. QED  BY <2>1, <2>2 DEF Entry
  <1>3. \A c : Copies(c, counts) = IF c \in Chains \cup {None} THEN history[c].runCount ELSE 0
    BY <1>1 DEF Copies, RunCounts
  <1>4. \A c : Copies(c, next) = IF c \in Chains \cup {None} THEN history'[c].runCount ELSE 0
    BY <1>2 DEF Copies, RunCounts
  <1>5. \A c : Copies(c, counts) \in Nat
    BY <1>1, <1>3
  <1>6. \A c : Copies(c, next) = Copies(c, counts) + IF c = name THEN 1 ELSE 0
    BY <1>1, <1>2, <1>3, <1>4
  <1>7. IsFiniteSet(Counted(counts))
    OBVIOUS
  <1>. HIDE DEF counts, next
  <1>8. IsFiniteSet(Counted(next)) /\ Total(counts) \in Nat /\ Total(next) = Total(counts) + 1
    BY <1>5, <1>6, <1>7, TotalUp
  <1>. QED  BY <1>8 DEF counts, next, Recorded

LEMMA ResultsInit == Init => ResultsInv
  <1>. SUFFICES ASSUME Init PROVE ResultsInv
    OBVIOUS
  <1>1. inFlight = EmptyBag /\ executors = <<>> /\ \A c \in DOMAIN history : history[c].runCount = 0
    BY DEF Init
  <1>2. IsABag(inFlight) /\ BagToSet(inFlight) = {}
    BY <1>1 DEF EmptyBag, SetToBag, IsABag, BagToSet
  <1>3. \A c : Copies(c, RunCounts) = 0
    BY <1>1 DEF Copies, RunCounts
  <1>4. IsFiniteSet(Counted(RunCounts)) /\ Recorded = 0
    BY <1>3, TotalOfNone DEF Recorded
  <1>5. DOMAIN executors = {} /\ Len(executors) = 0
    BY <1>1
  <1>6. Ended = {} /\ Awaited = {}
    BY <1>5 DEF Ended, Awaited
  <1>7. Cardinality(Ended) = 0 /\ Cardinality(Awaited) = 0
    BY <1>6, FS_EmptySet
  <1>. QED  BY <1>2, <1>4, <1>5, <1>7 DEF ResultsInv, KnownSenders

(* A step by which no completion appears, and nothing is recorded.          *)
LEMMA QuietResults ==
  ASSUME TypeOK, TypeOK', ResultsInv, UNCHANGED history, Len(executors') = Len(executors),
         IsABag(inFlight'), KnownSenders',
         \A e \in DOMAIN executors :
           /\ executors'[e].end = "completed" <=> executors[e].end = "completed"
           /\ Delivered(e)' \in Nat /\ Delivered(e)' <= Delivered(e)
           /\ Queued(e)' => Queued(e)
           /\ OneCompletion(e)'
  PROVE  ResultsInv'
  <1>1. DOMAIN executors' = DOMAIN executors /\ Len(executors) \in Nat
    BY DEF TypeOK
  <1>2. \A e \in DOMAIN executors : Delivered(e) \in {0, 1}
    BY DEF ResultsInv, OneCompletion
  <1>3. Ended' = Ended /\ Awaited' \subseteq Awaited
    BY <1>1, <1>2 DEF Ended, Awaited
  <1>4. Cardinality(Awaited') <= Cardinality(Awaited) /\ Cardinality(Awaited') \in Nat
    BY <1>3, ExecutorSets, FS_Subset, FS_CardinalityType DEF TypeOK
  <1>5. Counted(RunCounts') = Counted(RunCounts) /\ Recorded' = Recorded
    BY DEF RunCounts, Recorded
  <1>6. Recorded \in Nat /\ Cardinality(Ended) \in Nat /\ Cardinality(Awaited) \in Nat
    BY ExecutorSets, FS_CardinalityType DEF TypeOK, ResultsInv, Recorded, Total
  <1>7. Recorded' >= Len(executors')
    BY <1>5 DEF ResultsInv
  <1>8. Recorded' + Cardinality(Awaited') <= Len(executors') + Cardinality(Ended')
    BY <1>1, <1>3, <1>4, <1>5, <1>6 DEF ResultsInv
  <1>. QED  BY <1>1, <1>5, <1>7, <1>8 DEF ResultsInv

LEMMA FlightDelivers ==
  ASSUME IsABag(inFlight), NEW m
  PROVE  /\ inFlight' = inFlight (+) SetToBag({m}) =>
              /\ IsABag(inFlight') /\ BagToSet(inFlight') = BagToSet(inFlight) \cup {m}
              /\ \A e : Delivered(e)' = Delivered(e) + IF m = Completion(e) THEN 1 ELSE 0
         /\ Take(m) =>
              /\ IsABag(inFlight') /\ BagToSet(inFlight') \subseteq BagToSet(inFlight)
              /\ \A e : Delivered(e)' = Delivered(e) - IF m = Completion(e) THEN 1 ELSE 0
         /\ \A e : Delivered(e) \in Nat
  <1>1. ASSUME inFlight' = inFlight (+) SetToBag({m})
        PROVE  /\ IsABag(inFlight') /\ BagToSet(inFlight') = BagToSet(inFlight) \cup {m}
               /\ \A e : Delivered(e)' = Delivered(e) + IF m = Completion(e) THEN 1 ELSE 0
    <2>1. \A x : Copies(x, inFlight') = Copies(x, inFlight) + IF x = m THEN 1 ELSE 0
      BY <1>1, PutCopies
    <2>2. \A e : Delivered(e)' = Copies(Completion(e), inFlight')
      BY DEF Delivered, Copies, Completion
    <2>. QED  BY <1>1, <2>1, <2>2, PutCopies, PutSet DEF Delivered
  <1>2. ASSUME Take(m)
        PROVE  /\ IsABag(inFlight') /\ BagToSet(inFlight') \subseteq BagToSet(inFlight)
               /\ \A e : Delivered(e)' = Delivered(e) - IF m = Completion(e) THEN 1 ELSE 0
    <2>0. BagIn(m, inFlight) /\ inFlight' = inFlight (-) SetToBag({m})
      BY <1>2 DEF Take
    <2>1. \A x : Copies(x, inFlight') = Copies(x, inFlight) - IF x = m THEN 1 ELSE 0
      BY <2>0, TakeCopies
    <2>2. \A e : Delivered(e)' = Copies(Completion(e), inFlight')
      BY DEF Delivered, Copies, Completion
    <2>. QED  BY <2>0, <2>1, <2>2, TakeCopies, TakeSet DEF Delivered
  <1>3. \A e : Delivered(e) \in Nat
    BY CopiesAreNat DEF Delivered
  <1>. QED  BY <1>1, <1>2, <1>3

(* The executors stay as they are, or are stopped, and no update is sent.   *)
LEMMA IdleResults ==
  ASSUME TypeOK, TypeOK', ResultsInv, UNCHANGED history, Len(executors') = Len(executors),
         \A e \in DOMAIN executors :
           executors'[e].updates = executors[e].updates /\ executors'[e].end = executors[e].end,
         \/ UNCHANGED inFlight
         \/ \E m : m.kind # "update" /\ inFlight' = inFlight (+) SetToBag({m})
         \/ \E m : Take(m)
  PROVE  ResultsInv'
  <1>1. DOMAIN executors' = DOMAIN executors /\ IsABag(inFlight) /\ KnownSenders
    BY DEF TypeOK, ResultsInv
  <1>2. \A e : Delivered(e) \in Nat
    BY <1>1, FlightDelivers
  <1>3. IsABag(inFlight') /\ KnownSenders' /\ \A e : Delivered(e)' <= Delivered(e)
    <2>1. CASE UNCHANGED inFlight
      BY <1>1, <1>2, <2>1 DEF KnownSenders, Delivered, Copies, Completion
    <2>2. ASSUME NEW m, m.kind # "update", inFlight' = inFlight (+) SetToBag({m})
          PROVE  IsABag(inFlight') /\ KnownSenders' /\ \A e : Delivered(e)' <= Delivered(e)
      <3>1. \A e : m # Completion(e)
        BY <2>2 DEF Completion
      <3>2. /\ IsABag(inFlight') /\ BagToSet(inFlight') = BagToSet(inFlight) \cup {m}
            /\ \A e : Delivered(e)' = Delivered(e) + IF m = Completion(e) THEN 1 ELSE 0
        BY <1>1, <2>2, FlightDelivers
      <3>3. KnownSenders'
        BY <1>1, <2>2, <3>2 DEF KnownSenders
      <3>. QED  BY <1>2, <3>1, <3>2, <3>3
    <2>3. ASSUME NEW m, Take(m)
          PROVE  IsABag(inFlight') /\ KnownSenders' /\ \A e : Delivered(e)' <= Delivered(e)
      <3>1. /\ IsABag(inFlight') /\ BagToSet(inFlight') \subseteq BagToSet(inFlight)
            /\ \A e : Delivered(e)' = Delivered(e) - IF m = Completion(e) THEN 1 ELSE 0
        BY <1>1, <2>3, FlightDelivers
      <3>2. KnownSenders'
        BY <1>1, <3>1 DEF KnownSenders
      <3>. QED  BY <1>2, <3>1, <3>2
    <2>. QED  BY <2>1, <2>2, <2>3
  <1>4. ASSUME NEW e \in DOMAIN executors
        PROVE  /\ executors'[e].end = "completed" <=> executors[e].end = "completed"
               /\ Delivered(e)' \in Nat /\ Delivered(e)' <= Delivered(e)
               /\ Queued(e)' => Queued(e)
               /\ OneCompletion(e)'
    <2>1. Queued(e)' <=> Queued(e)
      BY DEF Queued
    <2>2. Delivered(e)' \in Nat
      BY <1>3, CopiesAreNat DEF Delivered, Copies, Completion
    <2>3. OneCompletion(e)
      BY DEF ResultsInv
    <2>4. OneCompletion(e)'
      BY <1>3, <2>1, <2>2, <2>3 DEF OneCompletion
    <2>. QED  BY <1>3, <2>1, <2>2, <2>4
  <1>. QED  BY <1>3, <1>4, QuietResults

(* A step of one executor, or of a goroutine that receives from it.         *)
LEMMA OneExecutorResults ==
  ASSUME TypeOK, TypeOK', ResultsInv, UNCHANGED history, NEW e \in DOMAIN executors,
         Len(executors') = Len(executors),
         \A d \in DOMAIN executors : d # e =>
           executors'[d] = executors[d] /\ Delivered(d)' = Delivered(d),
         IsABag(inFlight'), KnownSenders', OneCompletion(e)',
         \/ /\ executors'[e].end = "completed" <=> executors[e].end = "completed"
            /\ Queued(e)' \/ Delivered(e)' # 0 => Queued(e) \/ Delivered(e) # 0
         \/ executors[e].end # "completed" /\ executors'[e].end = "completed"
  PROVE  ResultsInv'
  <1>1. DOMAIN executors' = DOMAIN executors /\ Len(executors) \in Nat
    BY DEF TypeOK
  <1>2. ASSUME NEW d \in DOMAIN executors, d # e
        PROVE  (Queued(d)' <=> Queued(d)) /\ OneCompletion(d)'
    <2>1. Queued(d)' <=> Queued(d)
      BY <1>2 DEF Queued
    <2>2. OneCompletion(d)
      BY DEF ResultsInv
    <2>. QED  BY <1>2, <2>1, <2>2 DEF OneCompletion
  <1>3. \A d \in DOMAIN executors' : OneCompletion(d)'
    BY <1>1, <1>2
  <1>4. /\ IsFiniteSet(Ended) /\ IsFiniteSet(Awaited)
        /\ Cardinality(Ended) \in Nat /\ Cardinality(Awaited) \in Nat
    BY ExecutorSets DEF TypeOK
  <1>5. IsFiniteSet(Awaited') /\ Cardinality(Awaited') \in Nat
    <2>1. DOMAIN executors = 1..Len(executors)
      BY DEF TypeOK
    <2>2. Awaited' \subseteq 1..Len(executors)
      BY <1>1, <2>1 DEF Awaited
    <2>3. IsFiniteSet(1..Len(executors))
      BY <1>1, FS_Interval
    <2>4. IsFiniteSet(Awaited')
      BY <2>2, <2>3, FS_Subset
    <2>. QED  BY <2>4, FS_CardinalityType
  <1>6. Counted(RunCounts') = Counted(RunCounts) /\ Recorded' = Recorded
    BY DEF RunCounts, Recorded
  <1>7. Recorded \in Nat
    BY FS_CardinalityType DEF ResultsInv, Recorded, Total
  <1>8. Cardinality(Awaited') - Cardinality(Ended') <= Cardinality(Awaited) - Cardinality(Ended)
        /\ Cardinality(Ended') \in Nat
    <2>1. CASE /\ executors'[e].end = "completed" <=> executors[e].end = "completed"
               /\ Queued(e)' \/ Delivered(e)' # 0 => Queued(e) \/ Delivered(e) # 0
      <3>1. Ended' = Ended /\ Awaited' \subseteq Awaited
        BY <1>1, <1>2, <2>1 DEF Ended, Awaited
      <3>2. Cardinality(Awaited') <= Cardinality(Awaited)
        BY <1>4, <3>1, FS_Subset
      <3>. QED  BY <1>4, <1>5, <3>1, <3>2
    <2>2. CASE executors[e].end # "completed" /\ executors'[e].end = "completed"
      <3>1. Ended' = Ended \cup {e} /\ e \notin Ended /\ Awaited' \subseteq Awaited \cup {e}
        BY <1>1, <1>2, <2>2 DEF Ended, Awaited
      <3>2. Cardinality(Ended') = Cardinality(Ended) + 1
        BY <1>4, <3>1, FS_AddElement
      <3>3. Cardinality(Awaited \cup {e}) <= Cardinality(Awaited) + 1 /\ IsFiniteSet(Awaited \cup {e})
            /\ Cardinality(Awaited \cup {e}) \in Nat
        <4>1. IsFiniteSet(Awaited \cup {e})
              /\ Cardinality(Awaited \cup {e})
                   = IF e \in Awaited THEN Cardinality(Awaited) ELSE Cardinality(Awaited) + 1
          BY <1>4, FS_AddElement
        <4>. QED  BY <1>4, <4>1
      <3>4. Cardinality(Awaited') <= Cardinality(Awaited \cup {e})
        BY <3>1, <3>3, FS_Subset
      <3>. QED  BY <1>4, <1>5, <3>2, <3>3, <3>4
    <2>. QED  BY <2>1, <2>2
  <1>9. /\ Recorded' >= Len(executors')
        /\ Recorded' + Cardinality(Awaited') <= Len(executors') + Cardinality(Ended')
    BY <1>4, <1>5, <1>6, <1>7, <1>8, <1>1 DEF ResultsInv
  <1>. QED  BY <1>3, <1>6, <1>9 DEF ResultsInv

(* What an executor has sent when a status was appended, or dropped.        *)
LEMMA SentUpdates ==
  ASSUME ExecutorsOK, NEW e \in DOMAIN executors, NEW status \in {"running", "completed"},
         ~Queued(e)
  PROVE  LET sent == Sent(e, status)
         IN  /\ status = "running" => \A n \in DOMAIN sent : sent[n] # "completed"
             /\ \A n \in DOMAIN sent : sent[n] = "completed" => n = Len(sent)
  <1>. DEFINE updates == executors[e].updates
  <1>0. executors[e] \in Executor
    BY DEF ExecutorsOK
  <1>1. updates \in Seq({"running", "completed"}) /\ \A n \in DOMAIN updates : updates[n] # "completed"
    BY <1>0 DEF Executor, Queued
  <1>2. Sent(e, status) = Append(updates, status) \/ Sent(e, status) = updates
    BY DEF Sent
  <1>. HIDE DEF updates
  <1>. QED  BY <1>1, <1>2

LEMMA GoroutineResults ==
  ASSUME TypeOK, TypeOK', ResultsInv, NEW e \in DOMAIN executors,
         ExecutorReports(e) \/ ExecutorEnds(e)
  PROVE  ResultsInv'
  <1>0. /\ ExecutorsOK /\ executors[e] \in Executor /\ executors[e].end = ""
        /\ IsABag(inFlight) /\ KnownSenders /\ UNCHANGED <<inFlight, history>>
        /\ ~Queued(e) /\ Delivered(e) = 0
    <2>1. executors[e].end = "" /\ UNCHANGED <<inFlight, history>>
      BY DEF ExecutorReports, ExecutorEnds
    <2>2. OneCompletion(e) /\ IsABag(inFlight) /\ KnownSenders
      BY DEF ResultsInv
    <2>3. ~Queued(e) /\ Delivered(e) = 0
      BY <2>1, <2>2 DEF OneCompletion
    <2>4. ExecutorsOK /\ executors[e] \in Executor
      BY DEF TypeOK, ExecutorsOK
    <2>. QED  BY <2>1, <2>2, <2>3, <2>4
  <1>1. \A d : Delivered(d)' = Delivered(d)
    BY <1>0 DEF Delivered, Completion, Copies
  <1>2. /\ Len(executors') = Len(executors)
        /\ \A d \in DOMAIN executors : d # e => executors'[d] = executors[d]
    <2>1. Len(executors') = Len(executors)
      BY <1>0, ReportsOK, EndsOK DEF SameExecutors
    <2>2. ASSUME NEW d \in DOMAIN executors, d # e PROVE executors'[d] = executors[d]
      BY <2>2 DEF ExecutorReports, ExecutorEnds
    <2>. QED  BY <2>1, <2>2
  <1>3. KnownSenders' /\ IsABag(inFlight')
    <2>1. DOMAIN executors' = DOMAIN executors
      BY <1>2 DEF TypeOK
    <2>. QED  BY <1>0, <2>1 DEF KnownSenders
  <1>4. /\ OneCompletion(e)'
        /\ \/ executors'[e].end # "completed" /\ ~Queued(e)'
           \/ executors'[e].end = "completed"
    <2>1. CASE ExecutorReports(e)
      <3>. DEFINE sent == Sent(e, "running")
      <3>1. executors'[e].updates = sent /\ executors'[e].end = ""
        BY <1>0, <2>1 DEF ExecutorReports, TypeOK, Executor
      <3>2. \A n \in DOMAIN sent : sent[n] # "completed"
        BY <1>0, SentUpdates
      <3>. HIDE DEF sent
      <3>. QED  BY <1>0, <1>1, <3>1, <3>2 DEF OneCompletion, Queued
    <2>2. CASE executors' = [executors EXCEPT ![e].updates = Sent(e, "completed"), ![e].end = "completed"]
      <3>. DEFINE sent == Sent(e, "completed")
                  told == [executors EXCEPT ![e].updates = sent]
      <3>0. sent \in Seq({"running", "completed"})
        BY <1>0, SentOK
      <3>1. \A n \in DOMAIN sent : sent[n] = "completed" => n = Len(sent)
        BY <1>0, SentUpdates
      <3>2. executors' = [told EXCEPT ![e].end = "completed"]
        BY <2>2
      <3>. HIDE DEF sent
      <3>3. e \in DOMAIN told /\ told[e] = [executors[e] EXCEPT !.updates = sent]
        BY DEF TypeOK
      <3>. HIDE DEF told
      <3>4. executors'[e] = [[executors[e] EXCEPT !.updates = sent] EXCEPT !.end = "completed"]
        BY <3>2, <3>3
      <3>. DEFINE x == [executors[e] EXCEPT !.updates = sent]
      <3>5. x \in Executor /\ x.updates = sent
        BY <1>0, <3>0 DEF Executor
      <3>6. executors'[e] = [x EXCEPT !.end = "completed"]
        BY <3>4
      <3>. DEFINE r == [x EXCEPT !.end = "completed"]
      <3>. HIDE DEF x
      <3>7. r.updates = sent /\ r.end = "completed"
        BY <3>5 DEF Executor
      <3>8. executors'[e] = r
        BY <3>6
      <3>. HIDE DEF r
      <3>9. executors'[e].updates = sent /\ executors'[e].end = "completed"
        BY <3>7, <3>8
      <3>10. Delivered(e)' = 0
        BY <1>0, <1>1
      <3>11. \A n \in DOMAIN executors'[e].updates :
               executors'[e].updates[n] = "completed" => n = Len(executors'[e].updates)
        BY <3>1, <3>9
      <3>. QED  BY <3>9, <3>10, <3>11 DEF OneCompletion
    <2>3. CASE executors' = [executors EXCEPT ![e].end = "silent"]
      <3>1. executors'[e].updates = executors[e].updates /\ executors'[e].end = "silent"
        BY <1>0, <2>3 DEF TypeOK, Executor
      <3>. QED  BY <1>0, <1>1, <3>1 DEF OneCompletion, Queued
    <2>. QED  BY <2>1, <2>2, <2>3 DEF ExecutorEnds
  <1>. QED  BY <1>0, <1>1, <1>2, <1>3, <1>4, OneExecutorResults

(* A subscription moves the first update from the channel into the loop.    *)
LEMMA ReceiveResults ==
  ASSUME TypeOK, TypeOK', ResultsInv, NEW e \in DOMAIN executors, Receive(e)
  PROVE  ResultsInv'
  <1>. DEFINE updates == executors[e].updates
  <1>0. /\ ExecutorsOK /\ executors[e] \in Executor /\ OneCompletion(e)
        /\ IsABag(inFlight) /\ KnownSenders /\ UNCHANGED history
        /\ updates \in Seq({"running", "completed"})
    <2>1. ExecutorsOK /\ executors[e] \in Executor
      BY DEF TypeOK, ExecutorsOK
    <2>. QED  BY <2>1 DEF Executor, ResultsInv, Receive
  <1>1. PICK status :
          /\ inFlight' = inFlight (+) SetToBag({[kind |-> "update", executor |-> e, status |-> status]})
          /\ \/ /\ updates # <<>> /\ status = Head(updates)
                /\ executors' = [executors EXCEPT ![e].updates = Tail(@)]
             \/ status = "zero" /\ UNCHANGED executors
    BY DEF Receive
  <1>. DEFINE msg == [kind |-> "update", executor |-> e, status |-> status]
  <1>2. \A d : msg = Completion(d) <=> d = e /\ status = "completed"
    BY DEF Completion
  <1>3. inFlight' = inFlight (+) SetToBag({msg}) /\ msg.executor = e
    BY <1>1
  <1>. HIDE DEF msg
  <1>4. /\ IsABag(inFlight') /\ BagToSet(inFlight') = BagToSet(inFlight) \cup {msg}
        /\ \A d : Delivered(d)' = Delivered(d) + IF msg = Completion(d) THEN 1 ELSE 0
        /\ \A d : Delivered(d) \in Nat
    BY <1>0, <1>3, FlightDelivers
  <1>5. Len(executors') = Len(executors) /\ DOMAIN executors' = DOMAIN executors
    BY <1>0, ReceiveOK DEF SameExecutors, TypeOK
  <1>6. KnownSenders'
    BY <1>0, <1>3, <1>4, <1>5 DEF KnownSenders
  <1>7. /\ \A d : d # e => Delivered(d)' = Delivered(d)
        /\ Delivered(e)' = Delivered(e) + IF status = "completed" THEN 1 ELSE 0
    BY <1>2, <1>4
  <1>8. \A d \in DOMAIN executors : d # e => executors'[d] = executors[d]
    BY <1>1
  <1>9. CASE UNCHANGED executors /\ status = "zero"
    <2>1. (Queued(e)' <=> Queued(e)) /\ Delivered(e)' = Delivered(e)
      BY <1>4, <1>7, <1>9 DEF Queued
    <2>2. OneCompletion(e)'
      BY <1>0, <1>9, <2>1 DEF OneCompletion
    <2>. QED  BY <1>0, <1>4, <1>5, <1>6, <1>7, <1>8, <1>9, <2>1, <2>2, OneExecutorResults
  <1>10. CASE /\ updates # <<>> /\ status = Head(updates)
              /\ executors' = [executors EXCEPT ![e].updates = Tail(@)]
    <2>. DEFINE rest == Tail(updates)
    <2>0. rest \in Seq({"running", "completed"})
      BY <1>0, <1>10
    <2>1. executors'[e].updates = rest /\ executors'[e].end = executors[e].end
      BY <1>0, <1>10 DEF Executor
    <2>2. /\ Len(rest) = Len(updates) - 1 /\ Len(rest) \in Nat /\ DOMAIN rest = 1..Len(rest)
          /\ DOMAIN updates = 1..Len(updates)
          /\ \A n \in DOMAIN rest : n + 1 \in DOMAIN updates /\ rest[n] = updates[n + 1]
          /\ 1 \in DOMAIN updates /\ updates[1] = status
      BY <1>0, <1>10
    <2>3. \A n \in DOMAIN updates : updates[n] = "completed" => n = Len(updates)
      BY <1>0 DEF OneCompletion
    <2>. HIDE DEF rest, updates
    <2>4. \A n \in DOMAIN rest : rest[n] = "completed" => n = Len(rest)
      BY <2>2, <2>3
    <2>5. Queued(e) <=> \E n \in DOMAIN updates : updates[n] = "completed"
      BY DEF Queued, updates
    <2>6. Queued(e)' <=> \E n \in DOMAIN rest : rest[n] = "completed"
      BY <2>1 DEF Queued
    <2>7. Queued(e)' => Queued(e)
      BY <2>2, <2>5, <2>6
    <2>8. status = "completed" => Queued(e) /\ ~Queued(e)'
      <3>. SUFFICES ASSUME status = "completed" PROVE Queued(e) /\ ~Queued(e)'
        OBVIOUS
      <3>1. Len(updates) = 1
        BY <2>2, <2>3
      <3>2. DOMAIN rest = {}
        BY <2>2, <3>1
      <3>. QED  BY <2>2, <2>5, <2>6, <3>2
    <2>9. OneCompletion(e)'
      <3>1. \A n \in DOMAIN executors'[e].updates :
              executors'[e].updates[n] = "completed" => n = Len(executors'[e].updates)
        BY <2>1, <2>4
      <3>2. /\ executors'[e].end # "completed" => ~Queued(e)' /\ Delivered(e)' = 0
            /\ Delivered(e)' \in {0, 1}
            /\ Delivered(e)' = 1 => ~Queued(e)'
        <4>1. CASE status = "completed"
          <5>1. Queued(e) /\ ~Queued(e)'
            BY <2>8, <4>1
          <5>2. executors[e].end = "completed" /\ Delivered(e) = 0
            BY <1>0, <5>1 DEF OneCompletion
          <5>. QED  BY <1>7, <2>1, <4>1, <5>1, <5>2
        <4>2. CASE status # "completed"
          <5>1. Delivered(e)' = Delivered(e)
            BY <1>4, <1>7, <4>2
          <5>. QED  BY <1>0, <2>1, <2>7, <5>1 DEF OneCompletion
        <4>. QED  BY <4>1, <4>2
      <3>. QED  BY <3>1, <3>2 DEF OneCompletion
    <2>10. Queued(e)' \/ Delivered(e)' # 0 => Queued(e) \/ Delivered(e) # 0
      BY <1>4, <1>7, <2>7, <2>8
    <2>. QED  BY <1>0, <1>4, <1>5, <1>6, <1>7, <1>8, <2>1, <2>9, <2>10, OneExecutorResults
  <1>. QED  BY <1>1, <1>9, <1>10

(* A chain that starts is recorded, and has no completion yet.              *)
LEMMA StartResults ==
  ASSUME TypeOK, TypeOK', ResultsInv, NEW msg, HandleChainConfirmResult(msg)
  PROVE  ResultsInv'
  <1>. PICK last : last = Len(executors) + 1
    OBVIOUS
  <1>. PICK new : new = NewExecutor(msg.chain, pendingChain)
    OBVIOUS
  <1>0. /\ Take(msg) /\ executors' = Append(executors, new)
        /\ RecordChain(msg.chain, 0) /\ msg.kind = "confirm"
        /\ IsABag(inFlight) /\ KnownSenders /\ IsFiniteSet(Counted(RunCounts))
    BY DEF HandleChainConfirmResult, ResultsInv
  <1>1. new.updates = <<>> /\ new.end = ""
    BY DEF NewExecutor
  <1>2. msg.chain \in Chains
    <2>1. msg \in Message
      BY <1>0, TakeOK DEF TypeOK
    <2>. QED  BY <1>0, <2>1 DEF Message
  <1>3. /\ Len(executors) \in Nat /\ DOMAIN executors = 1..Len(executors)
        /\ Len(executors') = last /\ DOMAIN executors' = 1..last
        /\ executors'[last] = new
        /\ \A e \in DOMAIN executors : executors'[e] = executors[e]
    BY <1>0 DEF TypeOK
  <1>4. /\ IsABag(inFlight') /\ BagToSet(inFlight') \subseteq BagToSet(inFlight)
        /\ \A e : Delivered(e)' = Delivered(e) - IF msg = Completion(e) THEN 1 ELSE 0
        /\ \A e : Delivered(e) \in Nat
    BY <1>0, FlightDelivers
  <1>5. \A e : Delivered(e)' = Delivered(e)
    <2>1. \A e : msg # Completion(e)
      BY <1>0 DEF Completion
    <2>. QED  BY <1>4, <2>1
  <1>6. Delivered(last)' = 0
    <2>1. last \notin DOMAIN executors
      BY <1>3
    <2>2. Completion(last).kind = "update" /\ Completion(last).executor = last
      BY DEF Completion
    <2>3. Completion(last) \notin BagToSet(inFlight)
      BY <1>0, <2>1, <2>2 DEF KnownSenders
    <2>4. Delivered(last) = 0
      BY <2>3 DEF Delivered, Copies, BagToSet
    <2>. QED  BY <1>5, <2>4
  <1>7. KnownSenders'
    BY <1>0, <1>3, <1>4 DEF KnownSenders
  <1>8. \A e \in DOMAIN executors : Queued(e)' <=> Queued(e)
    BY <1>3 DEF Queued
  <1>9. ~Queued(last)' /\ executors'[last].updates = <<>> /\ executors'[last].end = ""
    <2>1. executors'[last].updates = <<>> /\ executors'[last].end = ""
      BY <1>1, <1>3
    <2>2. DOMAIN <<>> = {}
      OBVIOUS
    <2>. QED  BY <2>1, <2>2 DEF Queued
  <1>10. \A e \in DOMAIN executors' : OneCompletion(e)'
    <2>1. ASSUME NEW e \in DOMAIN executors PROVE OneCompletion(e)'
      <3>1. OneCompletion(e)
        BY DEF ResultsInv
      <3>. QED  BY <1>3, <1>5, <1>8, <3>1 DEF OneCompletion
    <2>2. OneCompletion(last)'
      <3>1. DOMAIN <<>> = {}
        OBVIOUS
      <3>. QED  BY <1>6, <1>9, <3>1 DEF OneCompletion
    <2>. QED  BY <1>3, <2>1, <2>2
  <1>11. Ended' = Ended /\ Awaited' = Awaited
    <2>1. last \notin Ended' /\ last \notin Awaited'
      BY <1>6, <1>9 DEF Ended, Awaited
    <2>2. ASSUME NEW e \in DOMAIN executors
          PROVE  (e \in Ended' <=> e \in Ended) /\ (e \in Awaited' <=> e \in Awaited)
      BY <1>3, <1>5, <1>8 DEF Ended, Awaited
    <2>3. \A e \in Ended' \cup Awaited' : e \in DOMAIN executors
      BY <1>3, <2>1 DEF Ended, Awaited
    <2>. QED  BY <2>2, <2>3 DEF Ended, Awaited
  <1>12. IsFiniteSet(Counted(RunCounts')) /\ Recorded \in Nat /\ Recorded' = Recorded + 1
    BY <1>0, <1>2, RecordedUp DEF Recorded
  <1>13. Cardinality(Ended) \in Nat /\ Cardinality(Awaited) \in Nat
    BY ExecutorSets DEF TypeOK
  <1>14. /\ Recorded' >= Len(executors')
         /\ Recorded' + Cardinality(Awaited') <= Len(executors') + Cardinality(Ended')
    BY <1>3, <1>11, <1>12, <1>13 DEF ResultsInv
  <1>. QED  BY <1>4, <1>7, <1>10, <1>12, <1>14 DEF ResultsInv

(* A completion that is recorded will not come again.                       *)
LEMMA CompletedResults ==
  ASSUME TypeOK, TypeOK', ResultsInv, NEW msg, Take(msg), msg.kind = "update",
         msg.status = "completed", UNCHANGED executors,
         NEW name \in Chains \cup {None}, RecordChain(name, msg.executor)
  PROVE  ResultsInv'
  <1>. DEFINE e == msg.executor
  <1>0. /\ IsABag(inFlight) /\ KnownSenders /\ IsFiniteSet(Counted(RunCounts))
        /\ msg \in Message /\ msg \in BagToSet(inFlight)
    BY TakeOK DEF ResultsInv, TypeOK, Take, BagIn
  <1>1. e \in DOMAIN executors /\ msg = Completion(e)
    <2>1. msg \in [kind : {"update"}, executor : Nat \ {0}, status : {"running", "completed", "zero"}]
      BY <1>0 DEF Message
    <2>. QED  BY <1>0, <2>1 DEF KnownSenders, Completion
  <1>2. \A d : msg = Completion(d) <=> d = e
    BY <1>1 DEF Completion
  <1>. HIDE DEF e
  <1>3. /\ IsABag(inFlight') /\ BagToSet(inFlight') \subseteq BagToSet(inFlight)
        /\ \A d : Delivered(d)' = Delivered(d) - IF msg = Completion(d) THEN 1 ELSE 0
        /\ \A d : Delivered(d) \in Nat
    BY <1>0, FlightDelivers
  <1>4. Delivered(e) \in Nat \ {0}
    <2>1. msg \in DOMAIN inFlight /\ inFlight[msg] \in Nat \ {0}
      BY <1>0 DEF BagToSet, IsABag
    <2>. QED  BY <1>1, <2>1 DEF Delivered, Copies
  <1>5. OneCompletion(e)
    BY <1>1 DEF ResultsInv
  <1>6. Delivered(e) = 1 /\ ~Queued(e) /\ Delivered(e)' = 0
    BY <1>2, <1>3, <1>4, <1>5 DEF OneCompletion
  <1>7. \A d : d # e => Delivered(d)' = Delivered(d)
    BY <1>2, <1>3
  <1>8. \A d : Queued(d)' <=> Queued(d)
    BY DEF Queued
  <1>9. \A d \in DOMAIN executors' : OneCompletion(d)'
    <2>. SUFFICES ASSUME NEW d \in DOMAIN executors PROVE OneCompletion(d)'
      OBVIOUS
    <2>1. OneCompletion(d)
      BY DEF ResultsInv
    <2>. QED  BY <1>6, <1>7, <1>8, <2>1 DEF OneCompletion
  <1>10. Ended' = Ended /\ Awaited' = Awaited \ {e} /\ e \in Awaited
    BY <1>1, <1>6, <1>7, <1>8 DEF Ended, Awaited
  <1>11. /\ Cardinality(Ended) \in Nat /\ Cardinality(Awaited) \in Nat
         /\ Cardinality(Awaited') = Cardinality(Awaited) - 1
    BY <1>10, ExecutorSets, FS_RemoveElement DEF TypeOK
  <1>12. IsFiniteSet(Counted(RunCounts')) /\ Recorded \in Nat /\ Recorded' = Recorded + 1
    <2>. DEFINE results == msg.executor
    <2>1. RecordChain(name, results)
      OBVIOUS
    <2>. HIDE DEF results
    <2>. QED  BY <1>0, <2>1, RecordedUp DEF Recorded
  <1>13. /\ Recorded' >= Len(executors')
         /\ Recorded' + Cardinality(Awaited') <= Len(executors') + Cardinality(Ended')
    <2>1. Len(executors') = Len(executors) /\ Len(executors) \in Nat
      BY DEF TypeOK
    <2>. QED  BY <1>10, <1>11, <1>12, <2>1 DEF ResultsInv
  <1>14. KnownSenders'
    BY <1>0, <1>3 DEF KnownSenders
  <1>. QED  BY <1>3, <1>9, <1>12, <1>13, <1>14 DEF ResultsInv

LEMMA ResultsStep ==
  ASSUME TypeOK, TypeOK', ResultsInv, [Next]_vars
  PROVE  ResultsInv'
  <1>1. CASE \E msg : HandleChainConfirmResult(msg)
    BY <1>1, StartResults
  <1>2. ASSUME NEW msg, HandleChainUpdate(msg)
        PROVE  ResultsInv'
    <2>1. Take(msg) /\ msg.kind = "update" /\ UNCHANGED executors
      BY <1>2 DEF HandleChainUpdate
    <2>2. CASE UNCHANGED history
      BY <2>1, <2>2, IdleResults
    <2>3. CASE history' # history
      <3>1. msg.status = "completed" /\ RecordChain(executingChain, msg.executor)
        BY <1>2, <2>3 DEF HandleChainUpdate
      <3>2. executingChain \in Chains \cup {None}
        BY DEF TypeOK
      <3>. QED  BY <2>1, <3>1, <3>2, CompletedResults
    <2>. QED  BY <2>2, <2>3
  <1>3. CASE \E e \in DOMAIN executors : Receive(e) \/ ExecutorReports(e) \/ ExecutorEnds(e)
    BY <1>3, ReceiveResults, GoroutineResults
  <1>4. CASE \E msg : HandleChainStatusStop(msg)
    <2>1. PICK msg : HandleChainStatusStop(msg)
      BY <1>4
    <2>2. Take(msg) /\ UNCHANGED history /\ Len(executors') = Len(executors)
      BY <2>1, StopOK DEF HandleChainStatusStop, TypeOK, ExecutorsOK, SameExecutors
    <2>3. ASSUME NEW e \in DOMAIN executors
          PROVE  executors'[e].updates = executors[e].updates /\ executors'[e].end = executors[e].end
      <3>. DEFINE stopped == executors[e].stopped \/ e = chainExecutor
      <3>1. executors'[e] = [executors[e] EXCEPT !.stopped = stopped]
        BY <2>1 DEF HandleChainStatusStop
      <3>2. executors[e] \in Executor
        BY DEF TypeOK
      <3>. HIDE DEF stopped
      <3>. QED  BY <3>1, <3>2 DEF Executor
    <2>. QED  BY <2>2, <2>3, IdleResults
  <1>5. CASE UNCHANGED <<executors, history>> /\ (UNCHANGED inFlight \/ \E msg : Take(msg))
    BY <1>5, IdleResults
  <1>6. CASE AnswerModal
    BY <1>6, AnswersSend, IdleResults
  <1>7. CASE HandleMessage
    BY <1>1, <1>2, <1>4, <1>5, <1>7 DEF HandleMessage, GoesToModal, HandleChainSelectResult,
       HandleChainVariableResult, DeclineChain
  <1>8. CASE \/ \E c \in Chains : EnterOnChain(c)
             \/ OpenChainSelectModal
             \/ UNCHANGED vars
    BY <1>5, <1>8 DEF EnterOnChain, OpenChainSelectModal, vars
  <1>. QED  BY <1>3, <1>6, <1>7, <1>8 DEF Next

(* Each start is recorded, and again at most each completion: no update of  *)
(* a chain that was aborted, stopped or replaced makes another record.      *)
THEOREM CompletionsAreRecordedOnce == Spec => []ResultsRecordedOnce
  <1>1. Spec => []ResultsInv
    BY TypeCorrect, ResultsInit, ResultsStep, PTL DEF Spec
  <1>2. TypeOK /\ ResultsInv => ResultsRecordedOnce
    <2>. SUFFICES ASSUME TypeOK, ResultsInv PROVE ResultsRecordedOnce
      OBVIOUS
    <2>1. Recorded \in Nat
      BY FS_CardinalityType DEF ResultsInv, Recorded, Total
    <2>2. Cardinality(Ended) \in Nat /\ Cardinality(Awaited) \in Nat /\ Len(executors) \in Nat
      BY ExecutorSets DEF TypeOK
    <2>3. Recorded <= Len(executors) + Cardinality(Ended) /\ Recorded >= Len(executors)
      BY <2>1, <2>2 DEF ResultsInv
    <2>. QED  BY <2>1, <2>2, <2>3 DEF ResultsRecordedOnce, Ended
  <1>. QED  BY TypeCorrect, <1>1, <1>2, PTL
=============================================================================
