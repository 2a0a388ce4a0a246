----------------------------- MODULE AppSession -----------------------------
(***************************************************************************)
(* The session of the user interface in which chains are run               *)
(* (internal/app): the modal stack, the flow from choosing a chain to its  *)
(* status modal, and the subscription that carries a chain's updates back  *)
(* into the event loop.                                                    *)
(*                                                                         *)
(* The event loop (Model.Update) takes one message at a time.  What a      *)
(* handler or a modal returns as a command is run by a goroutine of its    *)
(* own, which sends the result back as a message: such messages are in     *)
(* flight, and reach the loop in any order among themselves and among the  *)
(* user's keys.  While a modal is open, every message goes to the modal.   *)
(*                                                                         *)
(* Executors appear here as ChainExecutor describes them from outside: a   *)
(* channel of updates that is closed at the end, with the completion as    *)
(* the last update, or without a last word when the chain is aborted or    *)
(* left.                                                                   *)
(***************************************************************************)
EXTENDS Naturals, Sequences, FiniteSets, Bags

CONSTANTS
  Chains,       \* the names of the configured chains
  Asking,       \* those that have variables to ask for
  UpdateCap,    \* capacity of an executor's updates channel
  MaxConfirms,  \* bound: how often the user confirms a chain
  MaxInFlight   \* bound: messages in flight at a time

None == "none"

ASSUME ChainsAssumption == Asking \subseteq Chains /\ None \notin Chains
ASSUME SessionBounds == {UpdateCap, MaxConfirms, MaxInFlight} \subseteq Nat

VARIABLES
  modals,         \* modalStack, the top last
  inFlight,       \* messages on their way to the event loop: a bag
  receivers,      \* goroutines of chainSubscription: a bag of executors
  pendingChain,   \* pendingChain
  chainExecutor,  \* chainExecutor: an index of executors, 0 for nil
  executingChain, \* executingChainName
  history,        \* the chain entries of the history: see Entry
  executors,      \* the executors created so far
  confirmed,      \* how often the user confirmed each chain
  overtaken       \* history: pendingChain was set while the yes to another
                  \* chain was in flight

model == <<modals, pendingChain, chainExecutor, executingChain>>
vars  == <<model, inFlight, receivers, history, executors, confirmed, overtaken>>

Modal ==
  [kind : {"select"}] \cup
  [kind : {"variables", "confirm"}, chain : Chains] \cup
  [kind : {"status"}, executor : Nat \ {0}]

Message ==
  [kind : {"selected"}, chain : Chains] \cup
  [kind : {"variables"}, canceled : BOOLEAN] \cup
  [kind : {"confirm"}, chain : Chains, confirmed : BOOLEAN] \cup
  [kind : {"stop"}] \cup
  [kind : {"update"}, executor : Nat \ {0}, status : {"running", "completed", "zero"}]

(* name: what it reports and is recorded as; steps: the chain whose steps   *)
(* it runs.                                                                 *)
Executor ==
  [name : Chains, steps : Chains, updates : Seq({"running", "completed"}),
   stopped : BOOLEAN, end : {"", "completed", "silent"}]

(* results: the executor whose step results the entry holds (0: nil). *)
Entry == [runCount : Nat, results : Nat]

(* What a function or a bag counts, one by one, and how many that are.      *)
Counted(counts) == UNION {{x} \X (1..counts[x]) : x \in DOMAIN counts}
Total(counts)   == Cardinality(Counted(counts))

Init ==
  /\ modals = <<>>
  /\ inFlight = EmptyBag
  /\ receivers = EmptyBag
  /\ pendingChain = None
  /\ chainExecutor = 0
  /\ executingChain = None
  /\ history = [c \in Chains \cup {None} |-> [runCount |-> 0, results |-> 0]]
  /\ executors = <<>>
  /\ confirmed = [c \in Chains |-> 0]
  /\ overtaken = FALSE

----------------------------------------------------------------------------
(* Keys pressed while no modal is open *)

(* The bound: the user types on, and goroutines send, while fewer messages  *)
(* are in flight.                                                           *)
Room == BagCardinality(inFlight) < MaxInFlight

(* The bound: chains are opened and confirmed until so many were confirmed. *)
GoesOn == Total(confirmed) < MaxConfirms

Push(modal) == modals' = Append(modals, modal)

NoModal == modals = <<>>

YesInFlight == {msg \in BagToSet(inFlight) : msg.kind = "confirm" /\ msg.confirmed}

(* Mutant of StartChainFlow: a chain still pending stays so.                *)
StartChainFlowKeepsPending(c) ==
  /\ pendingChain' = IF pendingChain = None THEN c ELSE pendingChain
  /\ overtaken' = \E msg \in YesInFlight : msg.chain # c
  /\ Push([kind |-> IF c \in Asking THEN "variables" ELSE "confirm", chain |-> c])

(* startChainFlow: the variables are asked for first, if there are any.     *)
StartChainFlow(c) ==
  /\ pendingChain' = c
  /\ overtaken' = \E msg \in YesInFlight : msg.chain # c
  /\ Push([kind |-> IF c \in Asking THEN "variables" ELSE "confirm", chain |-> c])

EnterOnChain(c) ==
  /\ Room /\ GoesOn /\ NoModal
  /\ StartChainFlow(c)
  /\ UNCHANGED <<inFlight, receivers, chainExecutor, executingChain, history, executors,
                 confirmed>>

OpenChainSelectModal ==
  /\ Room /\ GoesOn /\ NoModal
  /\ Push([kind |-> "select"])
  /\ UNCHANGED <<inFlight, receivers, pendingChain, chainExecutor, executingChain, history,
                 executors, confirmed, overtaken>>

----------------------------------------------------------------------------
(* Keys pressed in the topmost modal *)

Top == modals[Len(modals)]

On(kind) == modals # <<>> /\ Top.kind = kind

(* The stack pops a modal that is done; the command it returns is run.      *)
PopAndSend(msg) ==
  /\ Room
  /\ modals' = SubSeq(modals, 1, Len(modals) - 1)
  /\ inFlight' = inFlight (+) SetToBag({msg})

(* Mutant of CloseModal: closing the status modal renews the subscription.  *)
CloseModalResubscribes ==
  /\ On("select") \/ On("status")
  /\ modals' = SubSeq(modals, 1, Len(modals) - 1)
  /\ receivers' = IF On("status") THEN receivers (+) SetToBag({Top.executor}) ELSE receivers
  /\ UNCHANGED <<inFlight, pendingChain, chainExecutor, executingChain, history,
                 executors, confirmed, overtaken>>

CloseModal ==
  /\ On("select") \/ On("status")
  /\ modals' = SubSeq(modals, 1, Len(modals) - 1)
  /\ UNCHANGED <<inFlight, receivers, pendingChain, chainExecutor, executingChain, history,
                 executors, confirmed, overtaken>>

SelectChain(c) ==
  /\ On("select")
  /\ PopAndSend([kind |-> "selected", chain |-> c])
  /\ UNCHANGED <<receivers, pendingChain, chainExecutor, executingChain, history, executors,
                 confirmed, overtaken>>

AnswerVariables(canceled) ==
  /\ On("variables")
  /\ PopAndSend([kind |-> "variables", canceled |-> canceled])
  /\ UNCHANGED <<receivers, pendingChain, chainExecutor, executingChain, history, executors,
                 confirmed, overtaken>>

AnswerConfirm(yes) ==
  /\ On("confirm")
  /\ yes => GoesOn
  /\ PopAndSend([kind |-> "confirm", chain |-> Top.chain, confirmed |-> yes])
  /\ confirmed' = IF yes THEN [confirmed EXCEPT ![Top.chain] = @ + 1] ELSE confirmed
  /\ UNCHANGED <<receivers, pendingChain, chainExecutor, executingChain, history, executors,
                 overtaken>>

StopInStatus ==
  /\ On("status")
  /\ PopAndSend([kind |-> "stop"])
  /\ UNCHANGED <<receivers, pendingChain, chainExecutor, executingChain, history, executors,
                 confirmed, overtaken>>

----------------------------------------------------------------------------
(* Messages the event loop takes *)

Take(msg) ==
  /\ BagIn(msg, inFlight)
  /\ inFlight' = inFlight (-) SetToBag({msg})

(* With a modal open the message goes there; no modal of this session does  *)
(* anything with a message that is not a key.                               *)
GoesToModal(msg) ==
  /\ modals # <<>>
  /\ Take(msg)
  /\ UNCHANGED <<model, receivers, history, executors, confirmed, overtaken>>

HandleChainSelectResult(msg) ==
  /\ NoModal
  /\ msg.kind = "selected"
  /\ Take(msg)
  /\ StartChainFlow(msg.chain)
  /\ UNCHANGED <<receivers, chainExecutor, executingChain, history, executors, confirmed>>

ClearPending == pendingChain' = None /\ overtaken' = FALSE

HandleChainVariableResult(msg) ==
  /\ NoModal
  /\ msg.kind = "variables"
  /\ Take(msg)
  /\ IF msg.canceled \/ pendingChain = None
     THEN ClearPending /\ UNCHANGED modals
     ELSE /\ Push([kind |-> "confirm", chain |-> pendingChain])
          /\ UNCHANGED <<pendingChain, overtaken>>
  /\ UNCHANGED <<receivers, chainExecutor, executingChain, history, executors, confirmed>>

RecordChain(name, results) ==
  history' = [history EXCEPT ![name].runCount = @ + 1, ![name].results = results]

NewExecutor(name, steps) ==
  [name |-> name, steps |-> steps, updates |-> <<>>, stopped |-> FALSE, end |-> ""]

ChainSubscription(executor) ==
  receivers' = IF executor = 0 THEN receivers ELSE receivers (+) SetToBag({executor})

DeclineChain(msg) ==
  /\ NoModal
  /\ msg.kind = "confirm"
  /\ ~msg.confirmed \/ pendingChain = None
  /\ Take(msg)
  /\ ClearPending
  /\ UNCHANGED <<modals, receivers, chainExecutor, executingChain, history, executors,
                 confirmed>>

(* Mutant of HandleChainConfirmResult: a chain that is running stays.       *)
HandleChainConfirmResultKeepsFirst(msg) ==
  /\ NoModal
  /\ msg.kind = "confirm"
  /\ msg.confirmed /\ pendingChain # None
  /\ Take(msg)
  /\ executors' = Append(executors, NewExecutor(msg.chain, pendingChain))
  /\ chainExecutor' = IF chainExecutor = 0 THEN Len(executors') ELSE chainExecutor
  /\ executingChain' = msg.chain
  /\ RecordChain(msg.chain, 0)
  /\ Push([kind |-> "status", executor |-> Len(executors')])
  /\ ClearPending
  /\ ChainSubscription(Len(executors'))
  /\ UNCHANGED confirmed

(* The chain is started, recorded and shown.  Its name comes from the       *)
(* message, its steps from pendingChain.                                    *)
HandleChainConfirmResult(msg) ==
  /\ NoModal
  /\ msg.kind = "confirm"
  /\ msg.confirmed /\ pendingChain # None
  /\ Take(msg)
  /\ executors' = Append(executors, NewExecutor(msg.chain, pendingChain))
  /\ chainExecutor' = Len(executors')
  /\ executingChain' = msg.chain
  /\ RecordChain(msg.chain, 0)
  /\ Push([kind |-> "status", executor |-> Len(executors')])
  /\ ClearPending
  /\ ChainSubscription(Len(executors'))
  /\ UNCHANGED confirmed

HandleChainStatusStop(msg) ==
  /\ NoModal
  /\ msg.kind = "stop"
  /\ Take(msg)
  /\ executors' = [e \in DOMAIN executors |->
                     [executors[e] EXCEPT !.stopped = @ \/ e = chainExecutor]]
  /\ chainExecutor' = 0
  /\ UNCHANGED <<modals, receivers, pendingChain, executingChain, history,
                 confirmed, overtaken>>

(* Mutant of HandleChainUpdate: whatever is not running has ended.          *)
HandleChainUpdateNotRunning(msg) ==
  /\ NoModal
  /\ msg.kind = "update"
  /\ Take(msg)
  /\ \/ /\ chainExecutor = 0
        /\ UNCHANGED <<receivers, chainExecutor, executingChain, history>>
     \/ /\ chainExecutor # 0
        /\ msg.status # "running"
        /\ RecordChain(executingChain, msg.executor)
        /\ executingChain' = None
        /\ chainExecutor' = 0
        /\ UNCHANGED receivers
     \/ /\ chainExecutor # 0
        /\ msg.status = "running"
        /\ ChainSubscription(chainExecutor)
        /\ UNCHANGED <<chainExecutor, executingChain, history>>
  /\ UNCHANGED <<modals, pendingChain, executors, confirmed, overtaken>>

(* Mutant of HandleChainUpdate: the executor of a recorded chain is kept.   *)
HandleChainUpdateKeepsExecutor(msg) ==
  /\ NoModal
  /\ msg.kind = "update"
  /\ Take(msg)
  /\ chainExecutor # 0
  /\ msg.status = "completed"
  /\ RecordChain(executingChain, msg.executor)
  /\ executingChain' = None
  /\ UNCHANGED <<receivers, chainExecutor, modals, pendingChain, executors,
                 confirmed, overtaken>>

(* A completed chain is recorded with its results; after any other update   *)
(* the subscription is renewed, with the executor of the moment.  (An       *)
(* update never says that a chain failed.)                                  *)
HandleChainUpdate(msg) ==
  /\ NoModal
  /\ msg.kind = "update"
  /\ Take(msg)
  /\ \/ /\ chainExecutor = 0
        /\ UNCHANGED <<receivers, chainExecutor, executingChain, history>>
     \/ /\ chainExecutor # 0
        /\ msg.status = "completed"
        /\ RecordChain(executingChain, msg.executor)
        /\ executingChain' = None
        /\ chainExecutor' = 0
        /\ UNCHANGED receivers
     \/ /\ chainExecutor # 0
        /\ msg.status # "completed"
        /\ ChainSubscription(chainExecutor)
        /\ UNCHANGED <<chainExecutor, executingChain, history>>
  /\ UNCHANGED <<modals, pendingChain, executors, confirmed, overtaken>>

----------------------------------------------------------------------------
(* Goroutines *)

(* A subscription's receive returns: an update, or, from a drained and      *)
(* closed channel, the zero ChainUpdate.                                    *)
Receive(e) ==
  /\ Room
  /\ BagIn(e, receivers)
  /\ receivers' = receivers (-) SetToBag({e})
  /\ \/ /\ executors[e].updates # <<>>
        /\ inFlight' = inFlight (+) SetToBag({[kind |-> "update", executor |-> e,
                                               status |-> Head(executors[e].updates)]})
        /\ executors' = [executors EXCEPT ![e].updates = Tail(@)]
     \/ /\ executors[e].updates = <<>>
        /\ executors[e].end # ""
        /\ inFlight' = inFlight (+) SetToBag({[kind |-> "update", executor |-> e,
                                               status |-> "zero"]})
        /\ UNCHANGED executors
  /\ UNCHANGED <<model, history, confirmed, overtaken>>

(* Mutant of Sent: the channel grows.                                       *)
SentUnbounded(e, status) == Append(executors[e].updates, status)

Sent(e, status) ==
  IF Len(executors[e].updates) < UpdateCap THEN Append(executors[e].updates, status)
  ELSE executors[e].updates

ExecutorReports(e) ==
  /\ executors[e].end = ""
  /\ executors' = [executors EXCEPT ![e].updates = Sent(e, "running")]
  /\ UNCHANGED <<model, inFlight, receivers, history, confirmed, overtaken>>

(* The chain completes, or ends in silence: aborted, or left after Stop. *)
ExecutorEnds(e) ==
  /\ executors[e].end = ""
  /\ \/ executors' = [executors EXCEPT ![e].updates = Sent(e, "completed"),
                                       ![e].end = "completed"]
     \/ executors' = [executors EXCEPT ![e].end = "silent"]
  /\ UNCHANGED <<model, inFlight, receivers, history, confirmed, overtaken>>

----------------------------------------------------------------------------
HandleMessage ==
  \E msg \in BagToSet(inFlight) :
    \/ GoesToModal(msg)
    \/ HandleChainSelectResult(msg)
    \/ HandleChainVariableResult(msg)
    \/ DeclineChain(msg)
    \/ HandleChainConfirmResult(msg)
    \/ HandleChainStatusStop(msg)
    \/ HandleChainUpdate(msg)

AnswerModal ==
  \/ CloseModal
  \/ StopInStatus
  \/ \E c \in Chains : SelectChain(c)
  \/ \E b \in BOOLEAN : AnswerVariables(b) \/ AnswerConfirm(b)

Next ==
  \/ \E c \in Chains : EnterOnChain(c)
  \/ OpenChainSelectModal
  \/ AnswerModal
  \/ HandleMessage
  \/ \E e \in DOMAIN executors : Receive(e) \/ ExecutorReports(e) \/ ExecutorEnds(e)

(* Goroutines run, messages reach the loop, chains end, and the user does   *)
(* not leave a modal open for ever.                                         *)
Fairness ==
  /\ WF_vars(HandleMessage)
  /\ WF_vars(AnswerModal)
  /\ \A e \in 1..MaxConfirms : WF_vars(e \in DOMAIN executors /\ Receive(e))
  /\ \A e \in 1..MaxConfirms : WF_vars(e \in DOMAIN executors /\ ExecutorEnds(e))

Spec == Init /\ [][Next]_vars /\ Fairness

----------------------------------------------------------------------------
(* Properties *)

(* The values every variable of the session can take. *)
TypeOK ==
  /\ modals \in Seq(Modal)
  /\ BagToSet(inFlight) \subseteq Message
  /\ BagToSet(receivers) \subseteq DOMAIN executors
  /\ pendingChain \in Chains \cup {None}
  /\ chainExecutor \in 0..Len(executors)
  /\ executingChain \in Chains \cup {None}
  /\ history \in [Chains \cup {None} -> Entry]
  /\ executors \in Seq(Executor)
  /\ \A e \in DOMAIN executors : Len(executors[e].updates) <= UpdateCap
  /\ confirmed \in [Chains -> Nat]
  /\ overtaken \in BOOLEAN

(* The status modal on screen is that of the executor the session holds.    *)
(* (The stop it asks for is a message, and stops the executor held when it  *)
(* arrives.)                                                                *)
StatusShowsExecutor ==
  \A i \in DOMAIN modals : modals[i].kind = "status" => modals[i].executor = chainExecutor

(* The name under which the session will record results is that of the      *)
(* executor it holds, also when a chain is started while another one runs.  *)
MetadataMatchesExecutor ==
  chainExecutor # 0 => executingChain = executors[chainExecutor].name

(* The executors a step starts. *)
Started == DOMAIN executors' \ DOMAIN executors

StartIsConfirmed(e) ==
  LET new == executors'[e] IN
  /\ Cardinality({i \in DOMAIN executors' : executors'[i].name = new.name})
       <= confirmed[new.name]
  /\ new.steps = new.name \/ overtaken

(* No chain is started under a name more often than the user confirmed it,  *)
(* and the steps it runs are those of the chain of that name, unless        *)
(* another chain was opened while the answer was in flight: then they are   *)
(* that other chain's, which may have been declined.                        *)
StartsAsConfirmed == [][\A e \in Started : StartIsConfirmed(e)]_vars

RunCounts == [c \in DOMAIN history |-> history[c].runCount]
Recorded  == Total(RunCounts)

(* The history counts every start, and a second time at most the chains     *)
(* that completed: nothing is recorded for a chain that was aborted or left *)
(* (a receive from its closed channel yields an update, too).               *)
ResultsRecordedOnce ==
  Recorded \in Len(executors)..
    (Len(executors) + Cardinality({e \in DOMAIN executors : executors[e].end = "completed"}))

UpdatesInFlight == [m \in {msg \in BagToSet(inFlight) : msg.kind = "update"} |-> inFlight[m]]

(* A started chain accounts for one goroutine at most, blocked in a receive *)
(* or delivering what it received: subscriptions are renewed, never added.  *)
SubscriptionsDoNotMultiply == Total(receivers) + Total(UpdatesInFlight) <= Len(executors)

(* The session stores a chain's name "for history update on completion": a  *)
(* chain that completes, the only one started and not stopped, is recorded  *)
(* with its results.                                                        *)
Unrecorded ==
  /\ Len(executors) = 1
  /\ executors[1].end = "completed" /\ ~executors[1].stopped
  /\ \A c \in Chains : history[c].results # 1

CompletionRecorded == Unrecorded ~> ~Unrecorded
=============================================================================
