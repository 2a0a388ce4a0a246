--------------------------- MODULE LiveRunsProofs ---------------------------
(***************************************************************************)
(* Proofs about LiveRuns, for every set of runs and every number of        *)
(* requests in flight.                                                     *)
(***************************************************************************)
EXTENDS LiveRuns, SequenceTheorems, FiniteSetTheorems, TLAPS

GitHubType == github \in [RunIDs -> List!RunStatus]

(* What the watcher lists as completed has completed. *)
ListIsTrue == \A r \in DOMAIN list : list[r] = "completed" => github[r] = "completed"

(* So has what a list of runs on screen says has.                           *)
TrueOf(runs) ==
  \A i \in DOMAIN runs : runs[i].status = "completed" => github[runs[i].id] = "completed"

(* The tab, and the view when it is open, have a list of runs.              *)
PaneShapes == "runs" \in DOMAIN tab /\ (view # NoView => "runs" \in DOMAIN view)

(* What is on screen is a list of runs, and true.                           *)
Fit(runs) == (\A i \in DOMAIN runs : runs[i].id \in RunIDs) /\ TrueOf(runs)

ScreenIsTrue == Fit(tab.runs) /\ (view # NoView => Fit(view.runs))

Inv ==
  /\ GitHubType
  /\ DOMAIN list \subseteq RunIDs /\ ListIsTrue
  /\ PaneShapes /\ ScreenIsTrue

-----------------------------------------------------------------------------
(* The watcher: it goes on, clears what it is told to, or is left alone.    *)
WatcherStep ==
  List!GoesOn \/ List!ClearCompleted \/ (\E r : List!Unwatch(r)) \/ UNCHANGED watcher

(* Nothing that has completed is undone. *)
LEMMA CompletionLasts ==
  ASSUME GitHubType, WatcherStep
  PROVE  /\ GitHubType'
         /\ \A r \in RunIDs : github[r] = "completed" => github'[r] = "completed"
<1>1. CASE UNCHANGED github
  BY <1>1 DEF GitHubType
<1>2. ASSUME NEW r \in RunIDs, List!RunAdvances(r)
      PROVE  /\ GitHubType'
             /\ \A s \in RunIDs : github[s] = "completed" => github'[s] = "completed"
  <2>1. \E status \in List!RunStatus : github' = [github EXCEPT ![r] = status] /\ github[r] # "completed"
    BY <1>2 DEF List!RunAdvances, List!RunStatus
  <2> QED BY <2>1 DEF GitHubType
<1>3. (\E r \in RunIDs : List!RunAdvances(r)) \/ UNCHANGED github
  BY DEF WatcherStep, List!GoesOn, List!Watch, List!Answer, List!Forget, List!Unwatch,
         List!ClearCompleted, watcher
<1> QED BY <1>1, <1>2, <1>3

(* The list says of what is put on it that it is active, or what GitHub     *)
(* answered; what is taken off leaves the rest as it was.                   *)
LEMMA ListStaysTrue ==
  ASSUME GitHubType, DOMAIN list \subseteq RunIDs, ListIsTrue, WatcherStep
  PROVE  DOMAIN list' \subseteq RunIDs /\ ListIsTrue'
<1> DEFINE Goal == DOMAIN list' \subseteq RunIDs /\ ListIsTrue'
<1>1. ASSUME NEW r \in RunIDs, NEW status, list' = List!With(r, status),
             status = "completed" => github[r] = "completed", UNCHANGED github
      PROVE  Goal
  <2>1. /\ DOMAIN list' = DOMAIN list \cup {r}
        /\ \A s \in DOMAIN list' : list'[s] = IF s = r THEN status ELSE list[s]
    BY <1>1 DEF List!With
  <2> QED BY <1>1, <2>1 DEF ListIsTrue
<1>2. ASSUME NEW S, S \subseteq DOMAIN list, list' = [s \in S |-> list[s]], UNCHANGED github
      PROVE  Goal
  BY <1>2 DEF ListIsTrue
<1>3. ASSUME UNCHANGED list PROVE Goal
  BY <1>3, CompletionLasts DEF ListIsTrue
<1> HIDE DEF Goal
<1>4. ASSUME NEW r \in RunIDs, List!Watch(r) PROVE Goal
  BY <1>1, <1>4 DEF List!Watch
<1>5. ASSUME NEW r \in RunIDs, NEW status, List!Answer(r, status) PROVE Goal
  BY <1>1, <1>5 DEF List!Answer
<1>6. ASSUME NEW r, List!Unwatch(r) PROVE Goal
  <2>1. DOMAIN list \ {r} \subseteq DOMAIN list
    OBVIOUS
  <2> QED BY <1>2, <1>6, <2>1 DEF List!Unwatch
<1>7. ASSUME List!ClearCompleted PROVE Goal
  <2>1. {r \in DOMAIN list : list[r] = "active"} \subseteq DOMAIN list
    OBVIOUS
  <2> QED BY <1>2, <1>7, <2>1 DEF List!ClearCompleted
<1>8. ASSUME List!Forget \/ (\E r \in RunIDs : List!RunAdvances(r)) \/ UNCHANGED watcher PROVE Goal
  BY <1>3, <1>8 DEF List!Forget, List!RunAdvances, watcher
<1> QED BY <1>4, <1>5, <1>6, <1>7, <1>8 DEF WatcherStep, List!GoesOn, Goal

-----------------------------------------------------------------------------
(* What is on screen *)

(* A list on screen stays true as it grows old.                             *)
LEMMA OldStaysTrue ==
  ASSUME WatcherStep, GitHubType, ScreenIsTrue,
         tab'.runs = tab.runs, view' # NoView => view # NoView /\ view'.runs = view.runs
  PROVE  ScreenIsTrue'
<1>1. \A r \in RunIDs : github[r] = "completed" => github'[r] = "completed"
  BY CompletionLasts DEF GitHubType
<1>2. ASSUME NEW runs, Fit(runs)
      PROVE  \A i \in DOMAIN runs :
               /\ runs[i].id \in RunIDs
               /\ runs[i].status = "completed" => github'[runs[i].id] = "completed"
  BY <1>1, <1>2 DEF Fit, TrueOf
<1> QED BY <1>2 DEF ScreenIsTrue, Fit, TrueOf

(* A list that is fetched says what the watcher's list says.                *)
LEMMA FetchedIsTrue ==
  ASSUME DOMAIN list \subseteq RunIDs, ListIsTrue, NEW runs \in GetRuns
  PROVE  Fit(runs)
<1>1. PICK ids \in Listings :
        runs = [i \in DOMAIN ids |-> [id |-> ids[i], status |-> list[ids[i]]]]
  BY DEF GetRuns
<1>2. \A i \in DOMAIN ids : ids[i] \in DOMAIN list
  BY DEF Listings, SetToSeqs
<1>3. DOMAIN runs = DOMAIN ids
  BY <1>1
<1>4. \A i \in DOMAIN runs : runs[i].id = ids[i] /\ runs[i].status = list[ids[i]]
  BY <1>1
<1> QED BY <1>2, <1>3, <1>4 DEF Fit, TrueOf, ListIsTrue

(* Whatever the program does, to the watcher it is one of its steps.        *)
LEMMA WatcherSteps == [Next]_vars => WatcherStep
<1>1. WatcherGoesOn => WatcherStep
  BY DEF WatcherGoesOn, WatcherStep
<1>2. ClearSelectedLiveRun \/ ClearCompletedLiveRuns => WatcherStep
  BY DEF ClearSelectedLiveRun, ClearCompletedLiveRuns, WatcherStep
<1>3. HandleClear => WatcherStep
  BY DEF HandleClear, WatcherStep
<1>4. Moves \/ Refreshes \/ OpenLiveViewModal \/ LeavesView \/ LosesClear \/ UNCHANGED vars => UNCHANGED watcher
  BY DEF Moves, Refreshes, OpenLiveViewModal, LeavesView, LosesClear, vars
<1> QED BY <1>1, <1>2, <1>3, <1>4 DEF Next, WatcherStep

LEMMA InvInit == Init => Inv
<1> SUFFICES ASSUME Init PROVE Inv
  OBVIOUS
<1>1. GitHubType /\ DOMAIN list = {} /\ ListIsTrue
  BY DEF Init, List!Init, List!RunStatus, GitHubType, ListIsTrue
<1>2. tab = [runs |-> <<>>, selected |-> 1] /\ view = NoView
  BY DEF Init
<1>3. tab.runs = <<>>
  BY <1>2
<1> QED BY <1>1, <1>2, <1>3 DEF Inv, PaneShapes, ScreenIsTrue, Fit, TrueOf

(* A cursor moves over the list it is in.                                   *)
LEMMA MovesKeepRuns ==
  ASSUME NEW pane, NEW to \in MoveCursor(pane)
  PROVE  \E i : to = [pane EXCEPT !.selected = i]
BY DEF MoveCursor

(* The screen keeps what it shows, or is given what the watcher lists.      *)
LEMMA ScreenStep ==
  ASSUME PaneShapes, [Next]_vars
  PROVE  /\ PaneShapes'
         /\ \/ /\ tab'.runs = tab.runs
               /\ view' # NoView => view # NoView /\ view'.runs = view.runs
            \/ /\ tab'.runs \in GetRuns /\ UNCHANGED <<watcher, view>>
            \/ /\ view'.runs \in GetRuns /\ UNCHANGED <<watcher, tab>>
<1>1. CASE UNCHANGED screen
  BY <1>1 DEF screen, PaneShapes
<1>2. CASE Moves
  <2>1. CASE \E i : tab' = [tab EXCEPT !.selected = i] /\ UNCHANGED view
    <3>1. tab'.runs = tab.runs /\ "runs" \in DOMAIN tab'
      BY <2>1 DEF PaneShapes
    <3> QED BY <2>1, <3>1 DEF PaneShapes
  <2>2. CASE view # NoView /\ (\E i : view' = [view EXCEPT !.selected = i]) /\ UNCHANGED tab
    <3>1. view'.runs = view.runs /\ "runs" \in DOMAIN view'
      BY <2>2 DEF PaneShapes
    <3> QED BY <2>2, <3>1 DEF PaneShapes
  <2>3. \/ tab' \in MoveCursor(tab) /\ UNCHANGED view
        \/ view # NoView /\ view' \in MoveCursor(view) /\ UNCHANGED tab
    BY <1>2 DEF Moves, InView
  <2> QED BY <2>1, <2>2, <2>3, MovesKeepRuns
<1>3. CASE Refreshes
  <2>1. PICK runs \in GetRuns : SetRuns(runs)
    BY <1>3 DEF Refreshes
  <2>2. tab'.runs = runs /\ "runs" \in DOMAIN tab'
    BY <2>1 DEF SetRuns
  <2> QED BY <1>3, <2>2 DEF Refreshes, PaneShapes
<1>4. CASE OpenLiveViewModal
  <2>1. PICK runs \in GetRuns : view' = [open |-> TRUE, runs |-> runs, selected |-> 1]
    BY <1>4 DEF OpenLiveViewModal
  <2>2. view'.runs = runs /\ "runs" \in DOMAIN view'
    BY <2>1
  <2> QED BY <1>4, <2>2 DEF OpenLiveViewModal, PaneShapes
<1>5. CASE LeavesView
  BY <1>5 DEF LeavesView, PaneShapes
<1>6. CASE WatcherGoesOn \/ ClearSelectedLiveRun \/ ClearCompletedLiveRuns \/ HandleClear
        \/ LosesClear \/ UNCHANGED vars
  BY <1>1, <1>6 DEF WatcherGoesOn, ClearSelectedLiveRun, ClearCompletedLiveRuns, HandleClear,
       LosesClear, vars
<1> QED BY <1>2, <1>3, <1>4, <1>5, <1>6 DEF Next

LEMMA InvStep == Inv /\ [Next]_vars => Inv'
<1> SUFFICES ASSUME Inv, [Next]_vars PROVE Inv'
  OBVIOUS
<1>1. WatcherStep
  BY WatcherSteps
<1>2. GitHubType' /\ DOMAIN list' \subseteq RunIDs /\ ListIsTrue'
  BY <1>1, CompletionLasts, ListStaysTrue DEF Inv
<1>3. PaneShapes'
  BY ScreenStep DEF Inv
<1>4. CASE tab'.runs = tab.runs /\ (view' # NoView => view # NoView /\ view'.runs = view.runs)
  <2>1. ScreenIsTrue'
    BY <1>1, <1>4, OldStaysTrue DEF Inv
  <2> QED BY <1>2, <1>3, <2>1 DEF Inv
<1>5. ASSUME UNCHANGED watcher, NEW runs, Fit(runs)
      PROVE  \A i \in DOMAIN runs :
               /\ runs[i].id \in RunIDs
               /\ runs[i].status = "completed" => github'[runs[i].id] = "completed"
  BY <1>5 DEF watcher, Fit, TrueOf
<1>6. CASE tab'.runs \in GetRuns /\ UNCHANGED <<watcher, view>>
  <2>1. Fit(tab'.runs) /\ (view' # NoView => Fit(view'.runs))
    BY <1>6, FetchedIsTrue DEF Inv, ScreenIsTrue
  <2> QED BY <1>2, <1>3, <1>5, <1>6, <2>1 DEF Inv, ScreenIsTrue, Fit, TrueOf
<1>7. CASE view'.runs \in GetRuns /\ UNCHANGED <<watcher, tab>>
  <2>1. Fit(tab'.runs) /\ Fit(view'.runs)
    BY <1>7, FetchedIsTrue DEF Inv, ScreenIsTrue
  <2> QED BY <1>2, <1>3, <1>5, <1>7, <2>1 DEF Inv, ScreenIsTrue, Fit, TrueOf
<1> QED BY <1>4, <1>6, <1>7, ScreenStep DEF Inv

(* However many runs there are, and however old the copies on screen: a run *)
(* shown as completed has completed.                                        *)
THEOREM CompletedIsShownTruly == Spec => []ShownCompletedHasCompleted
<1>1. Inv => ShownCompletedHasCompleted
  BY DEF Inv, ScreenIsTrue, Fit, TrueOf, ShownCompletedHasCompleted
<1> QED BY <1>1, InvInit, InvStep, PTL DEF Spec

(* A run that is active leaves the list only when the user chose it, for    *)
(* every number of runs and of requests in flight.                          *)
THEOREM ActiveLeavesOnlyByChoice == Spec => ActiveLeavesByChoice
<1> DEFINE Kept == \A r \in DOMAIN list \ DOMAIN list' : list[r] = "active" => Chosen(r)
<1>1. UNCHANGED list => Kept
  OBVIOUS
<1>2. ASSUME List!ClearCompleted PROVE Kept
  <2>1. DOMAIN list' = {r \in DOMAIN list : list[r] = "active"}
    BY <1>2 DEF List!ClearCompleted
  <2> QED BY <2>1
<1>3. ASSUME NEW r, List!Unwatch(r), Chosen(r) PROVE Kept
  <2>1. DOMAIN list' = DOMAIN list \ {r}
    BY <1>3 DEF List!Unwatch
  <2> QED BY <1>3, <2>1
<1>4. WatcherGoesOn => Kept
  <2>1. ASSUME NEW r, NEW status, list' = List!With(r, status) PROVE Kept
    BY <2>1 DEF List!With
  <2> QED BY <1>1, <2>1 DEF WatcherGoesOn, List!GoesOn, List!Watch, List!Answer, List!Forget,
               List!RunAdvances
<1>5. ClearSelectedLiveRun => Kept
  BY <1>3 DEF ClearSelectedLiveRun, Chosen
<1>6. ClearCompletedLiveRuns => Kept
  BY <1>2 DEF ClearCompletedLiveRuns
<1>7. HandleClear => Kept
  BY <1>2, <1>3 DEF HandleClear, Chosen, ToSet
<1>8. Moves \/ Refreshes \/ OpenLiveViewModal \/ LeavesView \/ LosesClear \/ UNCHANGED vars => Kept
  <2>1. Moves \/ Refreshes \/ OpenLiveViewModal \/ LeavesView \/ LosesClear \/ UNCHANGED vars => UNCHANGED list
    BY DEF Moves, Refreshes, OpenLiveViewModal, LeavesView, LosesClear, vars, watcher
  <2> QED BY <1>1, <2>1
<1>9. [Next]_vars => [Kept]_vars
  BY <1>4, <1>5, <1>6, <1>7, <1>8 DEF Next
<1> QED BY <1>9, PTL DEF Spec, ActiveLeavesByChoice

-----------------------------------------------------------------------------
(* Types *)

WatcherType ==
  /\ IsFiniteSet(DOMAIN list) /\ DOMAIN list \subseteq asked /\ asked \subseteq RunIDs
  /\ list \in [DOMAIN list -> List!RunStatus]
  /\ GitHubType

(* A list of runs with a cursor in it. *)
InList(runs, selected) ==
  /\ runs \in Seq(Shown) /\ selected \in Nat \ {0}
  /\ runs # <<>> => selected \in DOMAIN runs

TabType  == tab \in PaneType /\ InList(tab.runs, tab.selected)
ViewType ==
  view # NoView =>
    /\ view \in [open : {TRUE}, runs : Seq(Shown), selected : Nat \ {0}]
    /\ InList(view.runs, view.selected)

RequestType ==
  /\ clears \in Seq(RunIDs \cup {All}) /\ Len(clears) <= MaxClears
  /\ refreshing \in BOOLEAN
  /\ receivers = 0

TypeInv == WatcherType /\ TabType /\ ViewType /\ RequestType

LEMMA WithType ==
  ASSUME WatcherType, NEW r \in RunIDs, NEW status \in List!RunStatus,
         list' = List!With(r, status), r \in asked', asked \subseteq asked', asked' \subseteq RunIDs,
         UNCHANGED github
  PROVE  WatcherType'
<1>1. /\ DOMAIN list' = DOMAIN list \cup {r}
      /\ list' \in [DOMAIN list' -> List!RunStatus]
  BY DEF List!With, WatcherType
<1>2. IsFiniteSet(DOMAIN list')
  BY <1>1, FS_AddElement DEF WatcherType
<1> QED BY <1>1, <1>2 DEF WatcherType, GitHubType

LEMMA WithoutType ==
  ASSUME WatcherType, NEW S \in SUBSET DOMAIN list, list' = [s \in S |-> list[s]],
         S \subseteq asked', asked' \subseteq asked, UNCHANGED github
  PROVE  WatcherType'
<1>1. DOMAIN list' = S /\ list' \in [S -> List!RunStatus]
  BY DEF WatcherType
<1>2. IsFiniteSet(S)
  BY FS_Subset DEF WatcherType
<1> QED BY <1>1, <1>2 DEF WatcherType, GitHubType

LEMMA WatcherTypeStep ==
  ASSUME WatcherType, WatcherStep
  PROVE  WatcherType'
<1>1. ASSUME NEW r \in RunIDs, List!Watch(r) PROVE WatcherType'
  <2>1. /\ "active" \in List!RunStatus /\ list' = List!With(r, "active")
        /\ asked' = asked \cup {r} /\ asked' \subseteq RunIDs /\ UNCHANGED github
    BY <1>1 DEF List!Watch, List!RunStatus, WatcherType
  <2> QED BY <2>1, WithType
<1>2. ASSUME NEW r \in RunIDs, NEW status \in List!RunStatus, List!Answer(r, status) PROVE WatcherType'
  BY <1>2, WithType DEF List!Answer, WatcherType
<1>3. ASSUME NEW r \in RunIDs, List!RunAdvances(r) PROVE WatcherType'
  BY <1>3, CompletionLasts DEF WatcherStep, List!GoesOn, List!RunAdvances, WatcherType
<1>4. CASE List!Forget
  BY <1>4 DEF List!Forget, List!MayForget, WatcherType, GitHubType
<1>5. ASSUME NEW r, List!Unwatch(r) PROVE WatcherType'
  <2>1. /\ DOMAIN list \ {r} \in SUBSET DOMAIN list
        /\ DOMAIN list \ {r} \subseteq asked' /\ asked' \subseteq asked
    BY <1>5 DEF List!Unwatch, WatcherType
  <2> QED BY <1>5, <2>1, WithoutType DEF List!Unwatch
<1>6. CASE List!ClearCompleted
  <2> DEFINE S == {r \in DOMAIN list : list[r] = "active"}
  <2>1. /\ list' = [s \in S |-> list[s]] /\ S \in SUBSET DOMAIN list
        /\ DOMAIN list' \subseteq asked' /\ asked' \subseteq asked /\ UNCHANGED github
    BY <1>6 DEF List!ClearCompleted, List!MayForget
  <2> HIDE DEF S
  <2> QED BY <2>1, WithoutType
<1>7. CASE UNCHANGED watcher
  BY <1>7 DEF watcher, WatcherType, GitHubType
<1> QED BY <1>1, <1>2, <1>3, <1>4, <1>5, <1>6, <1>7 DEF WatcherStep, List!GoesOn

(* A list that is fetched. *)
LEMMA FetchedType ==
  ASSUME WatcherType, NEW runs \in GetRuns
  PROVE  runs \in Seq(Shown)
<1>1. PICK ids \in Listings :
        runs = [i \in DOMAIN ids |-> [id |-> ids[i], status |-> list[ids[i]]]]
  BY DEF GetRuns
<1>2. PICK n \in Nat : n = Cardinality(DOMAIN list)
  BY FS_CardinalityType DEF WatcherType
<1>3. ids \in [1..n -> DOMAIN list]
  BY <1>2 DEF Listings, SetToSeqs
<1>4. \A i \in 1..n : [id |-> ids[i], status |-> list[ids[i]]] \in Shown
  BY <1>3 DEF Shown, WatcherType
<1>5. runs \in [1..n -> Shown]
  BY <1>1, <1>3, <1>4
<1> QED BY <1>2, <1>5

LEMMA MoveType ==
  ASSUME NEW pane, InList(pane.runs, pane.selected),
         pane \in PaneType \/ pane \in [open : {TRUE}, runs : Seq(Shown), selected : Nat \ {0}],
         NEW moved \in MoveCursor(pane)
  PROVE  /\ moved.runs = pane.runs /\ InList(moved.runs, moved.selected)
         /\ pane \in PaneType => moved \in PaneType
         /\ pane \in [open : {TRUE}, runs : Seq(Shown), selected : Nat \ {0}] =>
              moved \in [open : {TRUE}, runs : Seq(Shown), selected : Nat \ {0}]
<1>1. PICK i \in {pane.selected - 1, pane.selected + 1} :
        /\ moved = [pane EXCEPT !.selected = i]
        /\ IF i < pane.selected THEN i > 0 ELSE i <= Len(pane.runs)
  BY DEF MoveCursor
<1>2. i \in Nat \ {0} /\ (pane.runs # <<>> => i \in DOMAIN pane.runs)
  BY <1>1 DEF InList
<1>3. moved.runs = pane.runs /\ moved.selected = i
  BY <1>1 DEF PaneType
<1> QED BY <1>1, <1>2, <1>3 DEF InList, PaneType

LEMMA SetRunsType ==
  ASSUME TabType, NEW runs \in Seq(Shown), SetRuns(runs)
  PROVE  TabType'
<1> DEFINE selected == IF tab.selected > Len(runs) /\ runs # <<>> THEN Len(runs) ELSE tab.selected
<1>1. tab' = [runs |-> runs, selected |-> selected]
  BY DEF SetRuns
<1>2. tab.selected \in Nat \ {0}
  BY DEF TabType, PaneType
<1>3. selected \in Nat \ {0} /\ (runs # <<>> => selected \in DOMAIN runs)
  BY <1>2
<1> HIDE DEF selected
<1> QED BY <1>1, <1>3 DEF TabType, PaneType, InList

LEMMA RemoveAtType ==
  ASSUME NEW S, NEW s \in Seq(S), NEW i \in DOMAIN s
  PROVE  RemoveAt(s, i) \in Seq(S) /\ Len(RemoveAt(s, i)) <= Len(s)
<1>1. SubSeq(s, 1, i - 1) \in Seq(S) /\ Len(SubSeq(s, 1, i - 1)) = i - 1
  OBVIOUS
<1>2. SubSeq(s, i + 1, Len(s)) \in Seq(S) /\ Len(SubSeq(s, i + 1, Len(s))) = Len(s) - i
  OBVIOUS
<1> QED BY <1>1, <1>2 DEF RemoveAt

LEMMA TypeInit == Init => TypeInv
<1> SUFFICES ASSUME Init PROVE TypeInv
  OBVIOUS
<1>1. WatcherType
  BY FS_EmptySet DEF Init, List!Init, List!RunStatus, WatcherType, GitHubType
<1>2. tab = [runs |-> <<>>, selected |-> 1] /\ view = NoView
  BY DEF Init
<1>3. tab \in PaneType /\ tab.runs = <<>> /\ tab.selected = 1
  BY <1>2 DEF PaneType
<1>4. TabType /\ ViewType
  BY <1>2, <1>3 DEF TabType, ViewType, InList
<1>5. RequestType
  <2>1. clears = <<>> /\ refreshing = FALSE /\ receivers = 0
    BY DEF Init
  <2>2. clears \in Seq(RunIDs \cup {All}) /\ Len(clears) = 0
    BY <2>1
  <2>3. Len(clears) <= MaxClears
    BY <2>2, BoundAssumption
  <2> QED BY <2>1, <2>2, <2>3 DEF RequestType
<1> QED BY <1>1, <1>4, <1>5 DEF TypeInv

LEMMA PanesStep ==
  ASSUME TypeInv, [Next]_vars
  PROVE  TabType' /\ ViewType'
<1>0. WatcherType /\ TabType /\ ViewType
  BY DEF TypeInv
<1>1. CASE UNCHANGED screen
  BY <1>0, <1>1 DEF screen, TabType, ViewType
<1>2. CASE Moves
  <2>1. CASE tab' \in MoveCursor(tab) /\ UNCHANGED view
    BY <1>0, <2>1, MoveType DEF TabType, ViewType
  <2>2. CASE view # NoView /\ view' \in MoveCursor(view) /\ UNCHANGED tab
    BY <1>0, <2>2, MoveType DEF TabType, ViewType
  <2> QED BY <1>2, <2>1, <2>2 DEF Moves, InView
<1>3. CASE Refreshes
  BY <1>0, <1>3, FetchedType, SetRunsType DEF Refreshes, ViewType
<1>4. CASE OpenLiveViewModal
  <2>1. PICK runs \in GetRuns : view' = [open |-> TRUE, runs |-> runs, selected |-> 1]
    BY <1>4 DEF OpenLiveViewModal
  <2>2. runs \in Seq(Shown) /\ InList(runs, 1)
    BY <1>0, FetchedType DEF InList
  <2>3. ViewType'
    BY <2>1, <2>2 DEF ViewType
  <2> QED BY <1>0, <1>4, <2>3 DEF OpenLiveViewModal, TabType
<1>5. CASE LeavesView
  BY <1>0, <1>5 DEF LeavesView, TabType, ViewType
<1>6. CASE WatcherGoesOn \/ ClearSelectedLiveRun \/ ClearCompletedLiveRuns \/ HandleClear
        \/ LosesClear \/ UNCHANGED vars
  BY <1>1, <1>6 DEF WatcherGoesOn, ClearSelectedLiveRun, ClearCompletedLiveRuns, HandleClear,
       LosesClear, vars
<1> QED BY <1>2, <1>3, <1>4, <1>5, <1>6 DEF Next

LEMMA RequestsStep ==
  ASSUME TypeInv, [Next]_vars
  PROVE  RequestType'
<1>0. RequestType /\ MaxClears \in Nat
  BY BoundAssumption DEF TypeInv
<1>1. CASE UNCHANGED <<clears, refreshing, receivers>>
  BY <1>0, <1>1 DEF RequestType
<1>2. CASE LeavesView
  <2>1. Under(view) \subseteq RunIDs
    <3>1. view \in [open : {TRUE}, runs : Seq(Shown), selected : Nat \ {0}]
      BY <1>2 DEF LeavesView, InView, TypeInv, ViewType
    <3>2. \A i \in DOMAIN view.runs : view.runs[i] \in Shown
      BY <3>1
    <3> QED BY <3>2 DEF Under, Shown
  <2>2. CASE UNCHANGED clears
    BY <1>1, <1>2, <2>2 DEF LeavesView
  <2>3. ASSUME NEW msg \in Under(view) \cup {All}, Len(clears) < MaxClears,
               clears' = Append(clears, msg)
        PROVE  RequestType'
    BY <1>0, <1>2, <2>1, <2>3 DEF RequestType, LeavesView
  <2> QED BY <1>2, <2>2, <2>3 DEF LeavesView
<1>3. CASE HandleClear \/ LosesClear
  <2>1. PICK i \in DOMAIN clears : clears' = RemoveAt(clears, i)
    BY <1>3 DEF HandleClear, LosesClear
  <2>2. clears' \in Seq(RunIDs \cup {All}) /\ Len(clears') <= Len(clears)
    BY <1>0, <2>1, RemoveAtType DEF RequestType
  <2> QED BY <1>0, <1>3, <2>2 DEF HandleClear, LosesClear, RequestType
<1>4. CASE ClearSelectedLiveRun \/ ClearCompletedLiveRuns \/ Refreshes
  BY <1>0, <1>4 DEF ClearSelectedLiveRun, ClearCompletedLiveRuns, Refreshes, RequestType
<1>5. CASE WatcherGoesOn \/ Moves \/ OpenLiveViewModal \/ UNCHANGED vars
  BY <1>1, <1>5 DEF WatcherGoesOn, Moves, OpenLiveViewModal, vars
<1> QED BY <1>2, <1>3, <1>4, <1>5 DEF Next

(* Whatever is cleared while a copy of the list is on screen, the cursor    *)
(* stays in the list it is in, requests to clear name runs, and no update   *)
(* is ever subscribed to.                                                   *)
THEOREM TypeCorrect == Spec => []TypeOK
<1>1. TypeInv /\ [Next]_vars => TypeInv'
  BY WatcherSteps, WatcherTypeStep, PanesStep, RequestsStep DEF TypeInv
<1>2. TypeInv => TypeOK
  <2> SUFFICES ASSUME TypeInv PROVE TypeOK
    OBVIOUS
  <2>1. tab.runs # <<>> => tab.selected \in DOMAIN tab.runs
    BY DEF TypeInv, TabType, InList
  <2>2. view # NoView =>
          /\ [runs |-> view.runs, selected |-> view.selected] \in PaneType
          /\ view.runs # <<>> => view.selected \in DOMAIN view.runs
    BY DEF TypeInv, ViewType, InList, PaneType
  <2> QED BY <2>1, <2>2 DEF TypeInv, WatcherType, GitHubType, TabType, RequestType, TypeOK
<1> QED BY <1>1, <1>2, TypeInit, PTL DEF Spec
=============================================================================
