------------------------------ MODULE LiveRuns ------------------------------
(***************************************************************************)
(* The watched runs as the user sees them: the Live tab                    *)
(* (internal/ui/panes/live.go) and the live view                           *)
(* (internal/ui/modal/live_view.go), which show copies of the watcher's    *)
(* list, and the keys that clear runs (internal/app).  The watcher is      *)
(* WatchList; it goes on between any two steps of the event loop, and      *)
(* within a handler that calls it twice.                                   *)
(*                                                                         *)
(* Lists count from 1.  The keys of the Live tab need the focus, which is  *)
(* in WorkflowForm: here the tab has it whenever no modal is open.         *)
(***************************************************************************)
EXTENDS Naturals, Sequences, SequencesExt

CONSTANTS
  RunIDs,     \* workflow runs
  MaxClears   \* bound: requests to clear in flight at a time

ASSUME BoundAssumption == MaxClears \in Nat

All == "all"   \* LiveViewClearAllMsg; a LiveViewClearMsg is its run

ASSUME NamesAssumption == All \notin RunIDs

VARIABLES
  list, asked, github,   \* the watcher and GitHub; see WatchList
  tab,         \* LiveRunsModel: runs and selected
  view,        \* the live view with its runs and selected, or NoView
  clears,      \* requests to clear, sent by the live view and not handled yet
  refreshing,  \* a handler has cleared runs and is about to fetch the list
  receivers    \* goroutines of watcherSubscription

watcher == <<list, asked, github>>
screen  == <<tab, view>>
vars    == <<watcher, screen, clears, refreshing, receivers>>

List == INSTANCE WatchList

NoView == [open |-> FALSE]

Shown == [id : RunIDs, status : List!RunStatus]

Init ==
  /\ List!Init
  /\ tab = [runs |-> <<>>, selected |-> 1]
  /\ view = NoView
  /\ clears = <<>>
  /\ refreshing = FALSE
  /\ receivers = 0

(* The watcher's list as it comes out of a Go map: in any order.            *)
Listings == SetToSeqs(DOMAIN list)

(* Mutant of GetRuns: a run that is not active is given as completed.       *)
GetRunsInactiveCompleted ==
  {[i \in DOMAIN ids |->
      [id |-> ids[i], status |-> IF list[ids[i]] = "active" THEN "active" ELSE "completed"]] : ids \in Listings}

GetRuns == {[i \in DOMAIN ids |-> [id |-> ids[i], status |-> list[ids[i]]]] : ids \in Listings}

(* Mutant of SetRuns: the cursor stays where it was.                        *)
SetRunsUnclamped(runs) == tab' = [runs |-> runs, selected |-> tab.selected]

(* SetRuns: the cursor of an empty list stays where it was.                 *)
SetRuns(runs) ==
  tab' = [runs |-> runs,
          selected |-> IF tab.selected > Len(runs) /\ runs # <<>> THEN Len(runs) ELSE tab.selected]

(* The run under a cursor, if there is one. *)
Under(pane) == {pane.runs[i].id : i \in {pane.selected} \cap DOMAIN pane.runs}

----------------------------------------------------------------------------
(* The event loop *)

Idle    == ~refreshing
InTab   == Idle /\ view = NoView
InView  == Idle /\ view # NoView

(* MoveUp and MoveDown, of the tab and of the view alike.  A cursor that    *)
(* points past an emptied list can only go up.                              *)
MoveCursor(pane) ==
  {[pane EXCEPT !.selected = i] :
     i \in {j \in {pane.selected - 1, pane.selected + 1} :
              IF j < pane.selected THEN j > 0 ELSE j <= Len(pane.runs)}}

Moves ==
  /\ \/ InTab /\ tab' \in MoveCursor(tab) /\ UNCHANGED view
     \/ InView /\ view' \in MoveCursor(view) /\ UNCHANGED tab
  /\ UNCHANGED <<watcher, clears, refreshing, receivers>>

(* Mutant of ClearSelectedLiveRun: the cursor is looked up in the watcher's *)
(* list instead of the one on screen.                                       *)
ClearSelectedLiveRunAnew ==
  /\ InTab
  /\ Under(tab) # {}
  /\ \E runs \in GetRuns : \E r \in Under([tab EXCEPT !.runs = runs]) : List!Unwatch(r)
  /\ refreshing' = TRUE
  /\ UNCHANGED <<screen, clears, receivers>>

(* d in the Live tab; the list is fetched after the watcher's lock was let  *)
(* go of.  With no run under the cursor it is not fetched either.           *)
ClearSelectedLiveRun ==
  /\ InTab
  /\ \E r \in Under(tab) : List!Unwatch(r)
  /\ refreshing' = TRUE
  /\ UNCHANGED <<screen, clears, receivers>>

(* D in the Live tab. *)
ClearCompletedLiveRuns ==
  /\ InTab
  /\ List!ClearCompleted
  /\ refreshing' = TRUE
  /\ UNCHANGED <<screen, clears, receivers>>

Refreshes ==
  /\ refreshing
  /\ refreshing' = FALSE
  /\ \E runs \in GetRuns : SetRuns(runs)
  /\ UNCHANGED <<watcher, view, clears, receivers>>

OpenLiveViewModal ==
  /\ InTab
  /\ \E runs \in GetRuns : view' = [open |-> TRUE, runs |-> runs, selected |-> 1]
  /\ UNCHANGED <<watcher, tab, clears, refreshing, receivers>>

(* The view is closed; d and D send a message first. *)
LeavesView ==
  /\ InView
  /\ view' = NoView
  /\ \/ UNCHANGED clears
     \/ /\ Len(clears) < MaxClears
        /\ \E msg \in Under(view) \cup {All} : clears' = Append(clears, msg)
  /\ UNCHANGED <<watcher, tab, refreshing, receivers>>

(* A message is handled unless a modal is open; the tab keeps its copy.     *)
HandleClear ==
  /\ InTab
  /\ \E i \in DOMAIN clears :
       /\ clears' = RemoveAt(clears, i)
       /\ IF clears[i] = All THEN List!ClearCompleted ELSE List!Unwatch(clears[i])
  /\ UNCHANGED <<screen, refreshing, receivers>>

(* A message that finds this or another modal open is lost.                 *)
LosesClear ==
  /\ Idle
  /\ \E i \in DOMAIN clears : clears' = RemoveAt(clears, i)
  /\ UNCHANGED <<watcher, screen, refreshing, receivers>>

(* RunUpdateMsg: the tab gets a copy, the subscription is renewed.          *)
HandleRunUpdate ==
  /\ InTab
  /\ receivers > 0
  /\ \E runs \in GetRuns : SetRuns(runs)
  /\ UNCHANGED <<watcher, view, clears, refreshing, receivers>>

----------------------------------------------------------------------------
WatcherGoesOn == List!GoesOn /\ UNCHANGED <<screen, clears, refreshing, receivers>>

Next ==
  \/ WatcherGoesOn
  \/ Moves
  \/ ClearSelectedLiveRun
  \/ ClearCompletedLiveRuns
  \/ Refreshes
  \/ OpenLiveViewModal
  \/ LeavesView
  \/ HandleClear
  \/ LosesClear

Spec == Init /\ [][Next]_vars

(* With the handler of the watcher's updates, a message of which is taken   *)
(* at last when there is one.                                               *)
UpdatingSpec ==
  /\ Init
  /\ [][Next \/ HandleRunUpdate]_vars
  /\ WF_vars(Refreshes)
  /\ WF_vars(HandleRunUpdate)

----------------------------------------------------------------------------
(* Properties *)

PaneType == [runs : Seq(Shown), selected : Nat \ {0}]

(* The values every variable can take; a cursor stays in its list.          *)
TypeOK ==
  /\ DOMAIN list \subseteq asked /\ asked \subseteq RunIDs
  /\ list \in [DOMAIN list -> List!RunStatus]
  /\ github \in [RunIDs -> List!RunStatus]
  /\ tab \in PaneType
  /\ view # NoView => [runs |-> view.runs, selected |-> view.selected] \in PaneType
  /\ \A pane \in {tab} \cup ({view} \ {NoView}) : pane.runs # <<>> => pane.selected \in DOMAIN pane.runs
  /\ clears \in Seq(RunIDs \cup {All}) /\ Len(clears) <= MaxClears
  /\ refreshing \in BOOLEAN
  /\ receivers = 0

(* However old the copies on screen are, and whatever was cleared, watched  *)
(* again and answered late in between: a run that is shown as completed has *)
(* completed (GetRuns, SetRuns, NewLiveViewModal).                          *)
ShownCompletedHasCompleted ==
  \A pane \in {tab} \cup ({view} \ {NoView}) :
    \A i \in DOMAIN pane.runs :
      pane.runs[i].status = "completed" => github[pane.runs[i].id] = "completed"

Chosen(r) == (InTab /\ r \in Under(tab)) \/ r \in ToSet(clears)

(* A run that is active leaves the watch list only when the user chose it   *)
(* where he sees it: under the cursor of the Live tab as it is on screen,   *)
(* or in a live view of his, of which the request may come late; clearing   *)
(* all leaves it alone.                                                     *)
ActiveLeavesByChoice ==
  [][\A r \in DOMAIN list \ DOMAIN list' : list[r] = "active" => Chosen(r)]_vars

(* "Runs appear here": a run that is watched gets into the Live tab.        *)
InTabShown(r) == \E i \in DOMAIN tab.runs : tab.runs[i].id = r

RunsAppear == \A r \in RunIDs : r \in DOMAIN list ~> (r \notin DOMAIN list \/ InTabShown(r))
=============================================================================
