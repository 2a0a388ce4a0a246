----------------------------- MODULE WatchList -----------------------------
(***************************************************************************)
(* What the run watcher (internal/watcher/watcher.go) is for those who use *)
(* it: a list of runs with the status each had when GitHub was asked last. *)
(* No goroutines, locks, ticks or channel.                                 *)
(***************************************************************************)
CONSTANT RunIDs

VARIABLES
  list,    \* the status of each run that is watched
  asked,   \* the runs GitHub has been, or will be, asked about
  github   \* the status of every run

vars == <<list, asked, github>>

RunStatus == {"active", "waiting", "completed"}

Init ==
  /\ list = [r \in {} |-> "active"]
  /\ asked = {}
  /\ github = [r \in RunIDs |-> "active"]

With(r, status) == [s \in DOMAIN list \cup {r} |-> IF s = r THEN status ELSE list[s]]

Watch(r) ==
  /\ list' = With(r, "active")
  /\ asked' = asked \cup {r}
  /\ UNCHANGED github

(* An answer may be old, and may come after the run was taken off the list; *)
(* but a run that is said to have completed has.                            *)
Answer(r, status) ==
  /\ r \in asked
  /\ status = "completed" => github[r] = "completed"
  /\ list' = With(r, status)
  /\ UNCHANGED <<asked, github>>

(* What is not on the list need not be asked about any longer.              *)
MayForget == asked' \subseteq asked /\ DOMAIN list' \subseteq asked'

Unwatch(r) ==
  /\ list' = [s \in DOMAIN list \ {r} |-> list[s]]
  /\ asked' \in {asked, asked \ {r}}
  /\ UNCHANGED github

ClearCompleted ==
  /\ list' = [s \in {r \in DOMAIN list : list[r] = "active"} |-> list[s]]
  /\ asked' \in SUBSET asked
  /\ MayForget
  /\ UNCHANGED github

Forget ==
  /\ UNCHANGED <<list, github>>
  /\ asked' \in SUBSET asked
  /\ MayForget

(* A run is started, waits for an approval, gets it, completes. *)
RunAdvances(r) ==
  /\ \/ github[r] = "active" /\ \E s \in {"waiting", "completed"} : github' = [github EXCEPT ![r] = s]
     \/ github[r] = "waiting" /\ github' = [github EXCEPT ![r] = "active"]
  /\ UNCHANGED <<list, asked>>

(* What happens without the user. *)
GoesOn ==
  \/ \E r \in RunIDs : Watch(r) \/ RunAdvances(r)
  \/ \E r \in RunIDs, status \in RunStatus : Answer(r, status)
  \/ Forget

Next == GoesOn \/ ClearCompleted \/ \E r \in RunIDs : Unwatch(r)

Spec == Init /\ [][Next]_vars
=============================================================================
