---------------------------- MODULE LogStreamer ----------------------------
(***************************************************************************)
(* The log streamer (internal/logs/streamer.go, gh_fetcher.go): a          *)
(* goroutine polls one run, compares the logs of its steps with the line   *)
(* counts of the last poll and sends what is new; and the way the user     *)
(* interface (internal/app) takes the updates, one subscription at a time. *)
(*                                                                         *)
(* A step's log is its number of lines.  GitHub lists the steps of a job   *)
(* when the job starts; the job's log comes in groups ("##[group]"), which *)
(* the fetcher takes for the job's steps, one after the other.             *)
(***************************************************************************)
EXTENDS Integers, Sequences

CONSTANTS
  NumJobs,    \* the run has the jobs 1..NumJobs
  StepCount,  \* the number of steps of each job
  MaxGroups,  \* bound on the groups of a job's log
  MaxLines,   \* bound on the lines of a group
  UpdateCap   \* capacity of the updates channel (50 in the code)

Jobs == 1..NumJobs

ASSUME JobsAssumption == NumJobs \in Nat /\ StepCount \in [Jobs -> Nat]
ASSUME BoundsAssumption ==
  MaxGroups \in Nat /\ MaxLines \in Nat \ {0} /\ UpdateCap \in Nat \ {0}

VARIABLES
  counts,     \* StepLineCounts: the lines known of each step index
  updates,    \* the updates channel
  pc,         \* where the polling goroutine is
  jobList,    \* the jobs whose steps GetWorkflowRunJobs listed, in this poll
  nextJob,    \* the job whose log is fetched next
  nextIndex,  \* the step index its first step gets
  fetched,    \* the number of lines fetched of each step index, in this poll
  stop,       \* how far Stop got
  stopping,   \* pending calls of Stop: "self", by the streamer, and "ui"
  viewer,     \* the viewer this stream is for: "open", "closed", "replaced"
  sub,        \* the subscription: "parked" in a receive, a "message", "lost"
  github,     \* the run's status, the jobs that have started, and the groups
              \* of each job's log, as numbers of lines
  taken,      \* history: the last line received of each step index
  lost        \* history: the step indices of which lines were dropped

fetch   == <<jobList, nextJob, nextIndex, fetched>>
session == <<viewer, sub>>
vars    == <<counts, updates, pc, fetch, stop, stopping, session, github, taken, lost>>

NoSteps == [i \in {} |-> 0]

(* A missing key of a Go map reads as zero. *)
At(lines, i) == IF i \in DOMAIN lines THEN lines[i] ELSE 0

(* StreamUpdate; news has the lines from + 1 to "to" of each step index.    *)
Update(kind, news) == [kind |-> kind, news |-> news]
NoNews == [i \in {} |-> [from |-> 0, to |-> 0]]

Init ==
  /\ counts = NoSteps
  /\ updates = <<>>
  /\ pc = "status"
  /\ jobList = {} /\ nextJob = 1 /\ nextIndex = 0 /\ fetched = NoSteps
  /\ stop = "no" /\ stopping = {}
  /\ viewer = "open" /\ sub = "parked"
  /\ github = [status |-> "active", started |-> {}, log |-> [j \in Jobs |-> <<>>]]
  /\ taken = NoSteps
  /\ lost = {}

----------------------------------------------------------------------------
(* sendUpdate *)

(* The variables of a poll are forgotten at its end. *)
PollEnds ==
  /\ pc' = "select"
  /\ jobList' = {} /\ nextJob' = 1 /\ nextIndex' = 0 /\ fetched' = NoSteps

(* Mutant of SendUpdate: it does not look at the channel's capacity.        *)
SendUpdateUnbounded(update) ==
  /\ updates' = Append(updates, update)
  /\ UNCHANGED lost

(* A select over the context's end, the send and a default. *)
SendUpdate(update) ==
  \/ /\ Len(updates) < UpdateCap
     /\ updates' = Append(updates, update)
     /\ UNCHANGED lost
  \/ /\ stop # "no" \/ Len(updates) = UpdateCap
     /\ lost' = lost \cup DOMAIN update.news
     /\ UNCHANGED updates

----------------------------------------------------------------------------
(* poll *)

GetWorkflowRunFails ==
  /\ pc = "status"
  /\ SendUpdate(Update("error", NoNews))
  /\ pc' = "select"
  /\ UNCHANGED <<counts, fetch, stop, stopping, session, github, taken>>

(* Mutant of PollCompleted: the streamer is left to the interface to stop.  *)
PollCompletedGoesOn ==
  /\ pc = "status"
  /\ github.status = "completed"
  /\ SendUpdate(Update("completed", NoNews))
  /\ pc' = "select"
  /\ UNCHANGED <<counts, fetch, stop, stopping, session, github, taken>>

(* Mutant of PollCompleted: the loop itself calls Stop, and waits for it.   *)
PollCompletedWaits ==
  /\ pc = "status"
  /\ github.status = "completed"
  /\ SendUpdate(Update("completed", NoNews))
  /\ stopping' = stopping \cup {"self"}
  /\ pc' = "stopping"
  /\ UNCHANGED <<counts, fetch, stop, session, github, taken>>

(* The run has completed: a goroutine of its own calls Stop.                *)
PollCompleted ==
  /\ pc = "status"
  /\ github.status = "completed"
  /\ SendUpdate(Update("completed", NoNews))
  /\ stopping' = stopping \cup {"self"}
  /\ pc' = "select"
  /\ UNCHANGED <<counts, fetch, stop, session, github, taken>>

PollActive ==
  /\ pc = "status"
  /\ github.status # "completed"
  /\ pc' = "jobs"
  /\ UNCHANGED <<counts, updates, fetch, stop, stopping, session, github, taken, lost>>

GetWorkflowRunJobsFails ==
  /\ pc = "jobs"
  /\ SendUpdate(Update("error", NoNews))
  /\ PollEnds
  /\ UNCHANGED <<counts, stop, stopping, session, github, taken>>

GetWorkflowRunJobs ==
  /\ pc = "jobs"
  /\ jobList' = github.started
  /\ nextJob' = 1 /\ nextIndex' = 0 /\ fetched' = NoSteps
  /\ pc' = "logs"
  /\ UNCHANGED <<counts, updates, stop, stopping, session, github, taken, lost>>

----------------------------------------------------------------------------
(* FetchStepLogsReal, job by job *)

StepsOf(j) == IF j \in jobList THEN StepCount[j] ELSE 0

(* No log: every listed step takes an index, without lines. *)
FetchJobLogsFails ==
  /\ pc = "logs" /\ nextJob \in Jobs
  /\ nextIndex' = nextIndex + StepsOf(nextJob)
  /\ nextJob' = nextJob + 1
  /\ UNCHANGED <<counts, updates, pc, jobList, fetched, stop, stopping, session,
                 github, taken, lost>>

(* parseJobLogsIntoSteps: a group for each step, as far as there are both.  *)
Groups(j) ==
  IF Len(github.log[j]) < StepsOf(j) THEN Len(github.log[j]) ELSE StepsOf(j)

FetchJobLogs ==
  /\ pc = "logs" /\ nextJob \in Jobs
  /\ nextIndex' = nextIndex + Groups(nextJob)
  /\ fetched' = [i \in DOMAIN fetched \cup nextIndex..(nextIndex' - 1) |->
                   IF i < nextIndex THEN fetched[i]
                   ELSE github.log[nextJob][i - nextIndex + 1]]
  /\ nextJob' = nextJob + 1
  /\ UNCHANGED <<counts, updates, pc, jobList, stop, stopping, session, github, taken, lost>>

(* The step indices with more lines than were known. *)
Grown == {i \in DOMAIN fetched : fetched[i] > At(counts, i)}

(* Mutant of DetectNewLogs: it sends the whole log of a step that has grown. *)
DetectNewLogsWhole ==
  /\ pc = "logs" /\ nextJob \notin Jobs
  /\ SendUpdate(Update("logs", [i \in Grown |-> [from |-> 0, to |-> fetched[i]]]))
  /\ counts' = [i \in DOMAIN counts \cup Grown |-> IF i \in Grown THEN fetched[i] ELSE counts[i]]
  /\ PollEnds
  /\ UNCHANGED <<stop, stopping, session, github, taken>>

(* detectNewLogs, and the update at the end of poll. *)
DetectNewLogs ==
  /\ pc = "logs" /\ nextJob \notin Jobs
  /\ SendUpdate(Update("logs",
       [i \in Grown |-> [from |-> At(counts, i), to |-> fetched[i]]]))
  /\ counts' = [i \in DOMAIN counts \cup Grown |-> IF i \in Grown THEN fetched[i] ELSE counts[i]]
  /\ PollEnds
  /\ UNCHANGED <<stop, stopping, session, github, taken>>

----------------------------------------------------------------------------
(* pollLoop and Stop *)

(* The ticker's channel is ready; after Cancel the select may still choose  *)
(* it, until Stop has stopped the ticker.                                   *)
Tick ==
  /\ pc = "select"
  /\ stop # "closed"
  /\ pc' = "status"
  /\ UNCHANGED <<counts, updates, fetch, stop, stopping, session, github, taken, lost>>

LoopExits ==
  /\ pc = "select"
  /\ stop # "no"
  /\ pc' = "none"
  /\ UNCHANGED <<counts, updates, fetch, stop, stopping, session, github, taken, lost>>

(* The first call of Stop cancels the context and stops the ticker; the     *)
(* others wait for it (stopOnce).                                           *)
Cancel ==
  /\ stopping # {}
  /\ stop = "no"
  /\ stop' = "cancelled"
  /\ UNCHANGED <<counts, updates, pc, fetch, stopping, session, github, taken, lost>>

(* The loop is gone: Stop closes the channel, and all its calls return.     *)
Close ==
  /\ stop = "cancelled"
  /\ pc = "none"
  /\ stop' = "closed"
  /\ stopping' = {}
  /\ UNCHANGED <<counts, updates, pc, fetch, session, github, taken, lost>>

----------------------------------------------------------------------------
(* The user interface: it waits in its own call of Stop. *)

Waiting == "ui" \in stopping

(* The goroutine of logStreamSubscription receives an update and hands it   *)
(* to the event loop.                                                       *)
TakeUpdate ==
  /\ sub = "parked"
  /\ updates # <<>>
  /\ LET news == Head(updates).news IN
       taken' = [i \in DOMAIN taken \cup DOMAIN news |->
                   IF i \in DOMAIN news THEN news[i].to ELSE taken[i]]
  /\ updates' = Tail(updates)
  /\ sub' = "message"
  /\ UNCHANGED <<counts, pc, fetch, stop, stopping, viewer, github, lost>>

(* It receives the zero update of the closed channel. *)
TakeZero ==
  /\ sub = "parked"
  /\ updates = <<>> /\ stop = "closed"
  /\ sub' = "message"
  /\ UNCHANGED <<counts, updates, pc, fetch, stop, stopping, viewer, github, taken, lost>>

(* An open viewer gets the message as any other key and ignores it: the     *)
(* subscription is gone.  Without a modal there is no viewer to append to,  *)
(* and the streamer the session then holds is subscribed to again.          *)
HandleUpdate ==
  /\ sub = "message" /\ ~Waiting
  /\ sub' = IF viewer = "closed" THEN "parked" ELSE "lost"
  /\ UNCHANGED <<counts, updates, pc, fetch, stop, stopping, viewer, github, taken, lost>>

(* The key that closes the viewer does not stop the stream: whether it was  *)
(* a stream that is over was asked before the key was handled.              *)
CloseViewer ==
  /\ viewer = "open"
  /\ viewer' = "closed"
  /\ UNCHANGED <<counts, updates, pc, fetch, stop, stopping, sub, github, taken, lost>>

(* startLogStream for another viewer stops this stream first. *)
StartLogStream ==
  /\ viewer = "closed" /\ ~Waiting
  /\ viewer' = "replaced"
  /\ stopping' = IF stop = "closed" THEN stopping ELSE stopping \cup {"ui"}
  /\ UNCHANGED <<counts, updates, pc, fetch, stop, sub, github, taken, lost>>

----------------------------------------------------------------------------
(* GitHub *)

JobStarts(j) ==
  /\ github.status = "active" /\ j \notin github.started
  /\ github' = [github EXCEPT !.started = @ \cup {j}]
  /\ UNCHANGED <<counts, updates, pc, fetch, stop, stopping, session, taken, lost>>

(* A line, or the first line of a new group. *)
LogGrows(j) ==
  /\ github.status = "active" /\ j \in github.started
  /\ \/ /\ Len(github.log[j]) < MaxGroups
        /\ github' = [github EXCEPT !.log[j] = Append(@, 1)]
     \/ /\ github.log[j] # <<>>
        /\ github.log[j][Len(github.log[j])] < MaxLines
        /\ github' = [github EXCEPT !.log[j][Len(github.log[j])] = @ + 1]
  /\ UNCHANGED <<counts, updates, pc, fetch, stop, stopping, session, taken, lost>>

RunCompletes ==
  /\ github.status = "active"
  /\ github' = [github EXCEPT !.status = "completed"]
  /\ UNCHANGED <<counts, updates, pc, fetch, stop, stopping, session, taken, lost>>

----------------------------------------------------------------------------
Poll ==
  \/ GetWorkflowRunFails \/ PollCompleted \/ PollActive
  \/ GetWorkflowRunJobsFails \/ GetWorkflowRunJobs
  \/ FetchJobLogsFails \/ FetchJobLogs \/ DetectNewLogs

Next ==
  \/ Poll
  \/ Tick \/ LoopExits \/ Cancel \/ Close
  \/ TakeUpdate \/ TakeZero \/ HandleUpdate
  \/ CloseViewer \/ StartLogStream
  \/ \E j \in Jobs : JobStarts(j) \/ LogGrows(j)
  \/ RunCompletes

(* Goroutines are scheduled, the ticker ticks and calls of gh return, with  *)
(* or without an error; a select does not pass over the cancelled context   *)
(* for ever.  Nothing is assumed of the user and of GitHub.                 *)
Fairness ==
  /\ WF_vars(Poll) /\ WF_vars(Tick) /\ SF_vars(LoopExits)
  /\ WF_vars(Cancel) /\ WF_vars(Close)
  /\ WF_vars(TakeUpdate) /\ WF_vars(HandleUpdate)

Spec == Init /\ [][Next]_vars /\ Fairness

----------------------------------------------------------------------------
(* Properties *)

IsLines(lines) == DOMAIN lines \subseteq Nat /\ \A i \in DOMAIN lines : lines[i] \in Nat

IsUpdate(update) ==
  /\ update.kind \in {"error", "completed", "logs"}
  /\ DOMAIN update.news \subseteq Nat
  /\ \A i \in DOMAIN update.news : update.news[i] \in [from : Nat, to : Nat]

(* The values every variable of the streamer can take. *)
TypeOK ==
  /\ IsLines(counts) /\ IsLines(fetched) /\ IsLines(taken)
  /\ Len(updates) <= UpdateCap
  /\ \A u \in 1..Len(updates) : IsUpdate(updates[u])
  /\ pc \in {"status", "jobs", "logs", "select", "none"}
  /\ jobList \subseteq Jobs /\ nextJob \in 1..(NumJobs + 1) /\ nextIndex \in Nat
  /\ stop \in {"no", "cancelled", "closed"}
  /\ stopping \subseteq {"self", "ui"}
  /\ viewer \in {"open", "closed", "replaced"} /\ sub \in {"parked", "message", "lost"}
  /\ lost \subseteq Nat
  /\ github \in [status : {"active", "completed"}, started : SUBSET Jobs,
                 log : [Jobs -> Seq(1..MaxLines)]]

(* No line of a step index is sent twice or out of order, and none is left  *)
(* out unless an update was dropped, whatever fails, shifts or grows while  *)
(* the jobs are fetched one by one.                                         *)
LinesInOrder ==
  updates # <<>> =>
    \A i \in DOMAIN Head(updates).news :
      LET new == Head(updates).news[i] IN
      /\ At(taken, i) <= new.from /\ new.from < new.to
      /\ i \notin lost => At(taken, i) = new.from

(* The loop is gone before the channel is closed, so it never sends on the  *)
(* closed channel, although it asks for the Stop that closes it.            *)
ClosedMeansGone == stop = "closed" => pc = "none"

(* Every call of Stop returns: the streamer's own, and that of the user     *)
(* interface, which does nothing else meanwhile.                            *)
StopReturns == \A c \in {"self", "ui"} : c \in stopping ~> c \notin stopping

(* The streamer of a run that has completed ends, or fails again and again  *)
(* to learn of it: Stop is not left to a user interface that may have lost  *)
(* its subscription.                                                        *)
EndsWithRun ==
  <>[](github.status = "completed" /\ stop # "closed") => []<><<GetWorkflowRunFails>>_vars

=============================================================================
