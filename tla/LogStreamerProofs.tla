------------------------- MODULE LogStreamerProofs -------------------------
(***************************************************************************)
(* Proofs about LogStreamer, for any number of jobs, steps, groups and     *)
(* lines, and every capacity of the channel.                               *)
(***************************************************************************)
EXTENDS LogStreamer, SequenceTheorems, TLAPS

News == [from : Nat, to : Nat]
StreamUpdate ==
  [kind : {"error", "completed", "logs"}, news : UNION {[I -> News] : I \in SUBSET Nat}]

(* The channel holds updates, in the sense the rules for sequences need.    *)
ChannelType == updates \in Seq(StreamUpdate) /\ Len(updates) <= UpdateCap

LinesType == IsLines(counts) /\ IsLines(taken) /\ lost \subseteq Nat

(* The steps fetched so far are numbered below the index of the next one.   *)
FetchType ==
  /\ IsLines(fetched)
  /\ jobList \subseteq Jobs /\ nextJob \in 1..(NumJobs + 1) /\ nextIndex \in Nat
  /\ \A i \in DOMAIN fetched : i < nextIndex

ControlType ==
  /\ pc \in {"status", "jobs", "logs", "select", "none"}
  /\ stop \in {"no", "cancelled", "closed"}
  /\ stopping \subseteq {"self", "ui"}
  /\ viewer \in {"open", "closed", "replaced"} /\ sub \in {"parked", "message", "lost"}

GitHubType ==
  github \in [status : {"active", "completed"}, started : SUBSET Jobs,
              log : [Jobs -> Seq(1..MaxLines)]]

TypeInv == ChannelType /\ LinesType /\ FetchType /\ ControlType /\ GitHubType

control == <<pc, stop, stopping, viewer, sub>>
lines   == <<counts, taken, lost>>

LEMMA Untouched ==
  /\ ChannelType /\ UNCHANGED updates => ChannelType'
  /\ LinesType /\ UNCHANGED lines => LinesType'
  /\ FetchType /\ UNCHANGED fetch => FetchType'
  /\ GitHubType /\ UNCHANGED github => GitHubType'
<1>1. ChannelType /\ UNCHANGED updates => ChannelType'
  BY DEF ChannelType
<1>2. LinesType /\ UNCHANGED lines => LinesType'
  BY DEF LinesType, lines, IsLines
<1>3. FetchType /\ UNCHANGED fetch => FetchType'
  BY DEF FetchType, fetch, IsLines
<1>4. GitHubType /\ UNCHANGED github => GitHubType'
  BY DEF GitHubType
<1> QED BY <1>1, <1>2, <1>3, <1>4

(* What the news of an update in the channel are. *)
LEMMA NewsType ==
  ASSUME NEW u \in StreamUpdate
  PROVE  /\ DOMAIN u.news \subseteq Nat
         /\ \A i \in DOMAIN u.news : u.news[i] \in News
BY DEF StreamUpdate

LEMMA NoNewsType ==
  ASSUME NEW kind \in {"error", "completed", "logs"}
  PROVE  Update(kind, NoNews) \in StreamUpdate /\ DOMAIN Update(kind, NoNews).news = {}
<1>1. NoNews \in [{} -> News]
  BY DEF NoNews
<1>2. NoNews \in UNION {[I -> News] : I \in SUBSET Nat}
  BY <1>1
<1> QED BY <1>1, <1>2 DEF Update, StreamUpdate

(* sendUpdate keeps the channel within its capacity. *)
LEMMA SendUpdateType ==
  ASSUME ChannelType, LinesType, NEW u \in StreamUpdate, SendUpdate(u)
  PROVE  ChannelType' /\ lost' \subseteq Nat
<1>1. updates \in Seq(StreamUpdate) /\ Len(updates) \in Nat /\ Len(updates) <= UpdateCap
  BY LenProperties DEF ChannelType
<1>2. lost \subseteq Nat /\ DOMAIN u.news \subseteq Nat
  BY NewsType DEF LinesType
<1>3. CASE Len(updates) < UpdateCap /\ updates' = Append(updates, u) /\ UNCHANGED lost
  <2>1. updates' \in Seq(StreamUpdate) /\ Len(updates') = Len(updates) + 1
    BY <1>1, <1>3, AppendProperties
  <2>2. Len(updates') <= UpdateCap
    BY <1>1, <1>3, <2>1, BoundsAssumption
  <2> QED BY <1>2, <1>3, <2>1, <2>2 DEF ChannelType
<1>4. CASE lost' = lost \cup DOMAIN u.news /\ UNCHANGED updates
  BY <1>1, <1>2, <1>4 DEF ChannelType
<1> QED BY <1>3, <1>4 DEF SendUpdate

(* An update without news changes neither counts nor what was taken.        *)
LEMMA PlainUpdateType ==
  ASSUME TypeInv, NEW kind \in {"error", "completed", "logs"},
         SendUpdate(Update(kind, NoNews)), UNCHANGED <<counts, taken>>
  PROVE  ChannelType' /\ LinesType' /\ UNCHANGED lost
<1>1. Update(kind, NoNews) \in StreamUpdate /\ DOMAIN Update(kind, NoNews).news = {}
  BY NoNewsType
<1>2. UNCHANGED lost
  BY <1>1 DEF SendUpdate
<1>3. ChannelType'
  BY <1>1, SendUpdateType DEF TypeInv
<1> QED BY <1>2, <1>3, Untouched DEF TypeInv, lines

LEMMA PollEndsType ==
  ASSUME PollEnds
  PROVE  FetchType' /\ pc' = "select"
<1>1. jobList' = {} /\ nextJob' = 1 /\ nextIndex' = 0 /\ DOMAIN fetched' = {}
  BY DEF PollEnds, NoSteps
<1> QED BY <1>1, JobsAssumption DEF PollEnds, FetchType, IsLines

(* What the fetcher makes of the log of one job.                            *)
LEMMA GroupsFacts ==
  ASSUME TypeInv, NEW j \in Jobs
  PROVE  /\ StepsOf(j) \in Nat /\ Groups(j) \in Nat
         /\ \A k \in 1..Groups(j) : github.log[j][k] \in Nat
<1>1. StepsOf(j) \in Nat
  BY JobsAssumption DEF StepsOf
<1>2. github.log[j] \in Seq(1..MaxLines)
  BY DEF TypeInv, GitHubType
<1>3. Len(github.log[j]) \in Nat /\ \A k \in 1..Len(github.log[j]) : github.log[j][k] \in 1..MaxLines
  BY <1>2, LenProperties
<1>4. Groups(j) \in Nat /\ Groups(j) <= Len(github.log[j])
  BY <1>1, <1>3 DEF Groups
<1> QED BY <1>1, <1>3, <1>4, BoundsAssumption

LEMMA FetchJobLogsType ==
  ASSUME TypeInv, FetchJobLogs
  PROVE  FetchType'
<1>1. nextJob \in Jobs /\ nextJob \in Nat /\ nextJob' = nextJob + 1 /\ nextJob <= NumJobs
  BY JobsAssumption DEF FetchJobLogs, Jobs
<1>2. /\ IsLines(fetched) /\ nextIndex \in Nat /\ jobList \subseteq Jobs
      /\ \A i \in DOMAIN fetched : i < nextIndex
  BY DEF TypeInv, FetchType
<1>3. /\ Groups(nextJob) \in Nat
      /\ \A k \in 1..Groups(nextJob) : github.log[nextJob][k] \in Nat
  BY <1>1, GroupsFacts
<1>4. nextIndex' = nextIndex + Groups(nextJob) /\ nextIndex' \in Nat
  BY <1>2, <1>3 DEF FetchJobLogs
<1>5. fetched' = [i \in DOMAIN fetched \cup nextIndex..(nextIndex' - 1) |->
                    IF i < nextIndex THEN fetched[i]
                    ELSE github.log[nextJob][i - nextIndex + 1]]
  BY DEF FetchJobLogs
<1>6. DOMAIN fetched' = DOMAIN fetched \cup nextIndex..(nextIndex' - 1)
  BY <1>5
<1>7. ASSUME NEW i \in DOMAIN fetched' PROVE i \in Nat /\ fetched'[i] \in Nat /\ i < nextIndex'
  <2>1. CASE i \in DOMAIN fetched
    BY <1>2, <1>3, <1>4, <1>5, <1>6, <2>1 DEF IsLines
  <2>2. CASE i \in nextIndex..(nextIndex' - 1)
    <3>1. i \in Nat /\ nextIndex <= i /\ i < nextIndex'
      BY <1>2, <1>4, <2>2
    <3>2. i - nextIndex + 1 \in 1..Groups(nextJob)
      BY <1>2, <1>3, <1>4, <3>1
    <3>3. fetched'[i] = github.log[nextJob][i - nextIndex + 1]
      BY <1>2, <1>5, <1>6, <3>1
    <3> QED BY <1>3, <3>1, <3>2, <3>3
  <2> QED BY <1>6, <2>1, <2>2
<1>8. nextJob' \in 1..(NumJobs + 1)
  BY <1>1, JobsAssumption
<1>9. UNCHANGED jobList
  BY DEF FetchJobLogs
<1> QED BY <1>2, <1>4, <1>7, <1>8, <1>9 DEF FetchType, IsLines

(* What detectNewLogs finds, and counts. *)
LEMMA DetectFacts ==
  ASSUME TypeInv, DetectNewLogs
  PROVE  \E u \in StreamUpdate :
           /\ SendUpdate(u)
           /\ \A i \in DOMAIN u.news :
                /\ u.news[i].from = At(counts, i) /\ u.news[i].to = At(counts', i)
                /\ u.news[i].from < u.news[i].to
           /\ \A i \in Nat \ DOMAIN u.news : At(counts', i) = At(counts, i)
           /\ IsLines(counts')
<1> DEFINE news == [i \in Grown |-> [from |-> At(counts, i), to |-> fetched[i]]]
           u == Update("logs", news)
<1>1. /\ DOMAIN counts \subseteq Nat /\ \A i \in DOMAIN counts : counts[i] \in Nat
      /\ DOMAIN fetched \subseteq Nat /\ \A i \in DOMAIN fetched : fetched[i] \in Nat
  BY DEF TypeInv, LinesType, FetchType, IsLines
<1>2. /\ Grown \subseteq Nat
      /\ \A i \in Grown : fetched[i] \in Nat /\ At(counts, i) \in Nat /\ At(counts, i) < fetched[i]
  BY <1>1 DEF Grown, At
<1>3. news \in [Grown -> News]
  BY <1>2 DEF News
<1>4. news \in UNION {[I -> News] : I \in SUBSET Nat}
  BY <1>2, <1>3
<1>5. u \in StreamUpdate /\ u.news = news
  BY <1>4 DEF Update, StreamUpdate
<1>6. SendUpdate(u)
  BY DEF DetectNewLogs
<1>7. counts' = [i \in DOMAIN counts \cup Grown |-> IF i \in Grown THEN fetched[i] ELSE counts[i]]
  BY DEF DetectNewLogs
<1>8. /\ DOMAIN counts' = DOMAIN counts \cup Grown
      /\ \A i \in Grown : counts'[i] = fetched[i]
      /\ \A i \in DOMAIN counts \ Grown : counts'[i] = counts[i]
  BY <1>7
<1>9. /\ \A i \in Grown : At(counts', i) = fetched[i]
      /\ \A i \in Nat \ Grown : At(counts', i) = At(counts, i)
  BY <1>8 DEF At
<1>10. IsLines(counts')
  BY <1>1, <1>2, <1>8 DEF IsLines
<1>11. DOMAIN news = Grown /\ \A i \in Grown : news[i].from = At(counts, i) /\ news[i].to = fetched[i]
  OBVIOUS
<1> HIDE DEF news, u
<1> QED BY <1>2, <1>5, <1>6, <1>9, <1>10, <1>11

(* What a receiver takes. *)
LEMMA TakeFacts ==
  ASSUME TypeInv, TakeUpdate
  PROVE  /\ updates \in Seq(StreamUpdate) /\ Len(updates) \in Nat /\ Len(updates) >= 1
         /\ Head(updates) = updates[1]
         /\ updates' \in Seq(StreamUpdate) /\ Len(updates') = Len(updates) - 1
         /\ \A u \in 1..Len(updates') : updates'[u] = updates[u + 1]
         /\ \A i \in DOMAIN updates[1].news : At(taken', i) = updates[1].news[i].to
         /\ \A i \in Nat \ DOMAIN updates[1].news : At(taken', i) = At(taken, i)
         /\ IsLines(taken')
<1>1. updates \in Seq(StreamUpdate) /\ updates # <<>> /\ updates' = Tail(updates)
  BY DEF TypeInv, ChannelType, TakeUpdate
<1>2. /\ Head(updates) \in StreamUpdate /\ updates' \in Seq(StreamUpdate)
      /\ Len(updates') = Len(updates) - 1
      /\ \A u \in 1..Len(updates') : updates'[u] = updates[u + 1]
  BY <1>1, HeadTailProperties
<1>3. Len(updates) \in Nat /\ Len(updates) >= 1 /\ Head(updates) = updates[1]
  BY <1>1, LenProperties
<1> DEFINE news == updates[1].news
<1>4. DOMAIN news \subseteq Nat /\ \A i \in DOMAIN news : news[i] \in News
  BY <1>2, <1>3, NewsType
<1>5. \A i \in DOMAIN news : news[i].to \in Nat
  BY <1>4 DEF News
<1>6. taken' = [i \in DOMAIN taken \cup DOMAIN news |->
                  IF i \in DOMAIN news THEN news[i].to ELSE taken[i]]
  BY <1>3 DEF TakeUpdate
<1> HIDE DEF news
<1>7. /\ DOMAIN taken' = DOMAIN taken \cup DOMAIN news
      /\ \A i \in DOMAIN news : taken'[i] = news[i].to
      /\ \A i \in DOMAIN taken \ DOMAIN news : taken'[i] = taken[i]
  BY <1>6
<1>8. /\ \A i \in DOMAIN news : At(taken', i) = news[i].to
      /\ \A i \in Nat \ DOMAIN news : At(taken', i) = At(taken, i)
  BY <1>7 DEF At
<1>9. IsLines(taken')
  BY <1>4, <1>5, <1>7 DEF IsLines, TypeInv, LinesType
<1> QED BY <1>1, <1>2, <1>3, <1>8, <1>9 DEF news

LEMMA LogGrowsType ==
  ASSUME GitHubType, NEW j \in Jobs, LogGrows(j)
  PROVE  GitHubType'
<1> DEFINE groups == github.log[j]
           n == Len(groups)
<1>1. groups \in Seq(1..MaxLines) /\ n \in Nat
  <2>1. groups \in Seq(1..MaxLines)
    BY DEF GitHubType
  <2> QED BY <2>1, LenProperties
<1>2. ASSUME NEW new \in Seq(1..MaxLines), github' = [github EXCEPT !.log[j] = new]
      PROVE  GitHubType'
  BY <1>2 DEF GitHubType
<1>3. CASE github' = [github EXCEPT !.log[j] = Append(@, 1)]
  <2>1. 1 \in 1..MaxLines
    BY BoundsAssumption
  <2>2. Append(groups, 1) \in Seq(1..MaxLines)
    BY <1>1, <2>1, AppendProperties
  <2>3. github' = [github EXCEPT !.log[j] = Append(groups, 1)]
    BY <1>3
  <2> QED BY <1>2, <2>2, <2>3
<1>4. CASE /\ groups # <<>> /\ groups[n] < MaxLines
           /\ github' = [github EXCEPT !.log[j][n] = @ + 1]
  <2>1. n \in 1..n
    BY <1>1, <1>4, LenProperties
  <2>2. groups[n] \in 1..MaxLines
    BY <1>1, <2>1, LenProperties
  <2>3. groups[n] + 1 \in 1..MaxLines
    BY <1>4, <2>2, BoundsAssumption
  <2>4. [groups EXCEPT ![n] = groups[n] + 1] \in Seq(1..MaxLines)
    BY <1>1, <2>1, <2>3, ExceptSeq
  <2>5. github' = [github EXCEPT !.log[j] = [groups EXCEPT ![n] = groups[n] + 1]]
    BY <1>4
  <2> QED BY <1>2, <2>4, <2>5
<1> QED BY <1>3, <1>4 DEF LogGrows

-----------------------------------------------------------------------------
(* Type correctness *)

LEMMA TypeInit == Init => TypeInv
<1> SUFFICES ASSUME Init PROVE TypeInv
  OBVIOUS
<1>1. ChannelType
  <2>1. <<>> \in Seq(StreamUpdate) /\ Len(<<>>) = 0
    OBVIOUS
  <2> QED BY <2>1, BoundsAssumption DEF Init, ChannelType
<1>2. LinesType
  BY DEF Init, LinesType, IsLines, NoSteps
<1>3. FetchType
  BY JobsAssumption DEF Init, FetchType, IsLines, NoSteps
<1>4. ControlType
  BY DEF Init, ControlType
<1>5. GitHubType
  BY DEF Init, GitHubType
<1> QED BY <1>1, <1>2, <1>3, <1>4, <1>5 DEF TypeInv

LEMMA TypeStep == TypeInv /\ [Next]_vars => TypeInv'
<1> SUFFICES ASSUME TypeInv, [Next]_vars PROVE TypeInv'
  OBVIOUS
<1>0. ChannelType /\ LinesType /\ FetchType /\ ControlType /\ GitHubType
  BY DEF TypeInv
<1>1. CASE GetWorkflowRunFails
  <2>1. ChannelType' /\ LinesType'
    BY <1>1, PlainUpdateType DEF GetWorkflowRunFails
  <2>2. FetchType' /\ GitHubType' /\ ControlType'
    BY <1>0, <1>1, Untouched DEF GetWorkflowRunFails, ControlType, session
  <2> QED BY <2>1, <2>2 DEF TypeInv
<1>2. CASE PollCompleted
  <2>1. ChannelType' /\ LinesType'
    BY <1>2, PlainUpdateType DEF PollCompleted
  <2>2. FetchType' /\ GitHubType' /\ ControlType'
    BY <1>0, <1>2, Untouched DEF PollCompleted, ControlType, session
  <2> QED BY <2>1, <2>2 DEF TypeInv
<1>3. CASE PollActive
  BY <1>0, <1>3, Untouched DEF PollActive, TypeInv, ControlType, session, lines
<1>4. CASE GetWorkflowRunJobsFails
  <2>1. ChannelType' /\ LinesType'
    BY <1>4, PlainUpdateType DEF GetWorkflowRunJobsFails
  <2>2. FetchType' /\ GitHubType' /\ ControlType'
    BY <1>0, <1>4, PollEndsType, Untouched DEF GetWorkflowRunJobsFails, ControlType, session
  <2> QED BY <2>1, <2>2 DEF TypeInv
<1>5. CASE GetWorkflowRunJobs
  <2>1. github.started \subseteq Jobs
    BY <1>0 DEF GitHubType
  <2>2. FetchType'
    BY <1>5, <2>1, JobsAssumption DEF GetWorkflowRunJobs, FetchType, IsLines, NoSteps
  <2> QED
    BY <1>0, <1>5, <2>2, Untouched DEF GetWorkflowRunJobs, TypeInv, ControlType, session, lines
<1>6. CASE FetchJobLogsFails
  <2>1. StepsOf(nextJob) \in Nat /\ nextJob \in Nat /\ nextJob <= NumJobs
    BY <1>6, GroupsFacts, JobsAssumption DEF FetchJobLogsFails, Jobs
  <2>2. FetchType'
    BY <1>0, <1>6, <2>1, JobsAssumption DEF FetchJobLogsFails, FetchType, IsLines
  <2> QED
    BY <1>0, <1>6, <2>2, Untouched DEF FetchJobLogsFails, TypeInv, ControlType, session, lines
<1>7. CASE FetchJobLogs
  <2>1. FetchType'
    BY <1>7, FetchJobLogsType
  <2> QED
    BY <1>0, <1>7, <2>1, Untouched DEF FetchJobLogs, TypeInv, ControlType, session, lines
<1>8. CASE DetectNewLogs
  <2>1. PICK u \in StreamUpdate : SendUpdate(u) /\ IsLines(counts')
    BY <1>8, DetectFacts
  <2>2. ChannelType' /\ lost' \subseteq Nat
    BY <1>0, <2>1, SendUpdateType
  <2>3. LinesType'
    BY <1>0, <1>8, <2>1, <2>2 DEF DetectNewLogs, LinesType, IsLines
  <2>4. FetchType' /\ GitHubType' /\ ControlType'
    BY <1>0, <1>8, PollEndsType, Untouched DEF DetectNewLogs, ControlType, session
  <2> QED BY <2>2, <2>3, <2>4 DEF TypeInv
<1>9. CASE Tick
  BY <1>0, <1>9, Untouched DEF Tick, TypeInv, ControlType, session, lines
<1>10. CASE LoopExits
  BY <1>0, <1>10, Untouched DEF LoopExits, TypeInv, ControlType, session, lines
<1>11. CASE Cancel
  BY <1>0, <1>11, Untouched DEF Cancel, TypeInv, ControlType, session, lines
<1>12. CASE Close
  BY <1>0, <1>12, Untouched DEF Close, TypeInv, ControlType, session, lines
<1>13. CASE TakeUpdate
  <2>1. ChannelType'
    BY <1>0, <1>13, TakeFacts, BoundsAssumption DEF ChannelType
  <2>2. LinesType'
    BY <1>0, <1>13, TakeFacts DEF TakeUpdate, LinesType, IsLines
  <2> QED
    BY <1>0, <1>13, <2>1, <2>2, Untouched DEF TakeUpdate, TypeInv, ControlType
<1>14. CASE TakeZero
  BY <1>0, <1>14, Untouched DEF TakeZero, TypeInv, ControlType, lines
<1>15. CASE HandleUpdate
  BY <1>0, <1>15, Untouched DEF HandleUpdate, TypeInv, ControlType, lines
<1>16. CASE CloseViewer
  BY <1>0, <1>16, Untouched DEF CloseViewer, TypeInv, ControlType, lines
<1>17. CASE StartLogStream
  BY <1>0, <1>17, Untouched DEF StartLogStream, TypeInv, ControlType, lines
<1>18. ASSUME NEW j \in Jobs, JobStarts(j) PROVE TypeInv'
  <2>1. GitHubType'
    BY <1>0, <1>18 DEF JobStarts, GitHubType
  <2> QED BY <1>0, <1>18, <2>1, Untouched DEF JobStarts, TypeInv, ControlType, session, lines
<1>19. ASSUME NEW j \in Jobs, LogGrows(j) PROVE TypeInv'
  <2>1. GitHubType'
    BY <1>0, <1>19, LogGrowsType DEF TypeInv
  <2> QED BY <1>0, <1>19, <2>1, Untouched DEF LogGrows, TypeInv, ControlType, session, lines
<1>20. CASE RunCompletes
  <2>1. GitHubType'
    BY <1>0, <1>20 DEF RunCompletes, GitHubType
  <2> QED BY <1>0, <1>20, <2>1, Untouched DEF RunCompletes, TypeInv, ControlType, session, lines
<1>21. CASE UNCHANGED vars
  BY <1>0, <1>21, Untouched DEF vars, TypeInv, ControlType, session, lines
<1> QED
  BY <1>1, <1>2, <1>3, <1>4, <1>5, <1>6, <1>7, <1>8, <1>9, <1>10, <1>11, <1>12, <1>13,
     <1>14, <1>15, <1>16, <1>17, <1>18, <1>19, <1>20, <1>21 DEF Next, Poll

(* The streamer's variables keep their types and the channel its bound,     *)
(* however the jobs' logs grow and whichever calls of gh fail.              *)
THEOREM TypeCorrect == Spec => []TypeOK
<1>1. TypeInv => TypeOK
  <2> SUFFICES ASSUME TypeInv PROVE TypeOK
    OBVIOUS
  <2>1. \A u \in 1..Len(updates) : IsUpdate(updates[u])
    <3> SUFFICES ASSUME NEW u \in 1..Len(updates) PROVE IsUpdate(updates[u])
      OBVIOUS
    <3>1. updates[u] \in StreamUpdate
      BY LenProperties DEF TypeInv, ChannelType
    <3>2. updates[u].kind \in {"error", "completed", "logs"}
      BY <3>1 DEF StreamUpdate
    <3> QED BY <3>1, <3>2, NewsType DEF IsUpdate, News
  <2> QED
    BY <2>1 DEF TypeOK, TypeInv, ChannelType, LinesType, FetchType, ControlType, GitHubType
<1> QED BY <1>1, TypeInit, TypeStep, PTL DEF Spec

(* The loop has left its select for good when the channel is closed, though *)
(* it has itself asked for the Stop that closes it: it sends on no closed   *)
(* channel, and polls no more.                                              *)
THEOREM LoopIsGone == Spec => []ClosedMeansGone
<1>1. Init => ClosedMeansGone
  BY DEF Init, ClosedMeansGone
<1>2. ClosedMeansGone /\ [Next]_vars => ClosedMeansGone'
  <2> SUFFICES ASSUME ClosedMeansGone, [Next]_vars PROVE ClosedMeansGone'
    OBVIOUS
  <2> USE DEF ClosedMeansGone
  <2>1. CASE Poll
    BY <2>1 DEF Poll, GetWorkflowRunFails, PollCompleted, PollActive, GetWorkflowRunJobsFails,
               GetWorkflowRunJobs, FetchJobLogsFails, FetchJobLogs, DetectNewLogs
  <2>2. CASE Tick \/ LoopExits \/ Cancel \/ Close
    BY <2>2 DEF Tick, LoopExits, Cancel, Close
  <2>3. CASE TakeUpdate \/ TakeZero \/ HandleUpdate \/ CloseViewer \/ StartLogStream
    BY <2>3 DEF TakeUpdate, TakeZero, HandleUpdate, CloseViewer, StartLogStream
  <2>4. CASE RunCompletes \/ \E j \in Jobs : JobStarts(j) \/ LogGrows(j)
    BY <2>4 DEF RunCompletes, JobStarts, LogGrows
  <2>5. CASE UNCHANGED vars
    BY <2>5 DEF vars
  <2> QED BY <2>1, <2>2, <2>3, <2>4, <2>5 DEF Next
<1> QED BY <1>1, <1>2, PTL DEF Spec

-----------------------------------------------------------------------------
(* The order of lines *)

(* The lines of a step index that are on their way, from those taken to     *)
(* those counted: they follow one another, and without a gap unless some    *)
(* were dropped.                                                            *)
TakenBeforeCounted == \A i \in Nat : At(taken, i) <= At(counts, i)

NewsBetween ==
  \A u \in 1..Len(updates) : \A i \in DOMAIN updates[u].news :
    /\ At(taken, i) <= updates[u].news[i].from
    /\ updates[u].news[i].from < updates[u].news[i].to
    /\ updates[u].news[i].to <= At(counts, i)

NewsAscend ==
  \A u, v \in 1..Len(updates) : u < v =>
    \A i \in DOMAIN updates[u].news \cap DOMAIN updates[v].news :
      updates[u].news[i].to <= updates[v].news[i].from

(* Line n of step index i is the last one taken, or ends the news of one of *)
(* the first k updates in the channel.                                      *)
Reached(n, i, k) ==
  n = At(taken, i) \/
  \E u \in 1..Len(updates) : u <= k /\ i \in DOMAIN updates[u].news /\ updates[u].news[i].to = n

NoGap ==
  /\ \A v \in 1..Len(updates) : \A i \in DOMAIN updates[v].news \ lost :
       Reached(updates[v].news[i].from, i, v - 1)
  /\ \A i \in Nat \ lost : Reached(At(counts, i), i, Len(updates))

Order == TakenBeforeCounted /\ NewsBetween /\ NewsAscend /\ NoGap

ReachedNext(n, i, k) ==
  n = At(taken', i) \/
  \E u \in 1..Len(updates') :
    u <= k /\ i \in DOMAIN updates'[u].news /\ updates'[u].news[i].to = n

NoGapNext ==
  /\ \A v \in 1..Len(updates') : \A i \in DOMAIN updates'[v].news \ lost' :
       ReachedNext(updates'[v].news[i].from, i, v - 1)
  /\ \A i \in Nat \ lost' : ReachedNext(At(counts', i), i, Len(updates'))

LEMMA NextIsPrime == NoGapNext => NoGap'
BY DEF NoGapNext, ReachedNext, NoGap, Reached, At

LEMMA AtType ==
  ASSUME LinesType, NEW i \in Nat
  PROVE  At(counts, i) \in Nat /\ At(taken, i) \in Nat
BY DEF LinesType, IsLines, At

LEMMA OrderUntouched == Order /\ UNCHANGED <<updates, counts, taken, lost>> => Order'
BY DEF Order, TakenBeforeCounted, NewsBetween, NewsAscend, NoGap, Reached, At

(* An update whose news go from the old counts to the new ones keeps the    *)
(* order, whether it finds room or not.                                     *)
LEMMA SendOrder ==
  ASSUME TypeInv, Order, NEW update \in StreamUpdate, SendUpdate(update), UNCHANGED taken,
         \A i \in DOMAIN update.news :
           /\ update.news[i].from = At(counts, i) /\ update.news[i].to = At(counts', i)
           /\ update.news[i].from < update.news[i].to,
         \A i \in Nat \ DOMAIN update.news : At(counts', i) = At(counts, i)
  PROVE  Order'
<1> DEFINE n == Len(updates)
<1>1. /\ updates \in Seq(StreamUpdate) /\ n \in Nat
      /\ \A u \in 1..n : updates[u] \in StreamUpdate
  BY LenProperties DEF TypeInv, ChannelType
<1>2. \A i \in Nat : At(counts, i) \in Nat /\ At(taken, i) \in Nat
  BY AtType DEF TypeInv
<1>3. /\ \A u \in 1..n : DOMAIN updates[u].news \subseteq Nat
      /\ \A u \in 1..n : \A i \in DOMAIN updates[u].news :
           updates[u].news[i].from \in Nat /\ updates[u].news[i].to \in Nat
      /\ DOMAIN update.news \subseteq Nat
      /\ \A i \in DOMAIN update.news : update.news[i].from \in Nat /\ update.news[i].to \in Nat
  BY <1>1, NewsType DEF News
<1>4. ASSUME NEW i \in Nat
      PROVE  At(counts', i) \in Nat /\ At(counts, i) <= At(counts', i)
  <2>1. CASE i \in DOMAIN update.news
    <3>1. update.news[i].to \in Nat /\ At(counts, i) < update.news[i].to
      BY <1>3, <2>1
    <3>2. At(counts', i) = update.news[i].to
      BY <2>1
    <3> QED BY <1>2, <3>1, <3>2
  <2>2. CASE i \notin DOMAIN update.news
    BY <1>2, <2>2
  <2> QED BY <2>1, <2>2
<1>5. TakenBeforeCounted /\ NewsBetween /\ NewsAscend /\ NoGap
  BY DEF Order
<1>6. TakenBeforeCounted'
  BY <1>2, <1>4, <1>5 DEF TakenBeforeCounted
<1>7. CASE updates' = Append(updates, update) /\ UNCHANGED lost
  <2>1. /\ Len(updates') = n + 1
        /\ \A u \in 1..n : updates'[u] = updates[u]
        /\ updates'[n + 1] = update
    BY <1>1, <1>7, AppendProperties
  <2>2. NewsBetween'
    <3> SUFFICES ASSUME NEW u \in 1..(n + 1), NEW i \in DOMAIN updates'[u].news
                 PROVE  /\ At(taken', i) <= updates'[u].news[i].from
                        /\ updates'[u].news[i].from < updates'[u].news[i].to
                        /\ updates'[u].news[i].to <= At(counts', i)
      BY <2>1 DEF NewsBetween
    <3>1. CASE u \in 1..n
      <4>1. updates'[u] = updates[u] /\ i \in Nat
        BY <1>3, <2>1, <3>1
      <4>2. /\ At(taken, i) <= updates[u].news[i].from
            /\ updates[u].news[i].from < updates[u].news[i].to
            /\ updates[u].news[i].to <= At(counts, i)
        BY <1>5, <3>1, <4>1 DEF NewsBetween
      <4>3. At(taken', i) = At(taken, i)
        OBVIOUS
      <4>4. updates[u].news[i].to <= At(counts', i)
        <5>1. updates[u].news[i].to \in Nat
          BY <1>3, <3>1, <4>1
        <5>2. At(counts, i) \in Nat /\ At(counts', i) \in Nat /\ At(counts, i) <= At(counts', i)
          BY <1>2, <1>4, <4>1
        <5> QED BY <4>2, <5>1, <5>2
      <4> QED BY <4>1, <4>2, <4>3, <4>4
    <3>2. CASE u = n + 1
      <4>1. updates'[u] = update /\ i \in Nat /\ i \in DOMAIN update.news
        BY <1>3, <2>1, <3>2
      <4>2. At(taken', i) = At(taken, i) /\ At(taken, i) <= At(counts, i)
        BY <1>5, <4>1 DEF TakenBeforeCounted
      <4>3. /\ update.news[i].from = At(counts, i) /\ update.news[i].to = At(counts', i)
            /\ update.news[i].from < update.news[i].to
        BY <4>1
      <4>4. update.news[i].to <= At(counts', i)
        BY <1>4, <4>1, <4>3
      <4> QED BY <4>1, <4>2, <4>3, <4>4
    <3> QED BY <1>1, <3>1, <3>2
  <2>3. NewsAscend'
    <3> SUFFICES ASSUME NEW u \in 1..(n + 1), NEW v \in 1..(n + 1), u < v,
                        NEW i \in DOMAIN updates'[u].news \cap DOMAIN updates'[v].news
                 PROVE  updates'[u].news[i].to <= updates'[v].news[i].from
      BY <2>1 DEF NewsAscend
    <3>1. u \in 1..n /\ updates'[u] = updates[u]
      BY <1>1, <2>1
    <3>2. CASE v \in 1..n
      BY <1>5, <2>1, <3>1, <3>2 DEF NewsAscend
    <3>3. CASE v = n + 1
      BY <1>5, <2>1, <3>1, <3>3 DEF NewsBetween
    <3> QED BY <1>1, <3>2, <3>3
  <2>4. ASSUME NEW m \in Nat, NEW i \in Nat, NEW k \in 0..n, Reached(m, i, k)
        PROVE  ReachedNext(m, i, k)
    BY <1>1, <2>1, <2>4 DEF Reached, ReachedNext
  <2>5. ASSUME NEW v \in 1..(n + 1), NEW i \in DOMAIN updates'[v].news \ lost
        PROVE  ReachedNext(updates'[v].news[i].from, i, v - 1)
    <3>1. i \in Nat /\ updates'[v].news[i].from \in Nat /\ v - 1 \in 0..n
      BY <1>1, <1>3, <2>1
    <3>2. CASE v \in 1..n
      <4>1. Reached(updates'[v].news[i].from, i, v - 1)
        BY <1>5, <2>1, <3>2 DEF NoGap
      <4> QED BY <2>4, <3>1, <4>1
    <3>3. CASE v = n + 1
      <4>1. Reached(updates'[v].news[i].from, i, v - 1)
        BY <1>1, <1>5, <2>1, <3>1, <3>3 DEF NoGap
      <4> QED BY <2>4, <3>1, <4>1
    <3> QED BY <1>1, <3>2, <3>3
  <2>6. ASSUME NEW i \in Nat \ lost
        PROVE  ReachedNext(At(counts', i), i, Len(updates'))
    <3>1. CASE i \in DOMAIN update.news
      BY <1>1, <2>1, <3>1 DEF ReachedNext
    <3>2. CASE i \notin DOMAIN update.news
      <4>1. Reached(At(counts', i), i, n)
        BY <1>5, <3>2 DEF NoGap
      <4>2. At(counts', i) \in Nat /\ n \in 0..n
        BY <1>1, <1>4
      <4>3. ReachedNext(At(counts', i), i, n)
        BY <2>4, <4>1, <4>2
      <4> QED BY <1>1, <2>1, <4>3 DEF ReachedNext
    <3> QED BY <3>1, <3>2
  <2>7. NoGap'
    BY <1>7, <2>1, <2>5, <2>6, NextIsPrime DEF NoGapNext
  <2> QED BY <1>6, <2>2, <2>3, <2>7 DEF Order
<1>8. CASE UNCHANGED updates /\ lost' = lost \cup DOMAIN update.news
  <2>1. NewsBetween'
    <3> SUFFICES ASSUME NEW u \in 1..n, NEW i \in DOMAIN updates[u].news
                 PROVE  /\ At(taken, i) <= updates[u].news[i].from
                        /\ updates[u].news[i].from < updates[u].news[i].to
                        /\ updates[u].news[i].to <= At(counts', i)
      BY <1>8 DEF NewsBetween
    <3>1. updates[u].news[i].to <= At(counts, i) /\ i \in Nat
      BY <1>3, <1>5 DEF NewsBetween
    <3>2. /\ At(taken, i) <= updates[u].news[i].from
          /\ updates[u].news[i].from < updates[u].news[i].to
      BY <1>5 DEF NewsBetween
    <3>3. updates[u].news[i].to \in Nat
      BY <1>3
    <3>4. At(counts, i) \in Nat /\ At(counts', i) \in Nat /\ At(counts, i) <= At(counts', i)
      BY <1>2, <1>4, <3>1
    <3>5. updates[u].news[i].to <= At(counts', i)
      BY <3>1, <3>3, <3>4
    <3> QED BY <3>2, <3>5
  <2>2. NewsAscend'
    BY <1>5, <1>8 DEF NewsAscend
  <2>3. NoGap'
    BY <1>5, <1>8 DEF NoGap, Reached
  <2> QED BY <1>6, <2>1, <2>2, <2>3 DEF Order
<1> QED BY <1>7, <1>8 DEF SendUpdate

LEMMA PlainOrder ==
  ASSUME TypeInv, Order, NEW kind \in {"error", "completed", "logs"},
         SendUpdate(Update(kind, NoNews)), UNCHANGED <<counts, taken>>
  PROVE  Order'
<1>1. Update(kind, NoNews) \in StreamUpdate /\ DOMAIN Update(kind, NoNews).news = {}
  BY NoNewsType
<1> QED BY <1>1, SendOrder

(* A receiver takes the first news of a step index that are on their way.   *)
LEMMA TakeOrder ==
  ASSUME TypeInv, Order, TakeUpdate
  PROVE  Order'
<1> DEFINE n == Len(updates)
           head == updates[1].news
<1>1. /\ updates \in Seq(StreamUpdate) /\ n \in Nat /\ n >= 1
      /\ Len(updates') = n - 1
      /\ \A u \in 1..(n - 1) : updates'[u] = updates[u + 1]
      /\ \A i \in DOMAIN head : At(taken', i) = head[i].to
      /\ \A i \in Nat \ DOMAIN head : At(taken', i) = At(taken, i)
  BY TakeFacts
<1>2. /\ \A u \in 1..n : DOMAIN updates[u].news \subseteq Nat
      /\ \A u \in 1..n : \A i \in DOMAIN updates[u].news :
           updates[u].news[i].from \in Nat /\ updates[u].news[i].to \in Nat
  <2>1. \A u \in 1..n : updates[u] \in StreamUpdate
    BY <1>1, LenProperties
  <2> QED BY <2>1, NewsType DEF News
<1>3. \A i \in Nat : At(counts, i) \in Nat /\ At(taken, i) \in Nat
  BY AtType DEF TypeInv
<1>4. TakenBeforeCounted /\ NewsBetween /\ NewsAscend /\ NoGap
  BY DEF Order
<1>5. UNCHANGED <<counts, lost>>
  BY DEF TakeUpdate
<1>6. \A i \in DOMAIN head :
        i \in Nat /\ At(taken, i) < head[i].to /\ head[i].to <= At(counts, i)
  <2> SUFFICES ASSUME NEW i \in DOMAIN head
               PROVE  i \in Nat /\ At(taken, i) < head[i].to /\ head[i].to <= At(counts, i)
    OBVIOUS
  <2>1. 1 \in 1..n /\ i \in Nat
    BY <1>1, <1>2
  <2>2. /\ At(taken, i) <= head[i].from /\ head[i].from < head[i].to
        /\ head[i].to <= At(counts, i)
    BY <1>4, <2>1 DEF NewsBetween
  <2>3. head[i].from \in Nat /\ head[i].to \in Nat /\ At(taken, i) \in Nat
    BY <1>2, <1>3, <2>1
  <2>4. At(taken, i) < head[i].to
    BY <2>2, <2>3
  <2> QED BY <2>1, <2>2, <2>4
<1>7. \A v \in 2..n : \A i \in DOMAIN head \cap DOMAIN updates[v].news :
        head[i].to <= updates[v].news[i].from
  BY <1>1, <1>4 DEF NewsAscend
<1>8. TakenBeforeCounted'
  BY <1>1, <1>4, <1>5, <1>6 DEF TakenBeforeCounted
<1>9. NewsBetween'
  <2> SUFFICES ASSUME NEW u \in 1..(n - 1), NEW i \in DOMAIN updates'[u].news
               PROVE  /\ At(taken', i) <= updates'[u].news[i].from
                      /\ updates'[u].news[i].from < updates'[u].news[i].to
                      /\ updates'[u].news[i].to <= At(counts', i)
    BY <1>1 DEF NewsBetween
  <2>1. u + 1 \in 2..n /\ u + 1 \in 1..n /\ updates'[u] = updates[u + 1]
    BY <1>1
  <2>2. /\ At(taken, i) <= updates'[u].news[i].from
        /\ updates'[u].news[i].from < updates'[u].news[i].to
        /\ updates'[u].news[i].to <= At(counts, i)
    BY <1>4, <2>1 DEF NewsBetween
  <2>3. i \in Nat
    BY <1>2, <2>1
  <2>4. At(taken', i) <= updates'[u].news[i].from
    BY <1>1, <1>7, <2>1, <2>2, <2>3
  <2> QED BY <1>5, <2>2, <2>4
<1>10. NewsAscend'
  <2> SUFFICES ASSUME NEW u \in 1..(n - 1), NEW v \in 1..(n - 1), u < v,
                      NEW i \in DOMAIN updates'[u].news \cap DOMAIN updates'[v].news
               PROVE  updates'[u].news[i].to <= updates'[v].news[i].from
    BY <1>1 DEF NewsAscend
  <2>1. /\ u + 1 \in 1..n /\ v + 1 \in 1..n /\ u + 1 < v + 1
        /\ updates'[u] = updates[u + 1] /\ updates'[v] = updates[v + 1]
    BY <1>1
  <2> QED BY <1>4, <2>1 DEF NewsAscend
<1>11. ASSUME NEW m \in Nat, NEW i \in Nat, NEW k \in 0..(n - 1), Reached(m, i, k + 1),
              i \in DOMAIN head => head[i].to <= m
       PROVE  ReachedNext(m, i, k)
  <2>1. CASE m = At(taken, i)
    <3>1. i \notin DOMAIN head
      <4>1. SUFFICES ASSUME i \in DOMAIN head PROVE FALSE
        OBVIOUS
      <4>2. head[i].to <= m /\ At(taken, i) < head[i].to
        BY <1>6, <1>11, <4>1
      <4>3. head[i].to \in Nat /\ At(taken, i) \in Nat
        <5>1. 1 \in 1..n
          BY <1>1
        <5> QED BY <1>2, <1>3, <4>1, <5>1
      <4> QED BY <2>1, <4>2, <4>3
    <3> QED BY <1>1, <2>1, <3>1 DEF ReachedNext
  <2>2. CASE \E u \in 1..n : u <= k + 1 /\ i \in DOMAIN updates[u].news /\ updates[u].news[i].to = m
    <3>1. PICK u \in 1..n : u <= k + 1 /\ i \in DOMAIN updates[u].news /\ updates[u].news[i].to = m
      BY <2>2
    <3>2. CASE u = 1
      BY <1>1, <3>1, <3>2 DEF ReachedNext
    <3>3. CASE u # 1
      <4>1. u - 1 \in 1..Len(updates') /\ u - 1 <= k /\ updates'[u - 1] = updates[u]
        BY <1>1, <3>1, <3>3
      <4> QED BY <3>1, <4>1 DEF ReachedNext
    <3> QED BY <3>2, <3>3
  <2> QED BY <1>11, <2>1, <2>2 DEF Reached
<1>12. ASSUME NEW v \in 1..(n - 1), NEW i \in DOMAIN updates'[v].news \ lost
       PROVE  ReachedNext(updates'[v].news[i].from, i, v - 1)
  <2>1. v + 1 \in 2..n /\ v + 1 \in 1..n /\ updates'[v] = updates[v + 1] /\ v - 1 \in 0..(n - 1)
    BY <1>1
  <2>2. Reached(updates'[v].news[i].from, i, (v - 1) + 1)
    <3>1. Reached(updates[v + 1].news[i].from, i, (v + 1) - 1)
      BY <1>4, <1>12, <2>1 DEF NoGap
    <3>2. (v + 1) - 1 = (v - 1) + 1
      OBVIOUS
    <3> QED BY <2>1, <3>1, <3>2
  <2>3. i \in Nat /\ updates'[v].news[i].from \in Nat
    BY <1>2, <2>1
  <2>4. i \in DOMAIN head => head[i].to <= updates'[v].news[i].from
    BY <1>7, <2>1
  <2> QED BY <1>11, <2>1, <2>2, <2>3, <2>4
<1>13. ASSUME NEW i \in Nat \ lost
       PROVE  ReachedNext(At(counts', i), i, Len(updates'))
  <2>1. Reached(At(counts, i), i, (n - 1) + 1)
    BY <1>1, <1>4 DEF NoGap
  <2>2. n - 1 \in 0..(n - 1) /\ At(counts, i) \in Nat
    BY <1>1, <1>3
  <2>3. i \in DOMAIN head => head[i].to <= At(counts, i)
    BY <1>6
  <2>4. ReachedNext(At(counts, i), i, n - 1)
    BY <1>11, <2>1, <2>2, <2>3
  <2> QED BY <1>1, <1>5, <2>4
<1>14. NoGap'
  BY <1>1, <1>5, <1>12, <1>13, NextIsPrime DEF NoGapNext
<1> QED BY <1>8, <1>9, <1>10, <1>14 DEF Order

LEMMA OrderStep == TypeInv /\ Order /\ [Next]_vars => Order'
<1> SUFFICES ASSUME TypeInv, Order, [Next]_vars PROVE Order'
  OBVIOUS
<1>1. CASE GetWorkflowRunFails \/ PollCompleted \/ GetWorkflowRunJobsFails
  BY <1>1, PlainOrder DEF GetWorkflowRunFails, PollCompleted, GetWorkflowRunJobsFails
<1>2. CASE PollActive \/ GetWorkflowRunJobs \/ FetchJobLogsFails \/ FetchJobLogs
  BY <1>2, OrderUntouched DEF PollActive, GetWorkflowRunJobs, FetchJobLogsFails, FetchJobLogs
<1>3. CASE DetectNewLogs
  <2>1. UNCHANGED taken
    BY <1>3 DEF DetectNewLogs
  <2> QED BY <1>3, <2>1, DetectFacts, SendOrder
<1>4. CASE Tick \/ LoopExits \/ Cancel \/ Close
  BY <1>4, OrderUntouched DEF Tick, LoopExits, Cancel, Close
<1>5. CASE TakeUpdate
  BY <1>5, TakeOrder
<1>6. CASE TakeZero \/ HandleUpdate \/ CloseViewer \/ StartLogStream
  BY <1>6, OrderUntouched DEF TakeZero, HandleUpdate, CloseViewer, StartLogStream
<1>7. CASE RunCompletes \/ \E j \in Jobs : JobStarts(j) \/ LogGrows(j)
  BY <1>7, OrderUntouched DEF RunCompletes, JobStarts, LogGrows
<1>8. CASE UNCHANGED vars
  BY <1>8, OrderUntouched DEF vars
<1> QED BY <1>1, <1>2, <1>3, <1>4, <1>5, <1>6, <1>7, <1>8 DEF Next, Poll

(* Whatever fails, shifts or grows while the jobs are fetched one by one,   *)
(* the next update to be received carries on, for each step index, where    *)
(* the last one received left off, or further on if one was dropped.        *)
THEOREM LinesArriveInOrder == Spec => []LinesInOrder
<1>1. Init => Order
  <2> SUFFICES ASSUME Init PROVE Order
    OBVIOUS
  <2>1. updates = <<>> /\ Len(updates) = 0 /\ \A i \in Nat : At(counts, i) = 0 /\ At(taken, i) = 0
    BY DEF Init, At, NoSteps
  <2> QED BY <2>1 DEF Order, TakenBeforeCounted, NewsBetween, NewsAscend, NoGap, Reached
<1>2. TypeInv /\ Order => LinesInOrder
  <2> SUFFICES ASSUME TypeInv, Order, updates # <<>>, NEW i \in DOMAIN Head(updates).news
               PROVE  /\ At(taken, i) <= Head(updates).news[i].from
                      /\ Head(updates).news[i].from < Head(updates).news[i].to
                      /\ i \notin lost => At(taken, i) = Head(updates).news[i].from
    BY DEF LinesInOrder
  <2>1. updates \in Seq(StreamUpdate) /\ 1 \in 1..Len(updates) /\ Head(updates) = updates[1]
    BY LenProperties, HeadTailProperties DEF TypeInv, ChannelType
  <2>2. NewsBetween /\ NoGap
    BY DEF Order
  <2>3. /\ At(taken, i) <= updates[1].news[i].from
        /\ updates[1].news[i].from < updates[1].news[i].to
    BY <2>1, <2>2 DEF NewsBetween
  <2>4. i \notin lost => Reached(updates[1].news[i].from, i, 1 - 1)
    BY <2>1, <2>2 DEF NoGap
  <2> QED BY <2>1, <2>3, <2>4 DEF Reached
<1> QED BY <1>1, <1>2, TypeInit, TypeStep, OrderStep, PTL DEF Spec
=============================================================================
