------------------------ MODULE BackupSchedulerProofs ------------------------
(***************************************************************************)
(* BackupScheduler for any volumes, nodes, limit, faults and moves.        *)
(***************************************************************************)
EXTENDS BackupScheduler, SFCallProofs, FiniteSetTheorems, SequenceTheorems

(***************************************************************************)
(* The three ways in which the jobs of the cluster change.                 *)
(***************************************************************************)
Keeps(h) == /\ jobs'[h].vol = jobs[h].vol
            /\ jobs'[h].node = jobs[h].node

JobsSame == /\ jobs' \in Seq(Job)
            /\ DOMAIN jobs' = DOMAIN jobs
            /\ \A h \in DOMAIN jobs : Keeps(h) /\ jobs'[h].status = jobs[h].status

JobEnded(h) == /\ h \in DOMAIN jobs
               /\ jobs' \in Seq(Job)
               /\ DOMAIN jobs' = DOMAIN jobs
               /\ Running(h) /\ jobs'[h].status \in Final
               /\ \A k \in DOMAIN jobs :
                    Keeps(k) /\ (k # h => jobs'[k].status = jobs[k].status)
JobsEnd == \E h \in DOMAIN jobs : JobEnded(h)

JobsGrow(v) == /\ jobs' \in Seq(Job)
               /\ DOMAIN jobs' = DOMAIN jobs \cup {Len(jobs) + 1}
               /\ Len(jobs) + 1 \notin DOMAIN jobs
               /\ \A h \in DOMAIN jobs :
                    Keeps(h) /\ jobs'[h].status = jobs[h].status
               /\ jobs'[Len(jobs) + 1].vol = v
               /\ jobs'[Len(jobs) + 1].node = host[v]
               /\ jobs'[Len(jobs) + 1].status = "running"

LEMMA SameJobs == ASSUME jobs \in Seq(Job), jobs' = jobs PROVE JobsSame
BY DEF JobsSame, Keeps

LEMMA JobType == ASSUME jobs \in Seq(Job), NEW h \in DOMAIN jobs
                 PROVE  jobs[h] \in Job /\ h \in 1 .. Len(jobs)
BY ElementOfSeq, LenProperties

LEMMA PollJobs ==
  ASSUME jobs \in Seq(Job), NEW h, ExecutePoll(h) PROVE JobsSame
<1>1. CASE Status(h) \in Final
  <2>1. h \in DOMAIN jobs
    BY <1>1 DEF Status, Stored, Final
  <2>2. jobs[h] \in Job /\ h \in 1 .. Len(jobs)
    BY <2>1, JobType
  <2> DEFINE e == [jobs[h] EXCEPT !.stored = FALSE]
  <2>3. e \in Job /\ e.vol = jobs[h].vol /\ e.node = jobs[h].node
          /\ e.status = jobs[h].status
    BY <2>2 DEF Job
  <2>4. jobs' = [jobs EXCEPT ![h] = e]
    BY <1>1 DEF ExecutePoll
  <2> HIDE DEF e
  <2>5. jobs' \in Seq(Job)
    BY <2>2, <2>3, <2>4, ExceptSeq
  <2>6. DOMAIN jobs' = DOMAIN jobs
    BY <2>4
  <2>7. \A k \in DOMAIN jobs : jobs'[k] = IF k = h THEN e ELSE jobs[k]
    BY <2>1, <2>4
  <2> QED BY <2>3, <2>5, <2>6, <2>7 DEF JobsSame, Keeps
<1>2. CASE Status(h) \notin Final
  BY <1>2, SameJobs DEF ExecutePoll
<1> QED BY <1>1, <1>2

LEMMA EndJobs ==
  ASSUME jobs \in Seq(Job), NEW h \in DOMAIN jobs, JobEnds(h) PROVE JobsEnd
<1>1. PICK s \in Final : jobs' = [jobs EXCEPT ![h].status = s]
  BY DEF JobEnds
<1>2. jobs[h] \in Job /\ h \in 1 .. Len(jobs)
  BY JobType
<1> DEFINE e == [jobs[h] EXCEPT !.status = s]
<1>3. e \in Job /\ e.vol = jobs[h].vol /\ e.node = jobs[h].node /\ e.status = s
  BY <1>2 DEF Job
<1>4. jobs' = [jobs EXCEPT ![h] = e]
  BY <1>1
<1> HIDE DEF e
<1>5. jobs' \in Seq(Job)
  BY <1>2, <1>3, <1>4, ExceptSeq
<1>6. DOMAIN jobs' = DOMAIN jobs
  BY <1>4
<1>7. \A k \in DOMAIN jobs : jobs'[k] = IF k = h THEN e ELSE jobs[k]
  BY <1>4
<1>8. Keeps(h) /\ Running(h) /\ jobs'[h].status \in Final
  BY <1>3, <1>7 DEF Keeps, JobEnds
<1>9. \A k \in DOMAIN jobs : k # h => Keeps(k) /\ jobs'[k].status = jobs[k].status
  BY <1>7 DEF Keeps
<1> QED BY <1>5, <1>6, <1>8, <1>9 DEF JobsEnd, JobEnded

LEMMA StartJobs ==
  ASSUME TypeOK, NEW v \in Volumes, ExecuteStart(v), StartRefusal(v) = None
  PROVE  JobsGrow(v)
<1> DEFINE e == [vol |-> v, node |-> host[v], status |-> "running", stored |-> TRUE]
<1>1. e \in Job /\ e.vol = v /\ e.node = host[v] /\ e.status = "running"
  BY DEF Job, TypeOK
<1>2. jobs' = Append(jobs, e) /\ jobs \in Seq(Job)
  BY DEF ExecuteStart, TypeOK
<1> HIDE DEF e
<1>3. /\ jobs' \in Seq(Job)
      /\ Len(jobs') = Len(jobs) + 1
      /\ \A h \in 1 .. Len(jobs) : jobs'[h] = jobs[h]
      /\ jobs'[Len(jobs) + 1] = e
  BY <1>1, <1>2, AppendProperties
<1>4. /\ DOMAIN jobs = 1 .. Len(jobs) /\ Len(jobs) \in Nat
      /\ DOMAIN jobs' = 1 .. Len(jobs')
  BY <1>2, <1>3, LenProperties
<1>5. DOMAIN jobs' = DOMAIN jobs \cup {Len(jobs) + 1} /\ Len(jobs) + 1 \notin DOMAIN jobs
  BY <1>3, <1>4
<1> QED BY <1>1, <1>3, <1>4, <1>5 DEF JobsGrow, Keeps
-----------------------------------------------------------------------------
(***************************************************************************)
(* What a poll and a start come to.                                        *)
(***************************************************************************)
LEMMA FinalPoll ==
  ASSUME NEW j, NEW fate \in Fates, PollStatus(j, fate) \in Final
  PROVE  /\ Stored(j.handle)
         /\ PollStatus(j, fate) = jobs[j.handle].status
         /\ j.handle \in DOMAIN jobs
<1>1. PollStatus(j, fate) = Status(j.handle)
  BY DEF PollStatus, SdkResult, Final, ZeroStatus
<1> QED BY <1>1 DEF Status, Stored, Final

LEMMA GoodStart ==
  ASSUME TypeOK, NEW v \in Volumes, NEW fate \in Fates,
         Call(fate, ExecuteStart(v)), SdkError(fate, StartRefusal(v)) = None
  PROVE  LET handle == SdkResult(fate, StartRefusal(v), Len(jobs) + 1, NoHandle)
         IN  \/ JobsGrow(v) /\ faults' = faults /\ handle = Len(jobs) + 1
             \/ (JobsSame \/ JobsGrow(v)) /\ faults' = faults + 1 /\ handle = NoHandle
<1>1. jobs' = jobs \/ ExecuteStart(v)
  BY DEF Call, clusterVars
<1>2. JobsSame \/ JobsGrow(v)
  <2>1. CASE jobs' = jobs
    BY <2>1, SameJobs DEF TypeOK
  <2>2. CASE ExecuteStart(v) /\ StartRefusal(v) = None
    BY <2>2, StartJobs
  <2>3. CASE ExecuteStart(v) /\ StartRefusal(v) # None
    BY <2>3, SameJobs DEF ExecuteStart, TypeOK
  <2> QED BY <1>1, <2>1, <2>2, <2>3
<1>3. CASE fate = "delivered"
  <2>1. StartRefusal(v) = None
    BY <1>3 DEF SdkError
  <2>2. ExecuteStart(v) /\ faults' = faults
    BY <1>3 DEF Call, Meet
  <2>3. JobsGrow(v)
    BY <2>1, <2>2, StartJobs
  <2> QED BY <1>3, <2>1, <2>2, <2>3 DEF SdkResult
<1>4. CASE fate # "delivered"
  BY <1>2, <1>4 DEF SdkResult, Call, Meet
<1> QED BY <1>3, <1>4

LEMMA BadStart ==
  ASSUME TypeOK, NEW v \in Volumes, NEW fate \in Fates,
         Call(fate, ExecuteStart(v)), SdkError(fate, StartRefusal(v)) # None
  PROVE  \/ JobsSame /\ faults' \in {faults, faults + 1}
         \/ JobsGrow(v) /\ faults' = faults + 1
<1>1. jobs' = jobs \/ ExecuteStart(v)
  BY DEF Call, clusterVars
<1>2. faults' = IF fate = "delivered" THEN faults ELSE faults + 1
  BY DEF Call, Meet
<1>3. CASE jobs' = jobs
  BY <1>2, <1>3, SameJobs DEF TypeOK
<1>4. CASE ExecuteStart(v) /\ StartRefusal(v) # None
  BY <1>2, <1>4, SameJobs DEF ExecuteStart, TypeOK
<1>5. CASE ExecuteStart(v) /\ StartRefusal(v) = None
  <2>1. fate # "delivered"
    BY <1>5 DEF SdkError
  <2> QED BY <1>2, <1>5, <2>1, StartJobs
<1> QED BY <1>1, <1>3, <1>4, <1>5
-----------------------------------------------------------------------------
LEMMA MeetType ==
  ASSUME TypeOK, NEW fate, Meet(fate) PROVE faults' \in 0 .. MaxFaults
<1>1. MaxFaults \in Nat /\ faults \in 0 .. MaxFaults
  BY BackupAssumption DEF TypeOK
<1> QED BY <1>1 DEF Meet

LEMMA MaxJobsType ==
  ASSUME NEW fate PROVE MaxJobsFor(SdkResult(fate, None, Cap, 0)) \in Nat
<1>1. Cap \in Nat
  BY BackupAssumption
<1>2. SdkResult(fate, None, Cap, 0) \in Nat
  BY <1>1 DEF SdkResult
<1> QED BY <1>2 DEF MaxJobsFor, Reduced

LEMMA InitTypes == Init => TypeOK
<1> SUFFICES ASSUME Init PROVE TypeOK
  OBVIOUS
<1>1. MaxFaults \in Nat /\ MaxMoves \in Nat
  BY BackupAssumption
<1>2. faults \in 0 .. MaxFaults /\ moves \in 0 .. MaxMoves
  BY <1>1 DEF Init
<1>3. jobs \in Seq(Job)
  BY EmptySeq DEF Init
<1>4. /\ load \in [Nodes -> Int]
      /\ report \in [Volumes -> {"none"} \cup Final]
      /\ volToNode \in [Volumes -> Nodes \cup {NoNode}]
  BY DEF Init
<1> QED BY <1>2, <1>3, <1>4 DEF Init, TypeOK

LEMMA StepTypes == ASSUME TypeOK, [Next]_vars PROVE TypeOK'
<1>1. ASSUME NEW h \in DOMAIN jobs, JobEnds(h) PROVE TypeOK'
  <2>1. jobs' \in Seq(Job)
    BY <1>1, EndJobs DEF TypeOK, JobsEnd, JobEnded
  <2> QED BY <1>1, <2>1 DEF TypeOK, JobEnds, tableVars, passVars
<1>2. ASSUME NEW v \in Volumes, NEW n \in Nodes, Move(v, n) PROVE TypeOK'
  <2>1. moves' \in 0 .. MaxMoves
    BY <1>2, BackupAssumption DEF TypeOK, Move
  <2> QED BY <1>2, <2>1 DEF TypeOK, Move, tableVars, passVars
<1>3. CASE PollsDone
  BY <1>3 DEF TypeOK, PollsDone, tableVars, clusterVars
<1>4. CASE PassDone
  BY <1>4 DEF TypeOK, PassDone, NextPass, tableVars, clusterVars
<1>5. ASSUME NEW v \in Volumes, NodeFull(v) PROVE TypeOK'
  BY <1>5 DEF TypeOK, NodeFull, LeaveForNextPass, tableVars, clusterVars
<1>6. ASSUME NEW fate \in Fates, GetLimits(fate) PROVE TypeOK'
  BY <1>6, MeetType, MaxJobsType DEF TypeOK, GetLimits, passVars, clusterVars
<1>7. ASSUME NEW fate \in Fates, GetReport(fate) PROVE TypeOK'
  <2>1. volToNode' \in [Volumes -> Nodes \cup {NoNode}] /\ known' \subseteq Nodes
    BY <1>7 DEF TypeOK, GetReport
  <2> QED BY <1>7, <2>1, MeetType DEF TypeOK, GetReport, NextPass, clusterVars
<1>8. ASSUME NEW fate \in Fates, NEW j \in toPoll, Poll(j, fate) PROVE TypeOK'
  <2>1. jobs' \in Seq(Job) /\ host' = host /\ moves' = moves
    BY <1>8, PollJobs DEF TypeOK, Poll, Call, ExecutePoll, JobsSame, clusterVars
  <2>2. faults' \in 0 .. MaxFaults
    BY <1>8, MeetType DEF Poll, Call
  <2>3. j \in ActiveJob /\ load \in [Nodes -> Int]
    BY DEF TypeOK
  <2>4. load' \in [Nodes -> Int]
    <3>1. load' = load \/ load' = [load EXCEPT ![j.node] = @ - 1]
      BY <1>8 DEF Poll, Decrement
    <3> QED BY <2>3, <3>1
  <2>6. report' \in [Volumes -> {"none"} \cup Final]
    BY <1>8 DEF TypeOK, Poll
  <2>5. active' \subseteq ActiveJob /\ toPoll' \subseteq active'
    BY <1>8 DEF TypeOK, Poll
  <2> QED BY <1>8, <2>1, <2>2, <2>4, <2>5, <2>6 DEF TypeOK, Poll, tableVars
<1>9. ASSUME NEW fate \in Fates, NEW v \in Volumes, Locate(v, fate) PROVE TypeOK'
  <2>1. volToNode' \in [Volumes -> Nodes \cup {NoNode}]
    <3>1. SdkResult(fate, None, host[v], NoNode) \in Nodes \cup {NoNode}
      BY DEF TypeOK, SdkResult
    <3> QED BY <1>9, <3>1 DEF TypeOK, Locate
  <2>2. pending' \subseteq Volumes /\ todo' \subseteq pending'
    BY <1>9 DEF TypeOK, Locate, LeaveForNextPass
  <2> QED BY <1>9, <2>1, <2>2, MeetType DEF TypeOK, Locate, clusterVars
<1>10. ASSUME NEW fate \in Fates, NEW v \in Volumes, Start(v, fate) PROVE TypeOK'
  <2>1. jobs' \in Seq(Job)
    BY <1>10, GoodStart, BadStart DEF Start, JobsSame, JobsGrow
  <2>2. faults' \in 0 .. MaxFaults
    BY <1>10, MeetType DEF Start, Call
  <2>3. volToNode[v] \in Nodes /\ Len(jobs) \in Nat
    BY <1>10, LenProperties DEF TypeOK, Start
  <2>4. active' \subseteq ActiveJob /\ toPoll' \subseteq active'
    BY <1>10, <2>3 DEF TypeOK, Start, SdkResult, NoHandle, ActiveJob
  <2>5. load' \in [Nodes -> Int]
    BY <1>10, <2>3 DEF TypeOK, Start
  <2>6. pending' \subseteq Volumes /\ todo' \subseteq pending'
    BY <1>10 DEF TypeOK, Start, LeaveForNextPass, TakeUp
  <2>7. UNCHANGED <<host, moves, phase, maxJobs, known, volToNode, report>>
    BY <1>10 DEF Start, Call, ExecuteStart, clusterVars, tableVars
  <2> QED BY <2>1, <2>2, <2>4, <2>5, <2>6, <2>7 DEF TypeOK
<1>11. CASE UNCHANGED vars
  BY <1>11 DEF TypeOK, vars, clusterVars, tableVars, passVars
<1> QED BY <1>1, <1>2, <1>3, <1>4, <1>5, <1>6, <1>7, <1>8, <1>9, <1>10, <1>11
        DEF Next, Program, Cluster

(***************************************************************************)
(* The state is well typed.                                                *)
(***************************************************************************)
THEOREM TypeCorrect == Spec => []TypeOK
<1> QED BY InitTypes, StepTypes, PTL DEF Spec
-----------------------------------------------------------------------------
(***************************************************************************)
(* The books of the program.                                               *)
(***************************************************************************)
BookInv ==
  /\ \A j, k \in active : j.vol = k.vol => j = k
  /\ \A j \in active : j.vol \notin pending /\ report[j.vol] = "none"
  /\ \A v \in pending : report[v] = "none"
  /\ \A v \in Volumes : \/ v \in pending
                        \/ report[v] # "none"
                        \/ \E j \in active : j.vol = v

(***************************************************************************)
(* An active job has the handle of a job of its volume, or the zero one,   *)
(* and counts on the node where its volume was located.                    *)
(***************************************************************************)
HandleInv ==
  \A j \in active :
    /\ j.handle # NoHandle =>
         j.handle \in DOMAIN jobs /\ jobs[j.handle].vol = j.vol
    /\ j.node = volToNode[j.vol]

EarlyInv == phase \in {"limits", "report"} => active = {}

LoadInv == /\ IsFiniteSet(active)
           /\ LoadCounts
           /\ \A n \in Nodes : load[n] <= maxJobs

(***************************************************************************)
(* The steps that touch the books, for those invariants that only look at  *)
(* them.                                                                   *)
(***************************************************************************)
Ended(j, s) == /\ j \in active
               /\ j.handle \in DOMAIN jobs
               /\ s = jobs[j.handle].status
               /\ s \in Final
               /\ active' = active \ {j}
               /\ load' = [load EXCEPT ![j.node] = @ - 1]
               /\ report' = [report EXCEPT ![j.vol] = s]
               /\ UNCHANGED <<pending, volToNode, maxJobs, host, moves, phase>>
               /\ JobsSame
               /\ faults' = faults

Started(v, h) == /\ v \in pending
                 /\ volToNode[v] \in Nodes
                 /\ load[volToNode[v]] < maxJobs
                 /\ active' = active \cup
                      {[vol |-> v, node |-> volToNode[v], handle |-> h]}
                 /\ load' = [load EXCEPT ![volToNode[v]] = @ + 1]
                 /\ pending' = pending \ {v}
                 /\ phase = "schedule"
                 /\ UNCHANGED <<report, volToNode, maxJobs, host, moves, phase>>
                 /\ \/ JobsGrow(v) /\ faults' = faults /\ h = Len(jobs) + 1
                    \/ /\ JobsSame \/ JobsGrow(v)
                       /\ faults' = faults + 1
                       /\ h = NoHandle

Books == <<active, load, pending, report>>

Leaves == /\ UNCHANGED <<Books, volToNode, maxJobs, host, moves, phase>>
          /\ \/ JobsSame /\ faults' \in {faults, faults + 1}
             \/ JobsEnd /\ faults' = faults
             \/ \E v \in Volumes : JobsGrow(v) /\ faults' = faults + 1

Moves(v) == /\ UNCHANGED <<Books, volToNode, maxJobs, phase, jobs, faults>>
            /\ moves' = moves + 1
            /\ \E n \in Nodes : host' = [host EXCEPT ![v] = n]

Locates(v) == /\ v \in pending
              /\ volToNode[v] = NoNode
              /\ volToNode' = [volToNode EXCEPT ![v] = host[v]]
              /\ UNCHANGED <<Books, maxJobs, host, moves, phase, jobs>>
              /\ faults' \in {faults, faults + 1}

Prepares == /\ phase \in {"limits", "report"}
            /\ phase' # "limits"
            /\ \/ maxJobs' = maxJobs
               \/ /\ phase = "limits" /\ maxJobs' \in Nat
                  /\ "cut" \notin Fates => maxJobs' = MaxJobsFor(Cap)
            /\ phase' = "done" => pending = {} /\ active = {}
            /\ \/ volToNode' = volToNode
               \/ \A v \in Volumes : volToNode'[v] \in {NoNode, host[v]}
            /\ UNCHANGED <<Books, host, moves, jobs>>
            /\ faults' \in {faults, faults + 1}

Turns == /\ phase' \notin {"limits", "report"}
         /\ phase' = "done" => pending = {} /\ active = {}
         /\ UNCHANGED <<Books, volToNode, maxJobs, host, moves, jobs, faults>>

LEMMA PollForm ==
  ASSUME TypeOK, NEW fate \in Fates, NEW j \in toPoll, Poll(j, fate)
  PROVE  Leaves \/ \E s : Ended(j, s)
<1>1. JobsSame /\ host' = host /\ moves' = moves
  BY PollJobs, SameJobs DEF Poll, Call, ExecutePoll, clusterVars, TypeOK
<1>2. faults' \in {faults, faults + 1}
  BY DEF Poll, Call, Meet
<1>3. CASE PollStatus(j, fate) \in Final
  <2>1. fate = "delivered"
    BY <1>3 DEF PollStatus, SdkResult, Final, ZeroStatus
  <2>2. faults' = faults
    BY <2>1 DEF Poll, Call, Meet
  <2>3. Ended(j, PollStatus(j, fate))
    BY <1>1, <1>3, <2>2, FinalPoll DEF Poll, Decrement, Ended, tableVars, TypeOK
  <2> QED BY <2>3
<1>4. CASE PollStatus(j, fate) \notin Final
  BY <1>1, <1>2, <1>4 DEF Poll, Leaves, Books, tableVars
<1> QED BY <1>3, <1>4

LEMMA StartForm ==
  ASSUME TypeOK, NEW fate \in Fates, NEW v \in Volumes, Start(v, fate)
  PROVE  Leaves \/ \E h : Started(v, h)
<1> DEFINE err    == SdkError(fate, StartRefusal(v))
           handle == SdkResult(fate, StartRefusal(v), Len(jobs) + 1, NoHandle)
<1>1. /\ Call(fate, ExecuteStart(v)) /\ phase = "schedule"
      /\ v \in pending /\ volToNode[v] \in Nodes /\ load[volToNode[v]] < maxJobs
      /\ UNCHANGED <<report, volToNode, maxJobs, phase>>
  BY DEF Start, HasRoom, tableVars, TypeOK
<1>2. host' = host /\ moves' = moves
  BY <1>1 DEF Call, ExecuteStart, clusterVars
<1>3. CASE err = None
  <2>1. /\ active' = active \cup
              {[vol |-> v, node |-> volToNode[v], handle |-> handle]}
        /\ load' = [load EXCEPT ![volToNode[v]] = @ + 1]
        /\ pending' = pending \ {v}
    BY <1>3 DEF Start, TakeUp
  <2>2. \/ JobsGrow(v) /\ faults' = faults /\ handle = Len(jobs) + 1
        \/ (JobsSame \/ JobsGrow(v)) /\ faults' = faults + 1 /\ handle = NoHandle
    BY <1>1, <1>3, GoodStart
  <2> HIDE DEF handle
  <2>3. Started(v, handle)
    BY <1>1, <1>2, <2>1, <2>2 DEF Started
  <2> QED BY <2>3
<1>4. CASE err # None
  <2>1. UNCHANGED Books
    BY <1>4 DEF Start, LeaveForNextPass, Books
  <2>2. \/ JobsSame /\ faults' \in {faults, faults + 1}
        \/ JobsGrow(v) /\ faults' = faults + 1
    BY <1>1, <1>4, BadStart
  <2> QED BY <1>1, <1>2, <2>1, <2>2 DEF Leaves
<1> QED BY <1>3, <1>4

(***************************************************************************)
(* Every step is one of these.                                             *)
(***************************************************************************)
Form == \/ Leaves \/ Prepares \/ Turns
        \/ \E v \in Volumes : Moves(v) \/ Locates(v)
        \/ \E j \in active, s \in Final : Ended(j, s)
        \/ \E v \in Volumes, h \in Nat : Started(v, h)

LEMMA StepForm == ASSUME TypeOK, [Next]_vars PROVE Form
<1>0. TypeOK' /\ Len(jobs) \in Nat
  BY StepTypes, LenProperties DEF TypeOK
<1>1. ASSUME NEW h \in DOMAIN jobs, JobEnds(h) PROVE Leaves
  BY <1>1, EndJobs DEF TypeOK, JobEnds, Leaves, Books, tableVars, passVars
<1>2. ASSUME NEW v \in Volumes, NEW n \in Nodes, Move(v, n) PROVE Moves(v)
  BY <1>2 DEF Move, Moves, Books, tableVars, passVars
<1>3. ASSUME PollsDone PROVE Turns
  BY <1>3 DEF PollsDone, Turns, Books, tableVars, clusterVars
<1>4. ASSUME PassDone PROVE Turns
  BY <1>4 DEF PassDone, NextPass, Turns, Books, tableVars, clusterVars
<1>5. ASSUME NEW v \in Volumes, NodeFull(v) PROVE Leaves
  BY <1>5, SameJobs DEF NodeFull, LeaveForNextPass, Leaves, Books, tableVars,
                        clusterVars, TypeOK
<1>6. ASSUME NEW fate \in Fates, GetLimits(fate) PROVE Prepares
  <2>1. /\ phase = "limits"
        /\ phase' \notin {"limits", "done"}
        /\ maxJobs' \in Nat
        /\ faults' \in {faults, faults + 1}
    BY <1>0, <1>6 DEF GetLimits, Meet, TypeOK
  <2>3. ASSUME "cut" \notin Fates, maxJobs' # maxJobs
        PROVE  maxJobs' = MaxJobsFor(Cap)
    <3> DEFINE limits == SdkResult(fate, None, Cap, 0)
    <3>1. SdkError(fate, None) = None /\ maxJobs' = MaxJobsFor(limits)
      BY <1>6, <2>3 DEF GetLimits
    <3>2. limits = Cap
      BY <1>6, <2>3, <3>1, NoErrorHasResult
    <3> QED BY <3>1, <3>2
  <2>2. UNCHANGED <<volToNode, Books, host, moves, jobs>>
    BY <1>6 DEF GetLimits, Books, passVars, clusterVars
  <2> QED BY <2>1, <2>2, <2>3 DEF Prepares
<1>7. ASSUME NEW fate \in Fates, GetReport(fate) PROVE Prepares
  <2>1. /\ phase = "report" /\ phase' # "limits"
        /\ Meet(fate)
        /\ phase' = "done" => pending = {} /\ active = {}
        /\ UNCHANGED <<clusterVars, moves, maxJobs, pending, todo, active, load,
                       report>>
    BY <1>7 DEF GetReport, NextPass
  <2>2. \A v \in Volumes : volToNode'[v] \in {NoNode, host[v]}
    BY <1>7 DEF GetReport
  <2> QED BY <2>1, <2>2 DEF Prepares, Meet, Books, clusterVars
<1>8. ASSUME NEW fate \in Fates, NEW j \in toPoll, Poll(j, fate) PROVE Form
  <2>1. j \in active
    BY DEF TypeOK
  <2> QED BY <1>8, <2>1, PollForm DEF Form, Ended
<1>9. ASSUME NEW fate \in Fates, NEW v \in Volumes, Locate(v, fate)
      PROVE  Leaves \/ Locates(v)
  <2>1. faults' \in {faults, faults + 1} /\ v \in pending
    BY <1>9 DEF Locate, Meet, TypeOK
  <2>2. /\ UNCHANGED <<Books, maxJobs, host, moves, phase, jobs>>
        /\ volToNode[v] = NoNode
    BY <1>9 DEF Locate, LeaveForNextPass, Books, clusterVars
  <2>3. SdkResult(fate, None, host[v], NoNode) \in known
          => SdkResult(fate, None, host[v], NoNode) = host[v]
    BY BackupAssumption DEF TypeOK, SdkResult
  <2>4. volToNode' = volToNode \/ volToNode' = [volToNode EXCEPT ![v] = host[v]]
    BY <1>9, <2>3 DEF Locate
  <2>5. JobsSame
    BY <2>2, SameJobs DEF TypeOK
  <2> QED BY <2>1, <2>2, <2>4, <2>5 DEF Leaves, Locates
<1>10. ASSUME NEW fate \in Fates, NEW v \in Volumes, Start(v, fate) PROVE Form
  <2>1. ASSUME NEW h, Started(v, h) PROVE h \in Nat
    BY <1>0, <2>1 DEF Started, NoHandle
  <2> QED BY <1>10, <2>1, StartForm DEF Form
<1>11. ASSUME UNCHANGED vars PROVE Leaves
  BY <1>11, SameJobs DEF vars, Leaves, Books, clusterVars, tableVars, passVars, TypeOK
<1> QED BY <1>1, <1>2, <1>3, <1>4, <1>5, <1>6, <1>7, <1>8, <1>9, <1>10, <1>11
        DEF Next, Program, Cluster, Form
-----------------------------------------------------------------------------
(***************************************************************************)
(* The invariants of the books.                                            *)
(***************************************************************************)
Inv == TypeOK /\ BookInv /\ HandleInv /\ EarlyInv /\ LoadInv

LEMMA JobsKept ==
  ASSUME Form, NEW h \in DOMAIN jobs
  PROVE  h \in DOMAIN jobs' /\ jobs'[h].vol = jobs[h].vol
<1>1. JobsSame \/ JobsEnd \/ (\E v \in Volumes : JobsGrow(v)) \/ jobs' = jobs
  BY DEF Form, Leaves, Prepares, Turns, Moves, Locates, Ended, Started
<1> QED BY <1>1 DEF JobsSame, JobsEnd, JobEnded, JobsGrow, Keeps

LEMMA InitInv == Init => Inv
<1> SUFFICES ASSUME Init PROVE Inv
  OBVIOUS
<1>1. TypeOK
  BY InitTypes
<1>2. BookInv /\ HandleInv /\ EarlyInv
  BY DEF Init, BookInv, HandleInv, EarlyInv
<1>3. \A n \in Nodes : ActiveOn(n) = {} /\ load[n] = 0
  BY DEF Init, ActiveOn
<1>4. IsFiniteSet(active) /\ maxJobs = 0
  BY FS_EmptySet DEF Init
<1>5. LoadInv
  BY <1>3, <1>4, FS_EmptySet DEF LoadInv, LoadCounts
<1> QED BY <1>1, <1>2, <1>5 DEF Inv

LEMMA StepBooks == ASSUME Inv, Form PROVE BookInv'
<1>1. CASE UNCHANGED Books
  BY <1>1 DEF Inv, BookInv, Books
<1>2. ASSUME NEW j \in active, NEW s \in Final, Ended(j, s) PROVE BookInv'
  <2>1. /\ active' = active \ {j}
        /\ report' = [report EXCEPT ![j.vol] = s]
        /\ pending' = pending
        /\ s # "none"
    BY <1>2 DEF Ended, Final
  <2>2. j.vol \in Volumes /\ report \in [Volumes -> {"none"} \cup Final]
    BY DEF Inv, TypeOK, ActiveJob
  <2> QED BY <2>1, <2>2 DEF Inv, BookInv, TypeOK, ActiveJob
<1>3. ASSUME NEW v \in Volumes, NEW h \in Nat, Started(v, h) PROVE BookInv'
  <2> DEFINE e == [vol |-> v, node |-> volToNode[v], handle |-> h]
  <2>1. /\ active' = active \cup {e}
        /\ report' = report
        /\ pending' = pending \ {v}
        /\ v \in pending
    BY <1>3 DEF Started
  <2>2. e.vol = v
    OBVIOUS
  <2> HIDE DEF e
  <2>3. \A j \in active : j.vol # v
    BY <2>1 DEF Inv, BookInv
  <2>4. report[v] = "none"
    BY <2>1 DEF Inv, BookInv
  <2> QED BY <2>1, <2>2, <2>3, <2>4 DEF Inv, BookInv, TypeOK
<1> QED BY <1>1, <1>2, <1>3 DEF Form, Leaves, Prepares, Turns, Moves, Locates

LEMMA StepHandles == ASSUME Inv, Form PROVE HandleInv'
<1>1. ASSUME NEW j \in active, j.handle # NoHandle
      PROVE  j.handle \in DOMAIN jobs' /\ jobs'[j.handle].vol = j.vol
  BY <1>1, JobsKept DEF Inv, HandleInv
<1>2. ASSUME active' \subseteq active, volToNode' = volToNode PROVE HandleInv'
  BY <1>1, <1>2 DEF Inv, HandleInv
<1>3. CASE Leaves \/ Turns \/ \E v \in Volumes : Moves(v)
  BY <1>2, <1>3 DEF Leaves, Turns, Moves, Books
<1>4. CASE Prepares
  <2>1. active' = {}
    BY <1>4 DEF Prepares, Books, Inv, EarlyInv
  <2> QED BY <2>1 DEF HandleInv
<1>5. ASSUME NEW v \in Volumes, Locates(v) PROVE HandleInv'
  <2>1. active' = active /\ \A j \in active : j.vol # v /\ j.vol \in Volumes
    BY <1>5 DEF Locates, Books, Inv, BookInv, TypeOK, ActiveJob
  <2>2. \A j \in active : volToNode'[j.vol] = volToNode[j.vol]
    BY <1>5, <2>1 DEF Locates, Inv, TypeOK
  <2> QED BY <1>1, <2>1, <2>2 DEF Inv, HandleInv
<1>6. ASSUME NEW j \in active, NEW s \in Final, Ended(j, s) PROVE HandleInv'
  BY <1>2, <1>6 DEF Ended
<1>7. ASSUME NEW v \in Volumes, NEW h \in Nat, Started(v, h) PROVE HandleInv'
  <2> DEFINE e == [vol |-> v, node |-> volToNode[v], handle |-> h]
  <2>1. active' = active \cup {e} /\ volToNode' = volToNode
    BY <1>7 DEF Started
  <2>2. e.vol = v /\ e.node = volToNode[v] /\ e.handle = h
    OBVIOUS
  <2>3. h # NoHandle => h \in DOMAIN jobs' /\ jobs'[h].vol = v
    BY <1>7 DEF Started, JobsGrow
  <2> HIDE DEF e
  <2> QED BY <1>1, <2>1, <2>2, <2>3 DEF Inv, HandleInv
<1> QED BY <1>3, <1>4, <1>5, <1>6, <1>7 DEF Form

LEMMA StepEarly == ASSUME Inv, Form PROVE EarlyInv'
BY DEF Form, Leaves, Prepares, Turns, Moves, Locates, Ended, Started, Books, Inv,
       EarlyInv

(***************************************************************************)
(* One job more or less on a node.                                         *)
(***************************************************************************)
LEMMA ActiveOnFinite ==
  ASSUME IsFiniteSet(active), NEW n
  PROVE  IsFiniteSet(ActiveOn(n)) /\ Cardinality(ActiveOn(n)) \in Nat
BY FS_Subset, FS_CardinalityType DEF ActiveOn

LEMMA StepLoad == ASSUME Inv, Form PROVE LoadInv'
<1>0. /\ IsFiniteSet(active) /\ load \in [Nodes -> Int] /\ maxJobs \in Nat
      /\ \A n \in Nodes : load[n] = Cardinality(ActiveOn(n)) /\ load[n] <= maxJobs
  BY DEF Inv, TypeOK, LoadInv, LoadCounts
<1>1. CASE UNCHANGED <<active, load, maxJobs>>
  BY <1>0, <1>1 DEF LoadInv, LoadCounts, ActiveOn
<1>2. CASE Prepares
  <2>1. active = {} /\ active' = {} /\ load' = load
    BY <1>2 DEF Prepares, Books, Inv, EarlyInv
  <2>2. \A n \in Nodes : ActiveOn(n) = {} /\ ActiveOn(n)' = {} /\ load[n] = 0
    BY <1>0, <2>1, FS_EmptySet DEF ActiveOn
  <2>3. maxJobs' \in Nat
    BY <1>0, <1>2 DEF Prepares
  <2> QED BY <2>1, <2>2, <2>3, FS_EmptySet DEF LoadInv, LoadCounts
<1>3. ASSUME NEW j \in active, NEW s \in Final, Ended(j, s) PROVE LoadInv'
  <2>1. /\ active' = active \ {j} /\ maxJobs' = maxJobs
        /\ load' = [load EXCEPT ![j.node] = @ - 1]
        /\ j.node \in Nodes
    BY <1>3 DEF Ended, Inv, TypeOK, ActiveJob
  <2>2. IsFiniteSet(active')
    BY <1>0, <2>1, FS_RemoveElement
  <2>3. ASSUME NEW n \in Nodes
        PROVE  load'[n] = Cardinality(ActiveOn(n)') /\ load'[n] <= maxJobs'
    <3>1. CASE n = j.node
      <4>1. ActiveOn(n)' = ActiveOn(n) \ {j} /\ j \in ActiveOn(n)
        BY <2>1, <3>1 DEF ActiveOn
      <4>2. Cardinality(ActiveOn(n)') = Cardinality(ActiveOn(n)) - 1
        BY <1>0, <4>1, ActiveOnFinite, FS_RemoveElement
      <4>3. load'[n] = load[n] - 1
        BY <1>0, <2>1, <3>1
      <4> QED BY <1>0, <2>1, <4>2, <4>3
    <3>2. CASE n # j.node
      <4>1. ActiveOn(n)' = ActiveOn(n)
        BY <2>1, <3>2 DEF ActiveOn
      <4> QED BY <1>0, <2>1, <3>2, <4>1
    <3> QED BY <3>1, <3>2
  <2> QED BY <2>2, <2>3 DEF LoadInv, LoadCounts
<1>4. ASSUME NEW v \in Volumes, NEW h \in Nat, Started(v, h) PROVE LoadInv'
  <2> DEFINE e == [vol |-> v, node |-> volToNode[v], handle |-> h]
  <2>1. /\ active' = active \cup {e} /\ maxJobs' = maxJobs
        /\ load' = [load EXCEPT ![volToNode[v]] = @ + 1]
        /\ volToNode[v] \in Nodes
        /\ load[volToNode[v]] < maxJobs
        /\ v \in pending
    BY <1>4 DEF Started
  <2>2. e.node = volToNode[v] /\ e.vol = v
    OBVIOUS
  <2> HIDE DEF e
  <2>3. e \notin active
    BY <2>1, <2>2 DEF Inv, BookInv
  <2>4. IsFiniteSet(active')
    BY <1>0, <2>1, FS_AddElement
  <2>5. ASSUME NEW n \in Nodes
        PROVE  load'[n] = Cardinality(ActiveOn(n)') /\ load'[n] <= maxJobs'
    <3>1. CASE n = volToNode[v]
      <4>1. ActiveOn(n)' = ActiveOn(n) \cup {e} /\ e \notin ActiveOn(n)
        BY <2>1, <2>2, <2>3, <3>1 DEF ActiveOn
      <4>2. Cardinality(ActiveOn(n)') = Cardinality(ActiveOn(n)) + 1
        BY <1>0, <4>1, ActiveOnFinite, FS_AddElement
      <4>3. load'[n] = load[n] + 1
        BY <1>0, <2>1, <3>1
      <4>4. load[n] < maxJobs
        BY <2>1, <3>1
      <4> QED BY <1>0, <2>1, <4>2, <4>3, <4>4
    <3>2. CASE n # volToNode[v]
      <4>1. ActiveOn(n)' = ActiveOn(n)
        BY <2>1, <2>2, <3>2 DEF ActiveOn
      <4> QED BY <1>0, <2>1, <3>2, <4>1
    <3> QED BY <3>1, <3>2
  <2> QED BY <2>4, <2>5 DEF LoadInv, LoadCounts
<1> QED BY <1>1, <1>2, <1>3, <1>4 DEF Form, Leaves, Turns, Moves, Locates, Books

(***************************************************************************)
(* The strengthening of which the properties below are parts.              *)
(***************************************************************************)
THEOREM Invariant == Spec => []Inv
<1>1. ASSUME Inv, [Next]_vars PROVE Inv'
  <2>1. Form /\ TypeOK'
    BY <1>1, StepForm, StepTypes DEF Inv
  <2> QED BY <1>1, <2>1, StepBooks, StepHandles, StepEarly, StepLoad DEF Inv
<1> QED BY <1>1, InitInv, PTL DEF Spec

(***************************************************************************)
(* nodeActiveJobs counts the active jobs of each node.                     *)
(***************************************************************************)
THEOREM LoadAlwaysCounts == Spec => []LoadCounts
<1>1. Inv => LoadCounts
  BY DEF Inv, LoadInv
<1> QED BY <1>1, Invariant, PTL

(***************************************************************************)
(* Every volume is pending, or has one active job, or its end was printed. *)
(***************************************************************************)
THEOREM AlwaysConserved == Spec => []Conservation
<1>1. ASSUME Inv PROVE Conservation
  <2> DEFINE Where(v) == {p \in {"pending", "active", "ended"} :
                            \/ p = "pending" /\ v \in pending
                            \/ p = "active"  /\ \E j \in active : j.vol = v
                            \/ p = "ended"   /\ report[v] # "none"}
  <2>1. ASSUME NEW v \in Volumes PROVE Cardinality(Where(v)) = 1
    <3>1. \/ v \in pending /\ report[v] = "none" /\ ~\E j \in active : j.vol = v
          \/ v \notin pending /\ report[v] # "none" /\ ~\E j \in active : j.vol = v
          \/ v \notin pending /\ report[v] = "none" /\ \E j \in active : j.vol = v
      BY <1>1 DEF Inv, BookInv
    <3>2. Where(v) = {"pending"} \/ Where(v) = {"active"} \/ Where(v) = {"ended"}
      BY <3>1
    <3> QED BY <3>2, FS_Singleton
  <2> QED BY <1>1, <2>1 DEF Inv, BookInv, Conservation
<1> QED BY <1>1, Invariant, PTL
-----------------------------------------------------------------------------
(***************************************************************************)
(* A printed end stays that of its job, whose final status stays.          *)
(***************************************************************************)
LEMMA FinalKept ==
  ASSUME Form, NEW h \in DOMAIN jobs, jobs[h].status \in Final
  PROVE  jobs'[h].status = jobs[h].status
<1>1. JobsSame \/ JobsEnd \/ (\E v \in Volumes : JobsGrow(v)) \/ jobs' = jobs
  BY DEF Form, Leaves, Prepares, Turns, Moves, Locates, Ended, Started
<1> QED BY <1>1 DEF JobsSame, JobsEnd, JobEnded, JobsGrow, Running, Final

LEMMA StepReport == ASSUME Inv, ReportTrue, Form PROVE ReportTrue'
<1>0. report \in [Volumes -> {"none"} \cup Final]
  BY DEF Inv, TypeOK
<1>1. ASSUME NEW v \in Volumes, report'[v] = report[v], report'[v] # "none"
      PROVE  \E h \in DOMAIN jobs' :
               jobs'[h].vol = v /\ jobs'[h].status = report'[v]
  <2>1. PICK h \in DOMAIN jobs : jobs[h].vol = v /\ jobs[h].status = report[v]
    BY <1>1 DEF ReportTrue
  <2>2. jobs[h].status \in Final
    BY <1>0, <1>1, <2>1
  <2> QED BY <1>1, <2>1, <2>2, JobsKept, FinalKept
<1>2. CASE UNCHANGED report
  BY <1>1, <1>2 DEF ReportTrue
<1>3. ASSUME NEW j \in active, NEW s \in Final, Ended(j, s) PROVE ReportTrue'
  <2>1. /\ report' = [report EXCEPT ![j.vol] = s]
        /\ j.handle \in DOMAIN jobs
        /\ s = jobs[j.handle].status
    BY <1>3 DEF Ended
  <2>2. jobs[j.handle].vol = j.vol
    <3>1. j.handle # NoHandle
      BY <2>1, LenProperties DEF NoHandle, Inv, TypeOK
    <3> QED BY <3>1 DEF Inv, HandleInv
  <2>3. j.handle \in DOMAIN jobs' /\ jobs'[j.handle].vol = j.vol
          /\ jobs'[j.handle].status = s
    BY <2>1, <2>2, JobsKept, FinalKept
  <2>4. ASSUME NEW v \in Volumes, report'[v] # "none"
        PROVE  \E h \in DOMAIN jobs' :
                 jobs'[h].vol = v /\ jobs'[h].status = report'[v]
    <3>1. CASE v = j.vol
      BY <1>0, <2>1, <2>3, <3>1
    <3>2. CASE v # j.vol
      BY <1>0, <1>1, <2>1, <2>4, <3>2
    <3> QED BY <3>1, <3>2
  <2> QED BY <2>4 DEF ReportTrue
<1> QED BY <1>2, <1>3
        DEF Form, Leaves, Prepares, Turns, Moves, Locates, Started, Books

(***************************************************************************)
(* What was printed about a volume is the end of a job of that volume.     *)
(***************************************************************************)
THEOREM ReportAlwaysTrue == Spec => []ReportTrue
<1>1. Init => ReportTrue
  BY DEF Init, ReportTrue
<1>2. ASSUME Inv, ReportTrue, [Next]_vars PROVE ReportTrue'
  BY <1>2, StepForm, StepReport DEF Inv
<1> QED BY <1>1, <1>2, Invariant, PTL DEF Spec
-----------------------------------------------------------------------------
(***************************************************************************)
(* Why a node may run more than maxJobs: a job is running whose handle no  *)
(* active job holds, which cost a fault, or an active job's volume has     *)
(* strayed from the node where it was located, which cost a move.          *)
(***************************************************************************)
Held(h)   == \E j \in active : j.handle = h
Untracked == {h \in DOMAIN jobs : Running(h) /\ ~Held(h)}

Strays(v) ==
  /\ volToNode[v] # NoNode
  /\ \/ host[v] # volToNode[v]
     \/ \E j \in active : /\ j.vol = v
                          /\ j.handle # NoHandle
                          /\ jobs[j.handle].node # volToNode[v]
Strayed == {v \in Volumes : Strays(v)}

UntrackedInv == IsFiniteSet(Untracked) /\ Cardinality(Untracked) <= faults
StrayedInv   == Cardinality(Strayed) <= moves

LEMMA OneMore ==
  ASSUME NEW S, IsFiniteSet(S), NEW x, NEW T, T \subseteq S \cup {x}
  PROVE  /\ IsFiniteSet(T)
         /\ Cardinality(S) \in Nat
         /\ Cardinality(T) \in Nat
         /\ Cardinality(T) <= Cardinality(S) + 1
<1>1. IsFiniteSet(S \cup {x}) /\ Cardinality(S) \in Nat
        /\ Cardinality(S \cup {x}) \in {Cardinality(S), Cardinality(S) + 1}
  BY FS_AddElement, FS_CardinalityType
<1>2. T \in SUBSET (S \cup {x})
  OBVIOUS
<1>3. IsFiniteSet(T) /\ Cardinality(T) <= Cardinality(S \cup {x})
        /\ Cardinality(T) \in Nat
  BY <1>1, <1>2, FS_Subset, FS_CardinalityType
<1> QED BY <1>1, <1>3

LEMMA NoMore ==
  ASSUME NEW S, IsFiniteSet(S), NEW T, T \subseteq S
  PROVE  /\ IsFiniteSet(T)
         /\ Cardinality(S) \in Nat
         /\ Cardinality(T) \in Nat
         /\ Cardinality(T) <= Cardinality(S)
<1>1. T \in SUBSET S
  OBVIOUS
<1> QED BY <1>1, FS_Subset, FS_CardinalityType

LEMMA UnionBound ==
  ASSUME NEW S, NEW T, IsFiniteSet(S), IsFiniteSet(T)
  PROVE  /\ IsFiniteSet(S \cup T)
         /\ Cardinality(S \cup T) <= Cardinality(S) + Cardinality(T)
<1>1. S \cap T \subseteq S
  OBVIOUS
<1>2. /\ Cardinality(S \cap T) \in Nat
      /\ Cardinality(S) \in Nat /\ Cardinality(T) \in Nat
  BY <1>1, NoMore, FS_CardinalityType
<1>3. IsFiniteSet(S \cup T) /\ Cardinality(S \cup T)
                = Cardinality(S) + Cardinality(T) - Cardinality(S \cap T)
  BY FS_Union
<1> QED BY <1>2, <1>3

LEMMA StrayedFinite == IsFiniteSet(Strayed)
BY BackupAssumption, NoMore DEF Strayed, BackupAssumption

LEMMA StepUntracked == ASSUME Inv, UntrackedInv, Form PROVE UntrackedInv'
<1>0. faults \in Nat
  BY BackupAssumption DEF Inv, TypeOK
<1>1. ASSUME Untracked' \subseteq Untracked, faults' \in {faults, faults + 1}
      PROVE  UntrackedInv'
  BY <1>0, <1>1, NoMore DEF UntrackedInv
<1>2. ASSUME NEW h, Untracked' \subseteq Untracked \cup {h}, faults' = faults + 1
      PROVE  UntrackedInv'
  <2>1. IsFiniteSet(Untracked) /\ Cardinality(Untracked) <= faults
    BY DEF UntrackedInv
  <2>2. /\ IsFiniteSet(Untracked')
        /\ Cardinality(Untracked) \in Nat /\ Cardinality(Untracked') \in Nat
        /\ Cardinality(Untracked') <= Cardinality(Untracked) + 1
    BY <1>2, <2>1, OneMore
  <2> QED BY <1>0, <1>2, <2>1, <2>2 DEF UntrackedInv
<1>3. ASSUME JobsSame \/ JobsEnd, active' = active
      PROVE  Untracked' \subseteq Untracked
  BY <1>3 DEF JobsSame, JobsEnd, JobEnded, Untracked, Running, Held, Final
<1>4. ASSUME NEW v, JobsGrow(v), active \subseteq active'
      PROVE  Untracked' \subseteq Untracked \cup {Len(jobs) + 1}
  BY <1>4 DEF JobsGrow, Untracked, Running, Held
<1>5. CASE Leaves
  BY <1>1, <1>2, <1>3, <1>4, <1>5 DEF Leaves, Books
<1>6. CASE Prepares \/ Turns \/ \E v \in Volumes : Moves(v) \/ Locates(v)
  <2>1. UNCHANGED <<jobs, active>> /\ faults' \in {faults, faults + 1}
    BY <1>6 DEF Prepares, Turns, Moves, Locates, Books
  <2> QED BY <1>1, <2>1 DEF Untracked, Running, Held
<1>7. ASSUME NEW j \in active, NEW s \in Final, Ended(j, s) PROVE UntrackedInv'
  <2>1. /\ active' = active \ {j}
        /\ ~Running(j.handle)
        /\ JobsSame
        /\ faults' = faults
    BY <1>7 DEF Ended, Running, Final
  <2>2. Untracked' \subseteq Untracked
    BY <2>1 DEF JobsSame, Untracked, Running, Held
  <2> QED BY <1>1, <2>1, <2>2
<1>8. ASSUME NEW v \in Volumes, NEW h \in Nat, Started(v, h) PROVE UntrackedInv'
  <2> DEFINE e == [vol |-> v, node |-> volToNode[v], handle |-> h]
  <2>1. active' = active \cup {e} /\ e.handle = h
    BY <1>8 DEF Started
  <2> HIDE DEF e
  <2>2. CASE JobsGrow(v) /\ faults' = faults /\ h = Len(jobs) + 1
    <3>1. Untracked' \subseteq Untracked \cup {Len(jobs) + 1}
      BY <1>4, <2>1, <2>2
    <3>2. Len(jobs) + 1 \notin Untracked'
      BY <2>1, <2>2 DEF Untracked, Held
    <3> QED BY <1>1, <2>2, <3>1, <3>2
  <2>3. CASE JobsSame /\ faults' = faults + 1
    <3>1. Untracked' \subseteq Untracked
      BY <2>1, <2>3 DEF JobsSame, Untracked, Running, Held
    <3> QED BY <1>1, <2>3, <3>1
  <2>4. CASE JobsGrow(v) /\ faults' = faults + 1
    BY <1>2, <1>4, <2>1, <2>4
  <2> QED BY <1>8, <2>2, <2>3, <2>4 DEF Started
<1> QED BY <1>5, <1>6, <1>7, <1>8 DEF Form

LEMMA StepStrayed == ASSUME Inv, StrayedInv, Form PROVE StrayedInv'
<1>0. /\ moves \in Nat
      /\ \A j \in active : j.vol \in Volumes
      /\ \A j \in active : j.handle # NoHandle => j.handle \in DOMAIN jobs
      /\ IsFiniteSet(Strayed)
      /\ host \in [Volumes -> Nodes]
      /\ volToNode \in [Volumes -> Nodes \cup {NoNode}]
  BY BackupAssumption, StrayedFinite DEF Inv, TypeOK, HandleInv, ActiveJob
<1>1. ASSUME Strayed' \subseteq Strayed, moves' = moves PROVE StrayedInv'
  BY <1>0, <1>1, NoMore DEF StrayedInv
<1>2. \A h \in DOMAIN jobs : h \in DOMAIN jobs' /\ jobs'[h].node = jobs[h].node
  <2>1. JobsSame \/ JobsEnd \/ (\E v \in Volumes : JobsGrow(v)) \/ jobs' = jobs
    BY DEF Form, Leaves, Prepares, Turns, Moves, Locates, Ended, Started
  <2> QED BY <2>1 DEF JobsSame, JobsEnd, JobEnded, JobsGrow, Keeps
<1>3. ASSUME active' \subseteq active, NEW v \in Volumes, volToNode'[v] = volToNode[v],
             host'[v] = host[v], Strays(v)'
      PROVE  Strays(v)
  BY <1>0, <1>2, <1>3 DEF Strays
<1>4. CASE Leaves \/ Turns \/ \E j \in active, s \in Final : Ended(j, s)
  <2>1. active' \subseteq active /\ UNCHANGED <<volToNode, host, moves>>
    BY <1>4 DEF Leaves, Turns, Ended, Books
  <2>2. Strayed' \subseteq Strayed
    BY <1>3, <2>1 DEF Strayed
  <2> QED BY <1>1, <2>1, <2>2
<1>5. CASE Prepares
  <2>1. active' = {} /\ active = {} /\ UNCHANGED <<host, moves>>
    BY <1>5 DEF Prepares, Books, Inv, EarlyInv
  <2>2. \/ volToNode' = volToNode
        \/ \A v \in Volumes : volToNode'[v] \in {NoNode, host[v]}
    BY <1>5 DEF Prepares
  <2>3. Strayed' \subseteq Strayed
    BY <2>1, <2>2 DEF Strayed, Strays
  <2> QED BY <1>1, <2>1, <2>3
<1>6. ASSUME NEW v \in Volumes, Moves(v) PROVE StrayedInv'
  <2>1. UNCHANGED <<active, volToNode>> /\ moves' = moves + 1
    BY <1>6 DEF Moves, Books
  <2>2. \A w \in Volumes : w # v => host'[w] = host[w]
    BY <1>0, <1>6 DEF Moves
  <2>3. Strayed' \subseteq Strayed \cup {v}
    BY <1>3, <2>1, <2>2 DEF Strayed
  <2> QED BY <1>0, <2>1, <2>3, OneMore DEF StrayedInv
<1>7. ASSUME NEW v \in Volumes, Locates(v) PROVE StrayedInv'
  <2>1. /\ UNCHANGED <<active, host, moves>> /\ v \in pending
        /\ volToNode' = [volToNode EXCEPT ![v] = host[v]]
    BY <1>7 DEF Locates, Books
  <2>2. \A j \in active : j.vol # v
    BY <2>1 DEF Inv, BookInv
  <2>3. ~Strays(v)'
    BY <1>0, <2>1, <2>2 DEF Strays
  <2>4. \A w \in Volumes : w # v => volToNode'[w] = volToNode[w]
    BY <1>0, <2>1
  <2>5. Strayed' \subseteq Strayed
    BY <1>3, <2>1, <2>3, <2>4 DEF Strayed
  <2> QED BY <1>1, <2>1, <2>5
<1>8. ASSUME NEW v \in Volumes, NEW h \in Nat, Started(v, h) PROVE StrayedInv'
  <2> DEFINE e == [vol |-> v, node |-> volToNode[v], handle |-> h]
  <2>1. /\ active' = active \cup {e} /\ e.handle = h /\ e.vol = v
        /\ UNCHANGED <<host, volToNode, moves>>
    BY <1>8 DEF Started
  <2> HIDE DEF e
  <2>2. h # NoHandle => jobs'[h].node = host[v]
    BY <1>8 DEF Started, JobsGrow
  <2>3. ASSUME NEW w \in Volumes, Strays(w)' PROVE Strays(w)
    BY <1>0, <1>2, <2>1, <2>2, <2>3 DEF Strays
  <2> QED BY <1>1, <2>1, <2>3 DEF Strayed
<1> QED BY <1>4, <1>5, <1>6, <1>7, <1>8 DEF Form

(***************************************************************************)
(* The running jobs of a node: those that an active job of that node       *)
(* holds, those that no active job holds, those of volumes that strayed.   *)
(***************************************************************************)
HolderOf(h) == CHOOSE j \in active : j.handle = h

LEMMA Holder ==
  ASSUME Inv, NEW h \in DOMAIN jobs, Held(h)
  PROVE  /\ HolderOf(h) \in active
         /\ HolderOf(h).handle = h
         /\ HolderOf(h).vol = jobs[h].vol
         /\ HolderOf(h).node = volToNode[jobs[h].vol]
         /\ h # NoHandle
<1>1. HolderOf(h) \in active /\ HolderOf(h).handle = h
  BY DEF Held, HolderOf
<1>2. h # NoHandle
  BY LenProperties DEF NoHandle, Inv, TypeOK
<1> QED BY <1>1, <1>2 DEF Inv, HandleInv

LEMMA NodeBound ==
  ASSUME Inv, UntrackedInv, StrayedInv, NEW n \in Nodes
  PROVE  Cardinality(RunningOn(n)) <= maxJobs + faults + moves
<1> DEFINE Here  == {h \in RunningOn(n) : Held(h) /\ HolderOf(h).node = n}
           There == {h \in RunningOn(n) : Held(h) /\ HolderOf(h).node # n}
<1>0. maxJobs \in Nat /\ faults \in Nat /\ moves \in Nat
  BY BackupAssumption DEF Inv, TypeOK
<1>1. IsFiniteSet(Here) /\ Cardinality(Here) <= maxJobs
  <2>1. IsFiniteSet(ActiveOn(n)) /\ Cardinality(ActiveOn(n)) <= maxJobs
          /\ Cardinality(ActiveOn(n)) \in Nat
    BY ActiveOnFinite DEF Inv, LoadInv, LoadCounts
  <2> DEFINE f == [h \in Here |-> HolderOf(h)]
  <2>2. f \in Injection(Here, ActiveOn(n))
    <3>1. \A h \in Here : HolderOf(h) \in ActiveOn(n) /\ HolderOf(h).handle = h
      BY Holder DEF ActiveOn, RunningOn
    <3> QED BY <3>1 DEF Injection, IsInjective
  <2>3. Cardinality(Here) <= Cardinality(ActiveOn(n)) /\ IsFiniteSet(Here)
    BY <2>1, <2>2, FS_Injection
  <2>4. Cardinality(Here) \in Nat
    BY <2>3, FS_CardinalityType
  <2> QED BY <1>0, <2>1, <2>3, <2>4
<1>2. IsFiniteSet(There) /\ Cardinality(There) <= moves
  <2> DEFINE g == [h \in There |-> jobs[h].vol]
  <2>1. ASSUME NEW h \in There PROVE g[h] \in Strayed
    <3>1. /\ h \in DOMAIN jobs /\ jobs[h].node = n
          /\ jobs[h].vol \in Volumes
      BY JobType DEF RunningOn, Inv, TypeOK, Job
    <3>2. /\ HolderOf(h) \in active
          /\ HolderOf(h).handle = h /\ h # NoHandle
          /\ HolderOf(h).vol = jobs[h].vol
          /\ HolderOf(h).node = volToNode[jobs[h].vol]
          /\ HolderOf(h).node # n
      BY <3>1, Holder
    <3>3. HolderOf(h).node \in Nodes
      BY <3>2 DEF Inv, TypeOK, ActiveJob
    <3>4. Strays(jobs[h].vol)
      BY <3>1, <3>2, <3>3, BackupAssumption DEF Strays, BackupAssumption
    <3> QED BY <3>1, <3>4 DEF Strayed
  <2>2. ASSUME NEW h \in There, NEW k \in There, g[h] = g[k] PROVE h = k
    <3>1. /\ HolderOf(h) \in active /\ HolderOf(h).handle = h
          /\ HolderOf(h).vol = jobs[h].vol
          /\ HolderOf(k) \in active /\ HolderOf(k).handle = k
          /\ HolderOf(k).vol = jobs[k].vol
      BY Holder DEF RunningOn
    <3> QED BY <2>2, <3>1 DEF Inv, BookInv
  <2>3. g \in Injection(There, Strayed)
    BY <2>1, <2>2 DEF Injection, IsInjective
  <2>4. Cardinality(There) <= Cardinality(Strayed) /\ IsFiniteSet(There)
    BY <2>3, StrayedFinite, FS_Injection
  <2>5. Cardinality(There) \in Nat /\ Cardinality(Strayed) \in Nat
    BY <2>4, StrayedFinite, FS_CardinalityType
  <2> QED BY <1>0, <2>4, <2>5 DEF StrayedInv
<1>3. RunningOn(n) \subseteq (Here \cup There) \cup Untracked
  BY DEF RunningOn, Untracked
<1> HIDE DEF Here, There
<1>4. IsFiniteSet(Here \cup There)
        /\ Cardinality(Here \cup There) <= Cardinality(Here) + Cardinality(There)
  BY <1>1, <1>2, UnionBound
<1>5. IsFiniteSet((Here \cup There) \cup Untracked)
        /\ Cardinality((Here \cup There) \cup Untracked)
              <= Cardinality(Here \cup There) + Cardinality(Untracked)
  BY <1>4, UnionBound DEF UntrackedInv
<1>6. Cardinality(RunningOn(n)) <= Cardinality((Here \cup There) \cup Untracked)
        /\ Cardinality(RunningOn(n)) \in Nat
  BY <1>3, <1>5, NoMore
<1>7. /\ Cardinality(Here) \in Nat /\ Cardinality(There) \in Nat
      /\ Cardinality(Here \cup There) \in Nat
      /\ Cardinality(Untracked) \in Nat
      /\ Cardinality((Here \cup There) \cup Untracked) \in Nat
  BY <1>1, <1>2, <1>4, <1>5, FS_CardinalityType DEF UntrackedInv
<1>8. Cardinality(Untracked) <= faults
  BY DEF UntrackedInv
<1> QED BY <1>0, <1>1, <1>2, <1>4, <1>5, <1>6, <1>7, <1>8

(***************************************************************************)
(* No node ever runs more than maxJobs jobs of this program, but for one   *)
(* more with each call that did not end well and each volume that moved.   *)
(***************************************************************************)
THEOREM NodeAlwaysLimited == Spec => []NodeLimit
<1>1. ASSUME Init PROVE UntrackedInv /\ StrayedInv
  <2>1. Untracked = {} /\ Strayed = {} /\ faults = 0 /\ moves = 0
    BY <1>1 DEF Init, Untracked, Strayed, Strays
  <2> QED BY <2>1, FS_EmptySet DEF UntrackedInv, StrayedInv
<1>2. ASSUME Inv, UntrackedInv, StrayedInv, [Next]_vars
      PROVE  UntrackedInv' /\ StrayedInv'
  BY <1>2, StepForm, StepUntracked, StepStrayed DEF Inv
<1>3. Inv /\ UntrackedInv /\ StrayedInv => NodeLimit
  BY NodeBound DEF NodeLimit
<1> QED BY <1>1, <1>2, <1>3, Invariant, PTL DEF Spec
-----------------------------------------------------------------------------
(***************************************************************************)
(* The loop ends with nothing pending and nothing active.                  *)
(***************************************************************************)
DoneInv == phase = "done" => pending = {} /\ active = {}

LEMMA StepDone == ASSUME Inv, DoneInv, Form PROVE DoneInv'
BY DEF Form, Leaves, Prepares, Turns, Moves, Locates, Ended, Started, Books, DoneInv

(***************************************************************************)
(* When all is done, every volume has a job that ended as was printed.     *)
(***************************************************************************)
THEOREM DoneAlwaysBackedUp == Spec => []DoneMeansBackedUp
<1>1. Init => DoneInv
  BY DEF Init, DoneInv
<1>2. ASSUME Inv, DoneInv, [Next]_vars PROVE DoneInv'
  BY <1>2, StepForm, StepDone DEF Inv
<1>3. Inv /\ DoneInv /\ ReportTrue => DoneMeansBackedUp
  BY DEF Inv, BookInv, DoneInv, ReportTrue, DoneMeansBackedUp
<1> QED BY <1>1, <1>2, <1>3, Invariant, ReportAlwaysTrue, PTL DEF Spec
-----------------------------------------------------------------------------
(***************************************************************************)
(* How many jobs the volumes of a group have, against how many of these    *)
(* volumes were taken up.                                                  *)
(***************************************************************************)
Counted(S) ==
  /\ IsFiniteSet(BackupsOf(S))
  /\ Cardinality(BackupsOf(S)) - Cardinality(S \ pending) \in -faults .. faults

LEMMA OneAdded ==
  ASSUME NEW S, IsFiniteSet(S), NEW x, x \notin S, NEW T, T = S \cup {x}
  PROVE  /\ IsFiniteSet(T)
         /\ Cardinality(S) \in Nat
         /\ Cardinality(T) = Cardinality(S) + 1
BY FS_AddElement, FS_CardinalityType

LEMMA JobsOfGroup ==
  ASSUME Inv, NEW S \in SUBSET Volumes
  PROVE  /\ JobsSame \/ JobsEnd \/ jobs' = jobs => BackupsOf(S)' = BackupsOf(S)
         /\ \A v \in Volumes : JobsGrow(v) =>
              IF v \in S
                THEN /\ Len(jobs) + 1 \notin BackupsOf(S)
                     /\ BackupsOf(S)' = BackupsOf(S) \cup {Len(jobs) + 1}
                ELSE BackupsOf(S)' = BackupsOf(S)
<1>1. ASSUME JobsSame \/ JobsEnd \/ jobs' = jobs
      PROVE  BackupsOf(S)' = BackupsOf(S)
  BY <1>1 DEF JobsSame, JobsEnd, JobEnded, Keeps, BackupsOf
<1>2. ASSUME NEW v \in Volumes, JobsGrow(v), v \in S
      PROVE  /\ Len(jobs) + 1 \notin BackupsOf(S)
             /\ BackupsOf(S)' = BackupsOf(S) \cup {Len(jobs) + 1}
  BY <1>2 DEF JobsGrow, Keeps, BackupsOf
<1>3. ASSUME NEW v \in Volumes, JobsGrow(v), v \notin S
      PROVE  BackupsOf(S)' = BackupsOf(S)
  BY <1>3 DEF JobsGrow, Keeps, BackupsOf
<1> QED BY <1>1, <1>2, <1>3

LEMMA StepCounted ==
  ASSUME Inv, Form, NEW S \in SUBSET Volumes, Counted(S) PROVE Counted(S)'
<1> DEFINE B == Cardinality(BackupsOf(S))
           T == Cardinality(S \ pending)
<1>1. /\ faults \in Nat
      /\ IsFiniteSet(BackupsOf(S)) /\ B \in Nat
      /\ IsFiniteSet(S \ pending) /\ T \in Nat
      /\ B - T \in -faults .. faults
  <2>1. IsFiniteSet(S \ pending)
    BY BackupAssumption, NoMore
  <2> QED BY <2>1, FS_CardinalityType, BackupAssumption
          DEF Counted, Inv, TypeOK
<1>2. JobsSame \/ JobsEnd \/ jobs' = jobs
        => IsFiniteSet(BackupsOf(S)') /\ Cardinality(BackupsOf(S)') = B
  BY <1>1, JobsOfGroup
<1>3. \A v \in Volumes : JobsGrow(v) =>
        /\ IsFiniteSet(BackupsOf(S)')
        /\ Cardinality(BackupsOf(S)') = IF v \in S THEN B + 1 ELSE B
  BY <1>1, JobsOfGroup, OneAdded
<1>4. CASE Leaves
  <2>1. S \ pending' = S \ pending
    BY <1>4 DEF Leaves, Books
  <2> QED BY <1>1, <1>2, <1>3, <1>4, <2>1 DEF Leaves, Counted
<1>5. CASE Prepares \/ Turns \/ \E v \in Volumes : Moves(v) \/ Locates(v)
  <2>1. pending' = pending /\ jobs' = jobs /\ faults' \in {faults, faults + 1}
    BY <1>5 DEF Prepares, Turns, Moves, Locates, Books
  <2> QED BY <1>1, <1>2, <2>1 DEF Counted
<1>6. ASSUME NEW j \in active, NEW s \in Final, Ended(j, s) PROVE Counted(S)'
  <2>1. pending' = pending /\ JobsSame /\ faults' = faults
    BY <1>6 DEF Ended
  <2> QED BY <1>1, <1>2, <2>1 DEF Counted
<1>7. ASSUME NEW v \in Volumes, NEW h \in Nat, Started(v, h) PROVE Counted(S)'
  <2>1. /\ v \in pending /\ pending' = pending \ {v}
        /\ \/ JobsGrow(v) /\ faults' = faults
           \/ (JobsSame \/ JobsGrow(v)) /\ faults' = faults + 1
    BY <1>7 DEF Started
  <2>2. Cardinality(S \ pending') = IF v \in S THEN T + 1 ELSE T
    <3>1. CASE v \in S
      <4>1. S \ pending' = (S \ pending) \cup {v} /\ v \notin S \ pending
        BY <2>1, <3>1
      <4> QED BY <1>1, <3>1, <4>1, OneAdded
    <3>2. CASE v \notin S
      <4>1. S \ pending' = S \ pending
        BY <2>1, <3>2
      <4> QED BY <3>2, <4>1
    <3> QED BY <3>1, <3>2
  <2> HIDE DEF B, T
  <2>3. CASE JobsGrow(v) /\ faults' = faults
    BY <1>1, <1>3, <2>2, <2>3 DEF Counted, B, T
  <2>4. CASE JobsGrow(v) /\ faults' = faults + 1
    BY <1>1, <1>3, <2>2, <2>4 DEF Counted, B, T
  <2>5. CASE JobsSame /\ faults' = faults + 1
    BY <1>1, <1>2, <2>2, <2>5 DEF Counted, B, T
  <2> QED BY <2>1, <2>3, <2>4, <2>5
<1> QED BY <1>4, <1>5, <1>6, <1>7 DEF Form

(***************************************************************************)
(* Of any group of volumes, as many are backed up as have been taken up,   *)
(* but for one more or less with each call that did not end well.          *)
(***************************************************************************)
THEOREM BackupsAlwaysCounted == Spec => []BackupsCounted
<1> DEFINE CountInv == \A S \in SUBSET Volumes : Counted(S)
<1>1. ASSUME Init PROVE CountInv
  <2>1. ASSUME NEW S \in SUBSET Volumes PROVE Counted(S)
    <3>1. BackupsOf(S) = {} /\ S \ pending = {} /\ faults = 0
      BY <1>1 DEF Init, BackupsOf
    <3> QED BY <3>1, FS_EmptySet DEF Counted
  <2> QED BY <2>1
<1>2. ASSUME Inv, CountInv, [Next]_vars PROVE CountInv'
  <2>1. Form
    BY <1>2, StepForm DEF Inv
  <2>2. ASSUME NEW S \in SUBSET Volumes PROVE Counted(S)'
    BY <1>2, <2>1, StepCounted
  <2> QED BY <2>2
<1>3. CountInv => BackupsCounted
  BY DEF Counted, BackupsCounted
<1> QED BY <1>1, <1>2, <1>3, Invariant, PTL DEF Spec

-----------------------------------------------------------------------------
(***************************************************************************)
(* The active jobs whose result the cluster does not have.                 *)
(***************************************************************************)
StuckInv == IsFiniteSet(StuckJobs) /\ StuckJobsCounted

StoredKept == \A h : Stored(h) => Stored(h)'

LEMMA EndStored ==
  ASSUME TypeOK, NEW h \in DOMAIN jobs, JobEnds(h) PROVE StoredKept
<1>1. PICK s \in Final : jobs' = [jobs EXCEPT ![h].status = s]
  BY DEF JobEnds
<1>2. jobs[h] \in Job
  BY JobType DEF TypeOK
<1> QED BY <1>1, <1>2 DEF StoredKept, Stored, Job

LEMMA StartStored ==
  ASSUME TypeOK, NEW v \in Volumes, NEW fate, Call(fate, ExecuteStart(v))
  PROVE  /\ StoredKept
         /\ jobs' # jobs => /\ Len(jobs) + 1 \in DOMAIN jobs'
                            /\ jobs'[Len(jobs) + 1].stored
<1> DEFINE e == [vol |-> v, node |-> host[v], status |-> "running",
                 stored |-> TRUE]
<1>1. jobs \in Seq(Job)
  BY DEF TypeOK
<1>2. CASE jobs' = jobs
  BY <1>2 DEF StoredKept, Stored
<1>3. CASE jobs' = Append(jobs, e)
  <2>1. Len(jobs) \in Nat /\ DOMAIN jobs = 1 .. Len(jobs)
    BY <1>1, LenProperties
  <2>2. DOMAIN jobs' = 1 .. Len(jobs) + 1
    BY <1>3, <1>1, <2>1
  <2>3. /\ \A h \in 1 .. Len(jobs) : jobs'[h] = jobs[h]
        /\ jobs'[Len(jobs) + 1] = e
    BY <1>3, <1>1, <2>1
  <2>4. e.stored
    OBVIOUS
  <2> QED BY <2>1, <2>2, <2>3, <2>4 DEF StoredKept, Stored
<1> QED BY <1>2, <1>3 DEF Call, ExecuteStart, clusterVars

(***************************************************************************)
(* A poll removes the result of one active job at most.                    *)
(***************************************************************************)
LEMMA PollStored ==
  ASSUME Inv, NEW j \in active, ExecutePoll(j.handle)
  PROVE  \A k \in active : k # j /\ Stored(k.handle) => Stored(k.handle)'
<1> SUFFICES ASSUME NEW k \in active, k # j, Stored(k.handle)
             PROVE  Stored(k.handle)'
  OBVIOUS
<1>1. CASE Status(j.handle) \notin Final
  BY <1>1 DEF ExecutePoll, Stored
<1>2. CASE Status(j.handle) \in Final
  <2>1. j.handle \in DOMAIN jobs /\ k.handle \in DOMAIN jobs
    BY <1>2 DEF Status, Stored, Final
  <2>2. j.handle # NoHandle /\ k.handle # NoHandle
    BY <2>1, JobType DEF Inv, TypeOK, NoHandle
  <2>3. j.handle # k.handle
    BY <2>2 DEF Inv, HandleInv, BookInv
  <2>4. jobs' = [jobs EXCEPT ![j.handle].stored = FALSE]
    BY <1>2 DEF ExecutePoll
  <2> QED BY <2>1, <2>3, <2>4 DEF Stored
<1> QED BY <1>1, <1>2

LEMMA StepStuck == ASSUME Inv, StuckInv, [Next]_vars PROVE StuckInv'
<1>0. TypeOK /\ faults \in Nat
  BY BackupAssumption DEF Inv, TypeOK
<1>1. ASSUME StuckJobs' \subseteq StuckJobs, faults' \in {faults, faults + 1}
      PROVE  StuckInv'
  BY <1>0, <1>1, NoMore DEF StuckInv, StuckJobsCounted
<1>2. ASSUME NEW x, StuckJobs' \subseteq StuckJobs \cup {x}, faults' = faults + 1
      PROVE  StuckInv'
  <2>1. /\ IsFiniteSet(StuckJobs')
        /\ Cardinality(StuckJobs) \in Nat /\ Cardinality(StuckJobs') \in Nat
        /\ Cardinality(StuckJobs') <= Cardinality(StuckJobs) + 1
    BY <1>2, OneMore DEF StuckInv
  <2> QED BY <1>0, <1>2, <2>1 DEF StuckInv, StuckJobsCounted
<1>3. ASSUME StoredKept, active' = active, faults' \in {faults, faults + 1}
      PROVE  StuckInv'
  BY <1>1, <1>3 DEF StoredKept, StuckJobs
<1>4. ASSUME UNCHANGED <<jobs, active>>, faults' \in {faults, faults + 1}
      PROVE  StuckInv'
  BY <1>1, <1>4 DEF StuckJobs, Stored
<1>5. CASE UNCHANGED vars
  BY <1>4, <1>5 DEF vars, clusterVars, passVars
<1>6. CASE Cluster
  <2>1. ASSUME NEW h \in DOMAIN jobs, JobEnds(h) PROVE StuckInv'
    BY <1>0, <1>3, <2>1, EndStored DEF JobEnds, passVars
  <2>2. ASSUME NEW v \in Volumes, NEW n \in Nodes, Move(v, n) PROVE StuckInv'
    BY <1>4, <2>2 DEF Move, passVars
  <2> QED BY <1>6, <2>1, <2>2 DEF Cluster
<1>7. CASE PollsDone \/ PassDone \/ \E v \in Volumes : NodeFull(v)
  BY <1>4, <1>7 DEF PollsDone, PassDone, NodeFull, clusterVars
<1>8. ASSUME NEW fate \in Fates,
             \/ GetLimits(fate) \/ GetReport(fate)
             \/ \E v \in Volumes : Locate(v, fate)
      PROVE  StuckInv'
  BY <1>4, <1>8 DEF GetLimits, GetReport, Locate, Meet, clusterVars, passVars
<1>9. ASSUME NEW fate \in Fates, NEW j \in toPoll, Poll(j, fate)
      PROVE  StuckInv'
  <2>1. j \in active /\ faults' \in {faults, faults + 1}
    BY <1>0, <1>9 DEF TypeOK, Poll, Call, Meet
  <2>2. CASE jobs' = jobs
    <3>1. active' \subseteq active
      BY <1>9 DEF Poll
    <3> QED BY <1>1, <2>1, <2>2, <3>1 DEF StuckJobs, Stored
  <2>3. CASE jobs' # jobs
    <3>1. ExecutePoll(j.handle) /\ Status(j.handle) \in Final
      BY <1>9, <2>3 DEF Poll, Call, ExecutePoll, clusterVars
    <3>2. \A k \in active : k # j /\ Stored(k.handle) => Stored(k.handle)'
      BY <2>1, <3>1, PollStored
    <3>3. CASE PollStatus(j, fate) \in Final
      <4>1. active' = active \ {j}
        BY <1>9, <3>3 DEF Poll
      <4> QED BY <1>1, <2>1, <3>2, <4>1 DEF StuckJobs
    <3>4. CASE PollStatus(j, fate) \notin Final
      <4>1. active' = active
        BY <1>9, <3>4 DEF Poll
      <4>2. fate # "delivered"
        BY <3>1, <3>4 DEF PollStatus, PollError, Status, SdkError, SdkResult,
                          Final, None
      <4>3. faults' = faults + 1
        BY <1>9, <4>2 DEF Poll, Call, Meet
      <4> QED BY <1>2, <3>2, <4>1, <4>3 DEF StuckJobs
    <3> QED BY <3>3, <3>4
  <2> QED BY <2>2, <2>3
<1>10. ASSUME NEW fate \in Fates, NEW v \in Volumes, Start(v, fate)
       PROVE  StuckInv'
  <2>1. Call(fate, ExecuteStart(v))
    BY <1>10 DEF Start
  <2>2. /\ StoredKept
        /\ jobs' # jobs => /\ Len(jobs) + 1 \in DOMAIN jobs'
                           /\ jobs'[Len(jobs) + 1].stored
    BY <1>0, <2>1, StartStored
  <2>3. faults' \in {faults, faults + 1}
    BY <2>1 DEF Call, Meet
  <2>4. CASE SdkError(fate, StartRefusal(v)) # None
    BY <1>3, <1>10, <2>2, <2>3, <2>4 DEF Start
  <2>5. CASE SdkError(fate, StartRefusal(v)) = None
    <3> DEFINE h == SdkResult(fate, StartRefusal(v), Len(jobs) + 1, NoHandle)
               e == [vol |-> v, node |-> volToNode[v], handle |-> h]
    <3>1. active' = active \cup {e} /\ e.handle = h
      BY <1>10, <2>5 DEF Start
    <3>2. \/ JobsGrow(v) /\ faults' = faults /\ h = Len(jobs) + 1
          \/ faults' = faults + 1
      BY <1>0, <2>1, <2>5, GoodStart
    <3> HIDE DEF e, h
    <3>3. CASE faults' = faults + 1
      <4>1. StuckJobs' \subseteq StuckJobs \cup {e}
        BY <2>2, <3>1 DEF StoredKept, StuckJobs
      <4> QED BY <1>2, <3>3, <4>1
    <3>4. CASE JobsGrow(v) /\ h = Len(jobs) + 1
      <4>1. e.handle \in DOMAIN jobs' /\ jobs'[e.handle].stored
        BY <2>2, <3>1, <3>4 DEF JobsGrow
      <4>2. StuckJobs' \subseteq StuckJobs
        BY <2>2, <3>1, <4>1 DEF StoredKept, StuckJobs, Stored
      <4> QED BY <1>1, <2>3, <4>2
    <3> QED BY <3>2, <3>3, <3>4
  <2> QED BY <2>4, <2>5
<1> QED BY <1>5, <1>6, <1>7, <1>8, <1>9, <1>10 DEF Next, Program

(***************************************************************************)
(* Every active job that can never be found ended cost a call that did not *)
(* end well.                                                               *)
(***************************************************************************)
THEOREM StuckAlwaysCounted == Spec => []StuckJobsCounted
<1>1. ASSUME Init PROVE StuckInv
  <2>1. StuckJobs = {} /\ faults = 0
    BY <1>1 DEF Init, StuckJobs
  <2> QED BY <2>1, FS_EmptySet DEF StuckInv, StuckJobsCounted
<1>2. StuckInv => StuckJobsCounted
  BY DEF StuckInv
<1> QED BY <1>1, <1>2, StepStuck, Invariant, PTL DEF Spec
-----------------------------------------------------------------------------
(***************************************************************************)
(* So there are never more jobs than FairSpec assumes to end.              *)
(***************************************************************************)
THEOREM EveryJobEnds ==
  Spec => [](DOMAIN jobs \subseteq 1 .. Cardinality(Volumes) + MaxFaults)
<1>1. ASSUME Inv, BackupsCounted
      PROVE  DOMAIN jobs \subseteq 1 .. Cardinality(Volumes) + MaxFaults
  <2>1. DOMAIN jobs = 1 .. Len(jobs) /\ Len(jobs) \in Nat
    BY <1>1, LenProperties DEF Inv, TypeOK
  <2>2. BackupsOf(Volumes) = 1 .. Len(jobs)
    BY <1>1, <2>1, JobType DEF BackupsOf, Inv, TypeOK, Job
  <2>3. Cardinality(BackupsOf(Volumes)) = Len(jobs)
    <3>1. Cardinality(1 .. Len(jobs))
            = IF 1 > Len(jobs) THEN 0 ELSE Len(jobs) - 1 + 1
      BY <2>1, FS_Interval
    <3>2. Cardinality(1 .. Len(jobs)) = Len(jobs)
      BY <2>1, <3>1
    <3> QED BY <2>2, <3>2
  <2>4. /\ Cardinality(Volumes \ pending) \in Nat /\ Cardinality(Volumes) \in Nat
        /\ Cardinality(Volumes \ pending) <= Cardinality(Volumes)
    BY BackupAssumption, NoMore
  <2>5. Len(jobs) - Cardinality(Volumes \ pending) \in -faults .. faults
    BY <1>1, <2>3 DEF BackupsCounted
  <2>6. faults \in 0 .. MaxFaults /\ MaxFaults \in Nat
    BY <1>1, BackupAssumption DEF Inv, TypeOK
  <2>7. Len(jobs) <= Cardinality(Volumes) + MaxFaults
    BY <2>1, <2>4, <2>5, <2>6
  <2> QED BY <2>1, <2>4, <2>6, <2>7
<1> QED BY <1>1, Invariant, BackupsAlwaysCounted, PTL

(***************************************************************************)
(* The only element of a set.                                              *)
(***************************************************************************)
LEMMA OneElement ==
  ASSUME NEW S, IsFiniteSet(S), Cardinality(S) = 1
  PROVE  \E x : S = {x}
<1>1. S # {}
  BY FS_EmptySet
<1>2. PICK x : x \in S
  BY <1>1
<1>3. IsFiniteSet(S \ {x}) /\ Cardinality(S \ {x}) = 0
  BY <1>2, FS_RemoveElement
<1>4. S \ {x} = {}
  BY <1>3, FS_EmptySet
<1> QED BY <1>2, <1>4

OneBackupEach ==
  \A v \in Volumes :
    IF v \in pending THEN BackupsOf({v}) = {}
                     ELSE \E h \in DOMAIN jobs : BackupsOf({v}) = {h}

(***************************************************************************)
(* Without faults no volume ever has two jobs, none that is pending has    *)
(* one, and every other one has one.                                       *)
(***************************************************************************)
THEOREM OneBackup == ASSUME MaxFaults = 0 PROVE Spec => []OneBackupEach
<1>1. ASSUME Inv, BackupsCounted PROVE OneBackupEach
  <2> SUFFICES ASSUME NEW v \in Volumes
               PROVE  IF v \in pending THEN BackupsOf({v}) = {}
                      ELSE \E h \in DOMAIN jobs : BackupsOf({v}) = {h}
    BY DEF OneBackupEach
  <2>1. faults = 0
    BY <1>1 DEF Inv, TypeOK
  <2>2. IsFiniteSet(BackupsOf({v}))
    <3>1. DOMAIN jobs = 1 .. Len(jobs) /\ Len(jobs) \in Nat
      BY <1>1, LenProperties DEF Inv, TypeOK
    <3>2. IsFiniteSet(DOMAIN jobs)
      BY <3>1, FS_Interval
    <3> QED BY <3>2, NoMore DEF BackupsOf
  <2>3. Cardinality(BackupsOf({v})) \in Nat
    BY <2>2, FS_CardinalityType
  <2>4. {v} \ pending = IF v \in pending THEN {} ELSE {v}
    OBVIOUS
  <2>5. Cardinality({v} \ pending) = IF v \in pending THEN 0 ELSE 1
    BY <2>4, FS_EmptySet, FS_Singleton
  <2>6. Cardinality(BackupsOf({v})) = Cardinality({v} \ pending)
    <3>1. Cardinality(BackupsOf({v})) - Cardinality({v} \ pending) \in -0 .. 0
      BY <1>1, <2>1 DEF BackupsCounted
    <3> QED BY <2>3, <2>5, <3>1
  <2>7. CASE v \in pending
    BY <2>2, <2>5, <2>6, <2>7, FS_EmptySet
  <2>8. CASE v \notin pending
    <3>1. PICK h : BackupsOf({v}) = {h}
      BY <2>2, <2>5, <2>6, <2>8, OneElement
    <3> QED BY <2>8, <3>1 DEF BackupsOf
  <2> QED BY <2>7, <2>8
<1> QED BY <1>1, Invariant, BackupsAlwaysCounted, PTL
-----------------------------------------------------------------------------
(***************************************************************************)
(* maxJobsPerNode stays below the cluster's limit by the reserve of two.   *)
(***************************************************************************)
ReserveInv == /\ phase = "limits" => maxJobs = 0
              /\ maxJobs \in {0, Cap - 2}

LEMMA StepReserve ==
  ASSUME "cut" \notin Fates, Cap > 2, Inv, ReserveInv, Form PROVE ReserveInv'
<1>1. MaxJobsFor(Cap) = Cap - 2
  BY BackupAssumption DEF MaxJobsFor, Reduced
<1>2. CASE Prepares
  BY <1>1, <1>2 DEF Prepares, ReserveInv
<1>3. CASE ~Prepares
  <2>1. maxJobs' = maxJobs
    BY <1>3 DEF Form, Leaves, Turns, Moves, Locates, Ended, Started
  <2>2. phase' = phase \/ phase' # "limits"
    BY <1>3 DEF Form, Leaves, Turns, Moves, Locates, Ended, Started
  <2> QED BY <2>1, <2>2 DEF ReserveInv
<1> QED BY <1>2, <1>3

RestoresHaveRoom ==
  \A n \in Nodes : Cardinality(RunningOn(n)) + 2 <= Cap + faults + moves

(***************************************************************************)
(* example/s3-backup/main.go:62-65 leaves two of the jobs that a node may  *)
(* run to restores.  It does so on every node, but for one with each call  *)
(* that did not end well and each volume that moved.                       *)
(***************************************************************************)
THEOREM ReserveKept ==
  ASSUME "cut" \notin Fates, Cap > 2
  PROVE  Spec => []RestoresHaveRoom
<1>1. Init => ReserveInv
  BY DEF Init, ReserveInv
<1>2. ASSUME Inv, ReserveInv, [Next]_vars PROVE ReserveInv'
  BY <1>2, StepForm, StepReserve DEF Inv
<1>3. ASSUME Inv, ReserveInv, NodeLimit PROVE RestoresHaveRoom
  <2>1. /\ Cap \in Nat /\ faults \in Nat /\ moves \in Nat
        /\ maxJobs + 2 <= Cap
    BY <1>3, BackupAssumption DEF Inv, TypeOK, ReserveInv
  <2>2. ASSUME NEW n \in Nodes
        PROVE  Cardinality(RunningOn(n)) + 2 <= Cap + faults + moves
    <3>1. IsFiniteSet(RunningOn(n))
      <4>1. DOMAIN jobs = 1 .. Len(jobs) /\ Len(jobs) \in Nat
        BY <1>3, LenProperties DEF Inv, TypeOK
      <4>2. IsFiniteSet(DOMAIN jobs)
        BY <4>1, FS_Interval
      <4> QED BY <4>2, NoMore DEF RunningOn
    <3>2. Cardinality(RunningOn(n)) \in Nat
      BY <3>1, FS_CardinalityType
    <3>3. Cardinality(RunningOn(n)) <= maxJobs + faults + moves
      BY <1>3 DEF NodeLimit
    <3>4. maxJobs \in Nat
      BY <1>3 DEF Inv, TypeOK
    <3> QED BY <2>1, <3>2, <3>3, <3>4
  <2> QED BY <2>2 DEF RestoresHaveRoom
<1> QED BY <1>1, <1>2, <1>3, Invariant, NodeAlwaysLimited, PTL DEF Spec
-----------------------------------------------------------------------------
(***************************************************************************)
(* Each kind of step is a step of BackupPromise, or none that it sees.     *)
(***************************************************************************)
EndsSame == \A v \in Volumes : EndsOf(v)' = EndsOf(v)

LEMMA SameEnds ==
  ASSUME TypeOK, JobsSame \/ jobs' = jobs \/ \E v \in Volumes : JobsGrow(v)
  PROVE  EndsSame
BY DEF JobsSame, JobsGrow, Keeps, EndsSame, EndsOf, Final

LEMMA SameStage ==
  ASSUME UNCHANGED Books PROVE \A v \in Volumes : Stage(v)' = Stage(v)
BY DEF Books, Stage

LEMMA Stutters ==
  ASSUME EndsSame, UNCHANGED Books PROVE UNCHANGED Promise!vars
BY SameStage DEF Promise!vars, EndsSame

LEMMA EndedStep ==
  ASSUME Inv, NEW h \in DOMAIN jobs, JobEnded(h), UNCHANGED Books
  PROVE  Promise!Next
<1>1. PICK v \in Volumes, s \in Final : v = jobs[h].vol /\ s = jobs'[h].status
  BY JobType DEF Inv, TypeOK, Job, JobEnded
<1>2. EndsOf(v)' = EndsOf(v) \cup {s}
  <2>1. \A t \in Final : t \in EndsOf(v)' <=> t \in EndsOf(v) \/ t = s
    BY <1>1 DEF EndsOf, JobEnded, Keeps, Running, Final
  <2> QED BY <1>1, <2>1 DEF EndsOf
<1>3. \A w \in Volumes : w # v => EndsOf(w)' = EndsOf(w)
  BY <1>1 DEF EndsOf, JobEnded, Keeps
<1>4. [w \in Volumes |-> EndsOf(w)']
        = [[w \in Volumes |-> EndsOf(w)] EXCEPT ![v] = @ \cup {s}]
  BY <1>1, <1>2, <1>3
<1>5. Promise!JobEnds(v, s)
  BY <1>4, SameStage DEF Promise!JobEnds
<1> QED BY <1>1, <1>5 DEF Promise!Next, Promise!Final, Final

LEMMA StartedStep ==
  ASSUME Inv, NEW v \in Volumes, NEW h \in Nat, Started(v, h)
  PROVE  Promise!Next
<1> DEFINE e == [vol |-> v, node |-> volToNode[v], handle |-> h]
<1>1. /\ active' = active \cup {e} /\ pending' = pending \ {v} /\ report' = report
      /\ v \in pending
      /\ e.vol = v
  BY DEF Started
<1> HIDE DEF e
<1>2. /\ report[v] = "none" /\ report'[v] = "none"
      /\ v \notin pending' /\ e \in active'
      /\ ~\E j \in active : j.vol = v
  BY <1>1 DEF Inv, BookInv
<1>3. Stage(v) = "pending" /\ Stage(v)' = "active"
  <2>1. Stage(v) = "pending"
    BY <1>1, <1>2 DEF Stage
  <2>2. \E j \in active' : j.vol = v
    BY <1>1, <1>2
  <2>3. Stage(v)' = "active"
    BY <1>2, <2>2 DEF Stage
  <2> QED BY <2>1, <2>3
<1>4. \A w \in Volumes : w # v => Stage(w)' = Stage(w)
  BY <1>1 DEF Stage
<1>5. EndsSame
  BY SameEnds DEF Started, Inv
<1>6. Promise!Start(v)
  BY <1>3, <1>4, <1>5 DEF Promise!Start, EndsSame
<1> QED BY <1>6 DEF Promise!Next

LEMMA ReportStep ==
  ASSUME Inv, NEW j \in active, NEW s \in Final, Ended(j, s)
  PROVE  Promise!Next
<1> DEFINE v == j.vol
<1>0. v \in Volumes /\ report \in [Volumes -> {"none"} \cup Final]
  BY DEF Inv, TypeOK, ActiveJob
<1>1. /\ active' = active \ {j} /\ pending' = pending
      /\ report' = [report EXCEPT ![v] = s]
      /\ j.handle \in DOMAIN jobs
      /\ s = jobs[j.handle].status
      /\ JobsSame
  BY DEF Ended
<1>2. jobs[j.handle].vol = v
  <2>1. j.handle # NoHandle
    BY <1>1, LenProperties DEF NoHandle, Inv, TypeOK
  <2> QED BY <2>1 DEF Inv, HandleInv
<1>3. s \in EndsOf(v)
  BY <1>1, <1>2 DEF EndsOf
<1>4. Stage(v) = "active" /\ Stage(v)' = s
  BY <1>0, <1>1 DEF Stage, Inv, BookInv, Final
<1>5. \A w \in Volumes : w # v => Stage(w)' = Stage(w)
  BY <1>0, <1>1 DEF Stage
<1>6. EndsSame
  BY <1>1, SameEnds DEF Inv
<1> HIDE DEF v
<1>7. Promise!Report(v, s)
  BY <1>0, <1>3, <1>4, <1>5, <1>6 DEF Promise!Report, EndsSame
<1> QED BY <1>0, <1>7 DEF Promise!Next, Promise!Final, Final

LEMMA StepPromise == ASSUME Inv, Form PROVE Promise!Next \/ UNCHANGED Promise!vars
<1>1. CASE Leaves
  <2>1. UNCHANGED Books
    BY <1>1 DEF Leaves
  <2>2. CASE JobsEnd
    BY <2>1, <2>2, EndedStep DEF JobsEnd
  <2>3. CASE JobsSame \/ \E v \in Volumes : JobsGrow(v)
    BY <2>1, <2>3, SameEnds, Stutters DEF Inv
  <2> QED BY <1>1, <2>2, <2>3 DEF Leaves
<1>2. CASE Prepares \/ Turns \/ \E v \in Volumes : Moves(v) \/ Locates(v)
  <2>1. UNCHANGED Books /\ jobs' = jobs
    BY <1>2 DEF Prepares, Turns, Moves, Locates
  <2> QED BY <2>1, SameEnds, Stutters DEF Inv
<1>3. CASE \E j \in active, s \in Final : Ended(j, s)
  BY <1>3, ReportStep
<1>4. CASE \E v \in Volumes, h \in Nat : Started(v, h)
  BY <1>4, StartedStep
<1> QED BY <1>1, <1>2, <1>3, <1>4 DEF Form

(***************************************************************************)
(* The scheduler keeps the promise of BackupPromise to any volumes.        *)
(***************************************************************************)
THEOREM PromiseKept == Spec => KeepsPromise
<1>1. Init => Promise!Init
  <2> SUFFICES ASSUME Init PROVE Promise!Init
    OBVIOUS
  <2>1. ASSUME NEW v \in Volumes PROVE Stage(v) = "pending" /\ EndsOf(v) = {}
    BY DEF Init, Stage, EndsOf
  <2> QED BY <2>1 DEF Promise!Init
<1>2. Inv /\ [Next]_vars => [Promise!Next]_(Promise!vars)
  <2> SUFFICES ASSUME Inv, [Next]_vars
               PROVE  Promise!Next \/ UNCHANGED Promise!vars
    OBVIOUS
  <2> QED BY StepForm, StepPromise DEF Inv
<1> QED BY <1>1, <1>2, Invariant, PTL DEF Spec, KeepsPromise, Promise!Spec
-----------------------------------------------------------------------------
(***************************************************************************)
(* example/s3-backup/main.go:86 says of a report that did not come: "will  *)
(* fall back to GetVolumeStats".  The fallback looks services up in a      *)
(* table that only the report fills.  So without the report not one volume *)
(* is ever located, no backup is ever started, and the program does not    *)
(* end, whatever the volumes, the nodes and the calls to come.             *)
(***************************************************************************)
Unlocated == /\ \A v \in Volumes : volToNode[v] = NoNode
             /\ pending = Volumes
             /\ active = {} /\ jobs = <<>>
             /\ Volumes # {} => phase # "done"
BlindInv == /\ phase \in {"limits", "report"} => known = {}
            /\ known = {} => Unlocated

LEMMA StepBlind == ASSUME TypeOK, BlindInv, [Next]_vars PROVE BlindInv'
<1>0. /\ volToNode \in [Volumes -> Nodes \cup {NoNode}]
      /\ host \in [Volumes -> Nodes]
      /\ toPoll \subseteq active /\ todo \subseteq pending
  BY DEF TypeOK
<1>1. ASSUME NEW fate \in Fates, GetReport(fate) PROVE BlindInv'
  <2>1. /\ phase = "report" /\ phase' = IF pending = {} /\ active = {} THEN "done" ELSE "poll"
        /\ UNCHANGED <<jobs, pending, active>>
    BY <1>1 DEF GetReport, NextPass, clusterVars
  <2>2. Unlocated
    BY <2>1 DEF BlindInv
  <2>3. ASSUME known' = {}, NEW v \in Volumes PROVE volToNode'[v] = NoNode
    <3> DEFINE good == SdkResult(fate, None, TRUE, FALSE)
    <3>1. PICK listed \in SUBSET Volumes :
                 /\ known' = IF good THEN Nodes ELSE {}
                 /\ volToNode' = [w \in Volumes |->
                                    IF good /\ w \in listed THEN host[w] ELSE NoNode]
      BY <1>1 DEF GetReport
    <3>2. Nodes # {}
      BY <1>0
    <3>3. ~good
      BY <2>3, <3>1, <3>2
    <3> QED BY <3>1, <3>3
  <2> QED BY <2>1, <2>2, <2>3 DEF BlindInv, Unlocated
<1>2. ASSUME NEW fate \in Fates, GetLimits(fate) PROVE BlindInv'
  BY <1>2 DEF GetLimits, BlindInv, Unlocated, clusterVars, passVars
<1>3. ASSUME phase \notin {"limits", "report"}, phase' \notin {"limits", "report"},
             known' = known, known = {} => Unlocated'
      PROVE  BlindInv'
  BY <1>3 DEF BlindInv
<1>4. ASSUME NEW fate \in Fates, NEW j \in toPoll, Poll(j, fate) PROVE BlindInv'
  <2>1. known # {}
    BY <1>0 DEF BlindInv, Unlocated
  <2> QED BY <1>3, <1>4, <2>1 DEF Poll, tableVars
<1>5. ASSUME NEW fate \in Fates, NEW v \in Volumes, Locate(v, fate) PROVE BlindInv'
  <2>1. ASSUME known = {} PROVE Unlocated'
    BY <1>5, <2>1 DEF Locate, LeaveForNextPass, BlindInv, Unlocated, clusterVars
  <2> QED BY <1>3, <1>5, <2>1 DEF Locate
<1>6. ASSUME NEW fate \in Fates, NEW v \in Volumes, Start(v, fate) PROVE BlindInv'
  <2>1. known # {}
    BY <1>6 DEF Start, BlindInv, Unlocated
  <2> QED BY <1>3, <1>6, <2>1 DEF Start, tableVars
<1>7. ASSUME NEW v \in Volumes, NodeFull(v) PROVE BlindInv'
  <2>1. known # {}
    BY <1>7 DEF NodeFull, BlindInv, Unlocated
  <2> QED BY <1>3, <1>7, <2>1 DEF NodeFull, tableVars
<1>8. ASSUME PollsDone \/ PassDone PROVE BlindInv'
  <2>1. ASSUME known = {} PROVE Unlocated'
    BY <1>8, <2>1
       DEF PollsDone, PassDone, NextPass, BlindInv, Unlocated, clusterVars, tableVars
  <2> QED BY <1>3, <1>8, <2>1 DEF PollsDone, PassDone, NextPass, tableVars
<1>9. ASSUME NEW h \in DOMAIN jobs, JobEnds(h) PROVE BlindInv'
  <2>1. jobs # << >>
    BY <1>9 DEF JobEnds
  <2> QED BY <1>9, <2>1 DEF JobEnds, BlindInv, Unlocated, tableVars, passVars
<1>10. CASE UNCHANGED vars \/ \E v \in Volumes, n \in Nodes : Move(v, n)
  BY <1>10 DEF Move, BlindInv, Unlocated, vars, clusterVars, tableVars, passVars
<1> QED BY <1>1, <1>2, <1>4, <1>5, <1>6, <1>7, <1>8, <1>9, <1>10
        DEF Next, Program, Cluster

(***************************************************************************)
(* The fallback of main.go:86 never comes about: without the report no     *)
(* volume is located, and after its phase the report does not come.        *)
(***************************************************************************)
THEOREM ReportNeeded ==
  Spec => /\ [](known = {} => Unlocated)
          /\ [][phase \notin {"limits", "report"} => known' = known]_vars
<1>1. Init => BlindInv
  BY DEF Init, BlindInv, Unlocated
<1>2. TypeOK /\ BlindInv /\ [Next]_vars => BlindInv'
  BY StepBlind
<1>3. BlindInv => (known = {} => Unlocated)
  BY DEF BlindInv
<1>4. [Next]_vars => [phase \notin {"limits", "report"} => known' = known]_vars
  BY DEF Next, Program, Cluster, PollsDone, PassDone, NodeFull, GetLimits,
         GetReport, Poll, Locate, Start, JobEnds, Move, tableVars
<1> QED BY <1>1, <1>2, <1>3, <1>4, TypeCorrect, PTL DEF Spec
=============================================================================
