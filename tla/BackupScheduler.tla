-------------------------- MODULE BackupScheduler ---------------------------
(***************************************************************************)
(* RunSmartBackup of example/s3-backup/main.go: one goroutine that starts  *)
(* a backup job for each volume, never more at once on a node than the     *)
(* cluster's limit less a reserve, and polls the jobs it started.  It runs *)
(* against a cluster whose jobs end when they like, whose volumes may move *)
(* to another node, and whose replies may not arrive.                      *)
(***************************************************************************)
EXTENDS SFCall, Integers, Sequences, FiniteSets

CONSTANTS
  Volumes,     \* the IDs in volumeIDs, which are distinct
  Nodes,       \* nodes; the metadata service of a node is identified with it
  NoNode,      \* not a key of volToNode
  Cap,         \* BulkVolumeJobsPerNodeMax, which the cluster enforces
  MaxFaults,   \* bound: calls that do not end well
  MaxMoves     \* bound: volumes that change node

ASSUME BackupAssumption ==
  /\ IsFiniteSet(Volumes)
  /\ IsFiniteSet(Nodes)
  /\ NoNode \notin Nodes
  /\ Cap \in Nat \ {0}
  /\ MaxFaults \in Nat
  /\ MaxMoves \in Nat

VARIABLES
  jobs,       \* cluster: jobs[h] is the bulk volume job with handle h
  host,       \* cluster: host[v]: the primary node of volume v
  faults,     \* number of calls that did not end well
  moves,      \* number of moves of volumes
  phase,      \* where RunSmartBackup is
  maxJobs,    \* maxJobsPerNode
  known,      \* keys of serviceToNode
  volToNode,  \* volToNode[v], or NoNode
  pending,    \* pendingVolumes, less those started in this pass
  todo,       \* pending volumes still to be looked at in this pass
  active,     \* activeJobs, less those found finished in this pass
  toPoll,     \* active jobs still to be polled in this pass
  load,       \* nodeActiveJobs
  report      \* report[v]: the end of the job of v that was printed

clusterVars == <<jobs, host>>
tableVars   == <<maxJobs, known, volToNode>>
passVars    == <<pending, todo, active, toPoll, load, report>>
vars        == <<clusterVars, faults, moves, phase, tableVars, passVars>>

Final    == {"complete", "error"}
NoHandle == 0
ZeroStatus == ""

Job       == [vol : Volumes, node : Nodes, status : {"running"} \cup Final,
              stored : BOOLEAN]
ActiveJob == [vol : Volumes, node : Nodes, handle : Nat]

Init ==
  /\ jobs = <<>>
  /\ host \in [Volumes -> Nodes]
  /\ faults = 0
  /\ moves = 0
  /\ phase = "limits"
  /\ maxJobs = 0
  /\ known = {}
  /\ volToNode = [v \in Volumes |-> NoNode]
  /\ pending = Volumes
  /\ todo = {}
  /\ active = {}
  /\ toPoll = {}
  /\ load = [n \in Nodes |-> 0]
  /\ report = [v \in Volumes |-> "none"]
-----------------------------------------------------------------------------
(***************************************************************************)
(* The cluster.                                                            *)
(***************************************************************************)
Running(h) == jobs[h].status = "running"
RunningOn(n)    == {h \in DOMAIN jobs : Running(h) /\ jobs[h].node = n}
RunningOf(v)    == {h \in DOMAIN jobs : Running(h) /\ jobs[h].vol = v}

JobEnds(h) ==
  /\ h \in DOMAIN jobs /\ Running(h)
  /\ \E s \in Final : jobs' = [jobs EXCEPT ![h].status = s]
  /\ UNCHANGED <<host, faults, moves, phase, tableVars, passVars>>

Move(v, n) ==
  /\ moves < MaxMoves
  /\ host[v] # n
  /\ host' = [host EXCEPT ![v] = n]
  /\ moves' = moves + 1
  /\ UNCHANGED <<jobs, faults, phase, tableVars, passVars>>

Meet(fate) ==
  /\ fate = "delivered" \/ faults < MaxFaults
  /\ faults' = IF fate = "delivered" THEN faults ELSE faults + 1

(***************************************************************************)
(* A node takes no more than Cap bulk volume jobs, a volume no more than   *)
(* two.                                                                    *)
(***************************************************************************)
StartRefusal(v) == IF \/ Cardinality(RunningOn(host[v])) >= Cap
                      \/ Cardinality(RunningOf(v)) >= 2
                   THEN "limit" ELSE None

ExecuteStart(v) ==
  /\ jobs' = IF StartRefusal(v) # None THEN jobs
             ELSE Append(jobs, [vol |-> v, node |-> host[v],
                                status |-> "running", stored |-> TRUE])
  /\ UNCHANGED host

(***************************************************************************)
(* GetAsyncResult without KeepResult: the result is removed when its final *)
(* status is returned, and its handle is unknown from then on.             *)
(***************************************************************************)
Stored(h)     == h \in DOMAIN jobs /\ jobs[h].stored
Status(h)     == IF Stored(h) THEN jobs[h].status ELSE "unknown"
ExecutePoll(h) ==
  /\ jobs' = IF Status(h) \in Final THEN [jobs EXCEPT ![h].stored = FALSE]
             ELSE jobs
  /\ UNCHANGED host

(***************************************************************************)
(* A call that meets the given fate: its request, Execute, is served, or   *)
(* it is not.                                                              *)
(***************************************************************************)
Call(fate, Execute) ==
  /\ Meet(fate)
  /\ \/ fate # "refused" /\ Execute
     \/ fate # "delivered" /\ UNCHANGED clusterVars
  /\ UNCHANGED moves
-----------------------------------------------------------------------------
(***************************************************************************)
(* Before the loop.                                                        *)
(***************************************************************************)
Reduced(limit) == IF limit > 2 THEN limit - 2 ELSE limit
ReducedAlways(limit) == limit - 2                                 \* mutant
MaxJobsFor(limit) == Reduced(IF limit > 0 THEN limit ELSE 8)

GetLimits(fate) ==
  /\ phase = "limits"
  /\ Meet(fate)
  /\ IF SdkError(fate, None) # None
     THEN phase' = "fatal" /\ UNCHANGED maxJobs
     ELSE /\ phase' = "report"
          /\ maxJobs' = MaxJobsFor(SdkResult(fate, None, Cap, 0))
  /\ UNCHANGED <<clusterVars, moves, known, volToNode, passVars>>

(***************************************************************************)
(* The top of the loop and its condition.                                  *)
(***************************************************************************)
NextPassIfPending(p, a) ==                                        \* mutant
  /\ phase' = IF p = {} THEN "done" ELSE "poll"
  /\ toPoll' = a

NextPass(p, a) ==
  /\ phase' = IF p = {} /\ a = {} THEN "done" ELSE "poll"
  /\ toPoll' = a

(***************************************************************************)
(* The slices report lists every service and some of the volumes.  Without *)
(* it both tables stay empty.                                              *)
(***************************************************************************)
GetReport(fate) ==
  /\ phase = "report"
  /\ Meet(fate)
  /\ \E listed \in SUBSET Volumes :
       LET good == SdkResult(fate, None, TRUE, FALSE)
       IN  /\ known' = IF good THEN Nodes ELSE {}
           /\ volToNode' = [v \in Volumes |->
                              IF good /\ v \in listed THEN host[v] ELSE NoNode]
  /\ NextPass(pending, active)
  /\ UNCHANGED <<clusterVars, moves, maxJobs, pending, todo, active, load, report>>
-----------------------------------------------------------------------------
(***************************************************************************)
(* One pass of the loop, part A: poll the active jobs.                     *)
(***************************************************************************)
PollError(j, fate) ==
  SdkError(fate, IF Stored(j.handle) THEN None ELSE "unknown")
PollStatusErrorIsEnd(j, fate) ==                                  \* mutant
  IF PollError(j, fate) # None THEN "complete"
  ELSE SdkResult(fate, None, Status(j.handle), ZeroStatus)

PollStatusCompleteOnly(j, fate) ==                                \* mutant
  IF PollError(j, fate) = None /\ Status(j.handle) = "complete"
  THEN SdkResult(fate, None, "complete", ZeroStatus) ELSE ZeroStatus

PollStatus(j, fate) ==
  IF PollError(j, fate) # None THEN ZeroStatus
  ELSE SdkResult(fate, None, Status(j.handle), ZeroStatus)

DecrementOnComplete(n, s) ==                                      \* mutant
  load' = IF s = "complete" THEN [load EXCEPT ![n] = @ - 1] ELSE load
Decrement(n, s) == load' = [load EXCEPT ![n] = @ - 1]

Poll(j, fate) ==
  /\ phase = "poll"
  /\ j \in toPoll
  /\ Call(fate, ExecutePoll(j.handle))
  /\ toPoll' = toPoll \ {j}
  /\ \/ /\ PollStatus(j, fate) \in Final
        /\ active' = active \ {j}
        /\ Decrement(j.node, PollStatus(j, fate))
        /\ report' = [report EXCEPT ![j.vol] = PollStatus(j, fate)]
     \/ /\ PollStatus(j, fate) \notin Final
        /\ UNCHANGED <<active, load, report>>
  /\ UNCHANGED <<phase, tableVars, pending, todo>>

PollsDone ==
  /\ phase = "poll"
  /\ toPoll = {}
  /\ phase' = "schedule"
  /\ todo' = pending
  /\ UNCHANGED <<clusterVars, faults, moves, tableVars, pending, active, toPoll,
                 load, report>>

(***************************************************************************)
(* Part B: look at the pending volumes.  The stats of one that the report  *)
(* does not list name its service, which serviceToNode may have.           *)
(***************************************************************************)
Dropped(v) == todo' = todo \ {v} /\ pending' = pending \ {v}     \* mutant
LeaveForNextPass(v) == todo' = todo \ {v} /\ UNCHANGED pending
TakeUp(v) == todo' = todo \ {v} /\ pending' = pending \ {v}

Locate(v, fate) ==
  /\ phase = "schedule"
  /\ v \in todo
  /\ volToNode[v] = NoNode
  /\ Meet(fate)
  /\ LET service == SdkResult(fate, None, host[v], NoNode)
     IN  \/ /\ service \in known
            /\ volToNode' = [volToNode EXCEPT ![v] = service]
            /\ UNCHANGED <<pending, todo>>
         \/ /\ service \notin known
            /\ LeaveForNextPass(v)
            /\ UNCHANGED volToNode
  /\ UNCHANGED <<clusterVars, moves, phase, maxJobs, known, active, toPoll, load,
                 report>>

HasRoomForOneMore(n) == load[n] <= maxJobs                        \* mutant
HasRoom(n) == load[n] < maxJobs

NodeFull(v) ==
  /\ phase = "schedule"
  /\ v \in todo
  /\ volToNode[v] # NoNode
  /\ ~HasRoom(volToNode[v])
  /\ LeaveForNextPass(v)
  /\ UNCHANGED <<clusterVars, faults, moves, phase, tableVars, active, toPoll,
                 load, report>>

(***************************************************************************)
(* startBackupJob.  A cut reply leaves the zero AsyncHandle behind, and no *)
(* error.                                                                  *)
(***************************************************************************)
Start(v, fate) ==
  LET at     == volToNode[v]
      err    == SdkError(fate, StartRefusal(v))
      handle == SdkResult(fate, StartRefusal(v), Len(jobs) + 1, NoHandle)
  IN  /\ phase = "schedule"
      /\ v \in todo
      /\ at # NoNode
      /\ HasRoom(at)
      /\ Call(fate, ExecuteStart(v))
      /\ \/ /\ err = None
            /\ active' = active \cup {[vol |-> v, node |-> at, handle |-> handle]}
            /\ load' = [load EXCEPT ![at] = @ + 1]
            /\ TakeUp(v)
         \/ /\ err # None
            /\ LeaveForNextPass(v)
            /\ UNCHANGED <<active, load>>
      /\ UNCHANGED <<phase, tableVars, toPoll, report>>

PassDone ==
  /\ phase = "schedule"
  /\ todo = {}
  /\ NextPass(pending, active)
  /\ UNCHANGED <<clusterVars, faults, moves, tableVars, pending, todo, active,
                 load, report>>
-----------------------------------------------------------------------------
Program ==
  \/ PollsDone
  \/ PassDone
  \/ \E v \in Volumes : NodeFull(v)
  \/ \E fate \in Fates : \/ GetLimits(fate)
                         \/ GetReport(fate)
                         \/ \E j \in toPoll : Poll(j, fate)
                         \/ \E v \in Volumes : Locate(v, fate) \/ Start(v, fate)

Cluster == \/ \E h \in DOMAIN jobs : JobEnds(h)
           \/ \E v \in Volumes, n \in Nodes : Move(v, n)

Next == Program \/ Cluster

Spec == Init /\ [][Next]_vars

(***************************************************************************)
(* The goroutine runs on, calls return, and every job ends.                *)
(***************************************************************************)
FairSpec == /\ Spec
            /\ WF_vars(Program)
            /\ \A h \in 1 .. Cardinality(Volumes) + MaxFaults : WF_vars(JobEnds(h))
-----------------------------------------------------------------------------
TypeOK ==
  /\ jobs \in Seq(Job)
  /\ host \in [Volumes -> Nodes]
  /\ faults \in 0 .. MaxFaults
  /\ moves \in 0 .. MaxMoves
  /\ phase \in {"limits", "report", "poll", "schedule", "done", "fatal"}
  /\ maxJobs \in Nat
  /\ known \subseteq Nodes
  /\ volToNode \in [Volumes -> Nodes \cup {NoNode}]
  /\ pending \subseteq Volumes
  /\ todo \subseteq pending
  /\ active \subseteq ActiveJob
  /\ toPoll \subseteq active
  /\ load \in [Nodes -> Int]
  /\ report \in [Volumes -> {"none"} \cup Final]

(***************************************************************************)
(* nodeActiveJobs, adjusted at every start and end, counts the active jobs *)
(* of each node.                                                           *)
(***************************************************************************)
ActiveOn(n) == {j \in active : j.node = n}
LoadCounts  == \A n \in Nodes : load[n] = Cardinality(ActiveOn(n))

(***************************************************************************)
(* No volume is forgotten or backed up twice by the program's own books:   *)
(* it is pending, or it has one active job, or its end was printed.        *)
(***************************************************************************)
Conservation ==
  /\ \A j, k \in active : j.vol = k.vol => j = k
  /\ \A v \in Volumes :
       Cardinality({p \in {"pending", "active", "ended"} :
                      \/ p = "pending" /\ v \in pending
                      \/ p = "active"  /\ \E j \in active : j.vol = v
                      \/ p = "ended"   /\ report[v] # "none"}) = 1

(***************************************************************************)
(* The jobs that really run on a node exceed the limit only by starts      *)
(* whose answer did not come, and by volumes that moved since they were    *)
(* located.                                                                *)
(***************************************************************************)
NodeLimit ==
  \A n \in Nodes : Cardinality(RunningOn(n)) <= maxJobs + faults + moves

(***************************************************************************)
(* An end that was printed is the end of a job of that volume.             *)
(***************************************************************************)
ReportTrue ==
  \A v \in Volumes : report[v] # "none" =>
    \E h \in DOMAIN jobs : jobs[h].vol = v /\ jobs[h].status = report[v]

(***************************************************************************)
(* When the program says that all is done, every volume was backed up, or  *)
(* its backup failed, as it was printed.                                   *)
(***************************************************************************)
DoneMeansBackedUp ==
  phase = "done" =>
    \A v \in Volumes : \E h \in DOMAIN jobs :
      jobs[h].vol = v /\ jobs[h].status = report[v]

(***************************************************************************)
(* Of any group of volumes, as many are backed up as have been taken up,   *)
(* once each: each job more was started by a call that seemed to fail, and *)
(* each job less by one that seemed to succeed.                            *)
(***************************************************************************)
BackupsOf(S) == {h \in DOMAIN jobs : jobs[h].vol \in S}
BackupsCounted ==
  \A S \in SUBSET Volumes :
    Cardinality(BackupsOf(S)) - Cardinality(S \ pending) \in -faults .. faults

(***************************************************************************)
(* An active job is stuck, and takes up a place on its node for ever, when *)
(* the cluster has no result for its handle (any more): every poll of it   *)
(* fails.  Each one cost a call that did not end well, the start of the    *)
(* job or the poll that was to report its end: no result is asked for      *)
(* without the answer being used, and none is asked for by two polls.      *)
(***************************************************************************)
StuckJobs == {j \in active : ~Stored(j.handle)}
StuckJobsCounted == Cardinality(StuckJobs) <= faults

(***************************************************************************)
(* The program keeps the promise of BackupPromise to every volume: lost    *)
(* answers, repeated starts and moves never show as a step back or as an   *)
(* end that no job came to.  A volume that is neither pending nor active   *)
(* nor ended is lost.                                                      *)
(***************************************************************************)
Stage(v) == CASE report[v] # "none"              -> report[v]
              [] v \in pending                   -> "pending"
              [] \E j \in active : j.vol = v     -> "active"
              [] OTHER                           -> "lost"
EndsOf(v) == {s \in Final : \E h \in DOMAIN jobs :
                              jobs[h].vol = v /\ jobs[h].status = s}
Promise == INSTANCE BackupPromise
             WITH stage <- [v \in Volumes |-> Stage(v)],
                  ends  <- [v \in Volumes |-> EndsOf(v)]
KeepsPromise == Promise!Spec

(***************************************************************************)
(* The run ends, provided that the report came and that no final status    *)
(* was lost on its way or any handle cut off: a poll of a result removed   *)
(* before fails for ever, and its job stays active.                        *)
(***************************************************************************)
Located   == phase \in {"poll", "schedule"} => known = Nodes
AllStored == \A j \in active : Stored(j.handle)
Terminates == []Located /\ []AllStored => <>(phase \in {"done", "fatal"})
-----------------------------------------------------------------------------
(***************************************************************************)
(* What a comment says and the code does not do.                           *)
(***************************************************************************)

(***************************************************************************)
(* example/s3-backup/main.go:86: without the report the program falls back *)
(* to GetVolumeStats.  So every pending volume is located in the end.      *)
(***************************************************************************)
FallbackLocates ==
  \A v \in Volumes :
    v \in pending ~> (volToNode[v] # NoNode \/ phase = "fatal")
=============================================================================
