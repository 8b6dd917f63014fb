-------------------------- MODULE AsyncWaitProofs ---------------------------
(***************************************************************************)
(* Theorems about AsyncWait for every set of waiters and of consumers.     *)
(***************************************************************************)
EXTENDS AsyncWait, Integers, TLAPS

LEMMA InitWait == Init => WaitInv
  BY WaitAssumption
     DEF Init, WaitInv, TypeOK, FinalInv, WaitingInv, Pollers, Statuses, Replies,
         Final

LEMMA MeetType ==
  ASSUME TypeOK, NEW fate, Meet(fate)
  PROVE  faults' \in 0 .. MaxFaults
  BY WaitAssumption DEF TypeOK, Meet

(***************************************************************************)
(* A call that reports a final status was served with that status.         *)
(***************************************************************************)
LEMMA FinalStatus ==
  ASSUME NEW p \in Pollers, NEW fate \in Fates, CallStatus(p, fate) \in Final
  PROVE  fate = "delivered" /\ reply[p] = CallStatus(p, fate)
  BY DEF CallStatus, SdkResult, Final, ZeroStatus

LEMMA Reception ==
  ASSUME WaitInv, NEW p \in Pollers, Receive(p)
  PROVE  /\ UNCHANGED <<job, stored, reply, cancelled>>
         /\ faults' \in 0 .. MaxFaults
         /\ \/ /\ pc' = [pc EXCEPT ![p] = "loop"]
               /\ outcome' = outcome
            \/ /\ pc[p] = "served"
               /\ reply[p] \in Final
               /\ pc' = [pc EXCEPT ![p] = "ended"]
               /\ outcome' = [outcome EXCEPT ![p] = reply[p]]
            \/ /\ p \in Consumers
               /\ pc' = [pc EXCEPT ![p] = "ended"]
               /\ outcome' = [outcome EXCEPT ![p] = "fatal"]
         /\ pc[p] \in {"called", "served"}
<1>1. PICK fate \in Fates : \/ p \in Waiters /\ WaiterReceives(p, fate)
                            \/ p \in Consumers /\ ConsumerReceives(p, fate)
  BY DEF Receive
<1>2. Received(p, fate)
  BY <1>1 DEF WaiterReceives, ConsumerReceives
<1>3. /\ UNCHANGED <<job, stored, reply, cancelled>>
      /\ faults' \in 0 .. MaxFaults
      /\ pc[p] \in {"called", "served"}
  BY <1>2, MeetType DEF Received, WaitInv
<1>4. CASE CallStatus(p, fate) \in Final /\ End(p, CallStatus(p, fate))
  <2>1. fate = "delivered" /\ reply[p] = CallStatus(p, fate)
    BY <1>4, FinalStatus
  <2>2. pc[p] = "served"
    BY <1>2, <2>1 DEF Received, Unanswered
  <2> QED BY <1>3, <1>4, <2>1, <2>2 DEF End
<1>5. CASE Again(p)
  BY <1>3, <1>5 DEF Again
<1>6. CASE p \in Consumers /\ End(p, "fatal")
  BY <1>3, <1>6 DEF End
<1> QED BY <1>1, <1>4, <1>5, <1>6 DEF WaiterReceives, ConsumerReceives

(***************************************************************************)
(* A final status, once in a reply, stays the status of the job.           *)
(***************************************************************************)
LEMMA StepWait == WaitInv /\ [Next]_vars => WaitInv'
<1> SUFFICES ASSUME WaitInv, [Next]_vars PROVE WaitInv'
  OBVIOUS
<1>1. TypeOK /\ FinalInv /\ WaitingInv
  BY DEF WaitInv
<1> USE DEF Pollers
<1>2. CASE UNCHANGED vars
  BY <1>1, <1>2 DEF vars, WaitInv, TypeOK, FinalInv, WaitingInv
<1>3. CASE JobStep
  <2>1. TypeOK'
    BY <1>1, <1>3 DEF JobStep, TypeOK, Statuses, Final
  <2>2. FinalInv' /\ WaitingInv'
    BY <1>1, <1>3 DEF JobStep, FinalInv, WaitingInv, Final
  <2> QED BY <2>1, <2>2 DEF WaitInv
<1>4. ASSUME NEW w \in Waiters, Cancel(w)
      PROVE  WaitInv'
  BY <1>1, <1>4 DEF Cancel, WaitInv, TypeOK, FinalInv, WaitingInv
<1>5. ASSUME NEW w \in Waiters, ContextDone(w)
      PROVE  WaitInv'
  <2>1. TypeOK'
    BY <1>1, <1>5 DEF ContextDone, TypeOK
  <2>2. FinalInv' /\ WaitingInv'
    BY <1>1, <1>5 DEF ContextDone, FinalInv, WaitingInv, TypeOK, Final
  <2> QED BY <2>1, <2>2 DEF WaitInv
<1>6. ASSUME NEW p \in Pollers, Call(p)
      PROVE  WaitInv'
  <2>1. TypeOK'
    BY <1>1, <1>6 DEF Call, TypeOK
  <2>2. FinalInv' /\ WaitingInv'
    BY <1>1, <1>6 DEF Call, FinalInv, WaitingInv, TypeOK
  <2> QED BY <2>1, <2>2 DEF WaitInv
<1>7. ASSUME NEW p \in Pollers, Serve(p)
      PROVE  WaitInv'
  <2>1. TypeOK'
    BY <1>1, <1>7 DEF Serve, TypeOK, Replies, Statuses
  <2>2. FinalInv'
    BY <1>1, <1>7 DEF Serve, FinalInv, TypeOK, Final
  <2>3. WaitingInv'
    BY <1>1, <1>7 DEF Serve, WaitingInv, TypeOK
  <2> QED BY <2>1, <2>2, <2>3 DEF WaitInv
<1>8. ASSUME NEW p \in Pollers, Receive(p)
      PROVE  WaitInv'
  <2>1. UNCHANGED <<job, stored, reply, cancelled>> /\ faults' \in 0 .. MaxFaults
    BY <1>8, Reception
  <2>2. CASE /\ pc' = [pc EXCEPT ![p] = "loop"] /\ outcome' = outcome
             /\ pc[p] \in {"called", "served"}
    <3>1. TypeOK'
      BY <1>1, <2>1, <2>2 DEF TypeOK
    <3>2. FinalInv' /\ WaitingInv'
      BY <1>1, <2>1, <2>2 DEF FinalInv, WaitingInv, TypeOK
    <3> QED BY <3>1, <3>2 DEF WaitInv
  <2>3. CASE /\ pc[p] = "served" /\ reply[p] \in Final
             /\ pc' = [pc EXCEPT ![p] = "ended"]
             /\ outcome' = [outcome EXCEPT ![p] = reply[p]]
    <3>1. TypeOK'
      BY <1>1, <2>1, <2>3 DEF TypeOK
    <3>2. FinalInv' /\ WaitingInv'
      BY <1>1, <2>1, <2>3 DEF FinalInv, WaitingInv, TypeOK, Final
    <3> QED BY <3>1, <3>2 DEF WaitInv
  <2>4. CASE /\ p \in Consumers
             /\ pc' = [pc EXCEPT ![p] = "ended"]
             /\ outcome' = [outcome EXCEPT ![p] = "fatal"]
    <3>1. TypeOK'
      BY <1>1, <2>1, <2>4 DEF TypeOK
    <3>2. FinalInv'
      BY <1>1, <2>1, <2>4 DEF FinalInv, TypeOK, Final
    <3>3. WaitingInv'
      BY <1>1, <2>4, WaitAssumption DEF WaitingInv, TypeOK
    <3> QED BY <3>1, <3>2, <3>3 DEF WaitInv
  <2> QED BY <1>8, <2>2, <2>3, <2>4, Reception
<1> QED BY <1>2, <1>3, <1>4, <1>5, <1>6, <1>7, <1>8 DEF Next

LEMMA WaitInvariant == Spec => []WaitInv
  BY InitWait, StepWait, PTL DEF Spec

(***************************************************************************)
(* Every variable keeps its type.                                          *)
(***************************************************************************)
THEOREM TypeCorrect == Spec => []TypeOK
<1>1. WaitInv => TypeOK
  BY DEF WaitInv
<1> QED BY <1>1, WaitInvariant, PTL

(***************************************************************************)
(* KeepResult in the requests of WaitForAsyncResult (sdk/async_utils.go)   *)
(* makes the result outlive every wait: where nobody else asks for it, the *)
(* cluster keeps it, so FinishedReported asks nothing of the other waiters.*)
(***************************************************************************)
THEOREM ResultKept ==
  ASSUME Consumers = {}
  PROVE  Spec => []stored
<1>1. Init => stored
  BY DEF Init
<1>2. stored /\ [Next]_vars => stored'
  BY DEF Next, vars, JobStep, Cancel, ContextDone, Call, Serve, Removes,
         Receive, WaiterReceives, ConsumerReceives, Received
<1> QED BY <1>1, <1>2, PTL DEF Spec

(***************************************************************************)
(* BackupToS3Simple does not ask for KeepResult.  When the reply with the  *)
(* final status of the job does not reach the program that asked, that     *)
(* status is out of reach for it and for every other program, however      *)
(* often they ask again.                                                   *)
(***************************************************************************)
Holds(k) == \/ pc[k] = "served" /\ reply[k] \in Final
            \/ outcome[k] \in Final
OutOfReach == ~stored /\ \A k \in Consumers : ~Holds(k)

(***************************************************************************)
(* Once out of reach, the final status stays so, whatever the programs     *)
(* that poll the handle do.                                                *)
(***************************************************************************)
THEOREM LostForGood == Spec => [][OutOfReach => OutOfReach']_vars
<1>1. ASSUME WaitInv, [Next]_vars, OutOfReach PROVE OutOfReach'
  <2> USE <1>1 DEF OutOfReach, Holds, Pollers
  <2>1. TypeOK
    BY DEF WaitInv
  <2>2. CASE UNCHANGED vars
    BY <2>2 DEF vars
  <2>3. CASE JobStep
    BY <2>3 DEF JobStep
  <2>4. ASSUME NEW w \in Waiters, Cancel(w) \/ ContextDone(w)
        PROVE  OutOfReach'
    BY <2>1, <2>4, WaitAssumption DEF Cancel, ContextDone, TypeOK
  <2>5. ASSUME NEW p \in Pollers, Call(p)
        PROVE  OutOfReach'
    BY <2>1, <2>5 DEF Call, TypeOK
  <2>6. ASSUME NEW p \in Pollers, Serve(p)
        PROVE  OutOfReach'
    BY <2>1, <2>6 DEF Serve, TypeOK, Final
  <2>7. ASSUME NEW p \in Pollers, Receive(p)
        PROVE  OutOfReach'
    <3>1. UNCHANGED <<stored, reply>>
      BY <2>7, Reception
    <3>2. CASE pc' = [pc EXCEPT ![p] = "loop"] /\ outcome' = outcome
      BY <2>1, <3>1, <3>2 DEF TypeOK
    <3>3. CASE /\ pc[p] = "served" /\ reply[p] \in Final
               /\ pc' = [pc EXCEPT ![p] = "ended"]
               /\ outcome' = [outcome EXCEPT ![p] = reply[p]]
      <4>1. p \notin Consumers
        BY <3>3
      <4> QED BY <2>1, <3>1, <3>3, <4>1 DEF TypeOK
    <3>4. CASE /\ p \in Consumers
               /\ pc' = [pc EXCEPT ![p] = "ended"]
               /\ outcome' = [outcome EXCEPT ![p] = "fatal"]
      BY <2>1, <3>1, <3>4 DEF TypeOK, Final
    <3> QED BY <2>7, <3>2, <3>3, <3>4, Reception
  <2> QED BY <2>2, <2>3, <2>4, <2>5, <2>6, <2>7 DEF Next
<1> QED BY <1>1, WaitInvariant, PTL DEF Spec

(***************************************************************************)
(* WaitForAsyncResult keeps the promise of JobFuture.                      *)
(***************************************************************************)
THEOREM FuturePromised == Spec => FuturePromise
<1>1. Init => Future!Init
  BY DEF Init, Future!Init, Pollers
<1>2. WaitInv /\ [Next]_vars => [Future!Next]_(Future!vars)
  <2> SUFFICES ASSUME WaitInv, [Next]_vars
               PROVE  Future!Next \/ UNCHANGED Future!vars
    OBVIOUS
  <2>1. TypeOK /\ WaitingInv /\ FinalInv
    BY DEF WaitInv
  <2> USE DEF Pollers
  <2>2. CASE UNCHANGED vars
    BY <2>2 DEF vars, Future!vars
  <2>3. CASE JobStep
    BY <2>3 DEF JobStep, Future!Next, Future!Finish, Future!vars, Final, Future!Final
  <2>4. ASSUME NEW w \in Waiters, Cancel(w)
        PROVE  Future!Next
    BY <2>4 DEF Cancel, Future!Next, Future!Cancel
  <2>5. ASSUME NEW w \in Waiters, NEW o \in Final \cup {"ctx"},
               o = job \/ (o = "ctx" /\ cancelled[w]),
               pc[w] # "ended",
               outcome' = [outcome EXCEPT ![w] = o],
               UNCHANGED <<job, cancelled>>
        PROVE  Future!Next
    <3>1. outcome[w] = "none"
      BY <2>1, <2>5 DEF WaitingInv
    <3>2. [u \in Waiters |-> outcome'[u]]
            = [[u \in Waiters |-> outcome[u]] EXCEPT ![w] = o]
      BY <2>1, <2>5 DEF TypeOK
    <3>3. Future!Resolve(w, o)
      BY <2>1, <2>5, <3>1, <3>2
         DEF Future!Resolve, Future!Final, Final, TypeOK, Statuses
    <3> QED BY <3>3 DEF Future!Next, Future!Final, Final
  <2>6. ASSUME NEW k \in Consumers, NEW o,
               outcome' = [outcome EXCEPT ![k] = o],
               UNCHANGED <<job, cancelled>>
        PROVE  UNCHANGED Future!vars
    BY <2>1, <2>6, WaitAssumption DEF TypeOK, Future!vars
  <2>7. ASSUME NEW w \in Waiters, ContextDone(w)
        PROVE  Future!Next
    BY <2>5, <2>7 DEF ContextDone
  <2>8. ASSUME NEW p \in Pollers, Call(p) \/ Serve(p)
        PROVE  UNCHANGED Future!vars
    BY <2>8 DEF Call, Serve, Future!vars
  <2>9. ASSUME NEW p \in Pollers, Receive(p)
        PROVE  Future!Next \/ UNCHANGED Future!vars
    <3>1. UNCHANGED <<job, stored, reply, cancelled>>
      BY <2>9, Reception
    <3>2. CASE outcome' = outcome
      BY <3>1, <3>2 DEF Future!vars
    <3>3. CASE /\ pc[p] = "served" /\ reply[p] \in Final
               /\ outcome' = [outcome EXCEPT ![p] = reply[p]]
      <4>1. reply[p] = job
        BY <2>1, <3>3 DEF FinalInv
      <4>2. CASE p \in Waiters
        <5>1. pc[p] # "ended" /\ UNCHANGED <<job, cancelled>>
          BY <3>1, <3>3
        <5> QED BY <2>5, <3>3, <4>1, <4>2, <5>1
      <4>3. CASE p \in Consumers
        BY <2>6, <3>1, <3>3, <4>3
      <4> QED BY <4>2, <4>3
    <3>4. CASE p \in Consumers /\ outcome' = [outcome EXCEPT ![p] = "fatal"]
      BY <2>6, <3>1, <3>4
    <3> QED BY <2>9, <3>2, <3>3, <3>4, Reception
  <2> QED BY <2>2, <2>3, <2>4, <2>7, <2>8, <2>9 DEF Next
<1> QED BY <1>1, <1>2, WaitInvariant, PTL DEF Spec, FuturePromise, Future!Spec
=============================================================================
