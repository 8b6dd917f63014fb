----------------------------- MODULE AsyncWait ------------------------------
(***************************************************************************)
(* Waiting for one asynchronous job of the cluster.  Waiters run           *)
(* WaitForAsyncResult (sdk/async_utils.go), which asks the cluster to keep *)
(* the result; consumers run the loop of BackupToS3Simple                  *)
(* (example/s3-backup/main.go), which does not, so that the cluster        *)
(* removes the result when it returns it.                                  *)
(*                                                                         *)
(* A call is three steps: it is made, the cluster serves it, the caller    *)
(* receives the reply.  In between, the caller is blocked in client.Do,    *)
(* which knows neither a timeout nor the context.                          *)
(***************************************************************************)
EXTENDS SFCall

CONSTANTS
  Waiters,    \* goroutines in WaitForAsyncResult
  Consumers,  \* programs in BackupToS3Simple
  MaxFaults   \* bound: calls that do not end well

ASSUME WaitAssumption == /\ Waiters \cap Consumers = {}
                         /\ MaxFaults \in Nat

VARIABLES
  job,        \* cluster: hidden (not yet visible), running, or its final status
  stored,     \* cluster: the result has not been removed
  pc,         \* pc[p]: where p is in its loop
  reply,      \* reply[p]: the cluster's reply to the call of p
  cancelled,  \* cancelled[w]: the context of waiter w is done
  outcome,    \* outcome[p]: what p ended with
  faults      \* number of calls that did not end well

vars == <<job, stored, pc, reply, cancelled, outcome, faults>>

Pollers == Waiters \cup Consumers
Final   == {"complete", "error"}

(***************************************************************************)
(* Status is "" in the zero result.  "unknown" is the cluster's refusal of *)
(* a handle that is not visible yet, or no longer.                         *)
(***************************************************************************)
ZeroStatus == ""
Statuses   == {"running"} \cup Final
Replies    == Statuses \cup {"unknown"}

Init ==
  /\ job \in {"hidden", "running"}
  /\ stored = TRUE
  /\ pc = [p \in Pollers |-> "loop"]
  /\ reply = [p \in Pollers |-> "unknown"]
  /\ cancelled = [w \in Waiters |-> FALSE]
  /\ outcome = [p \in Pollers |-> "none"]
  /\ faults = 0
-----------------------------------------------------------------------------
(***************************************************************************)
(* The cluster and the caller of WaitForAsyncResult.                       *)
(***************************************************************************)
JobStep ==
  /\ \/ job = "hidden" /\ job' = "running"
     \/ job = "running" /\ job' \in Final
  /\ UNCHANGED <<stored, pc, reply, cancelled, outcome, faults>>

Cancel(w) ==
  /\ ~cancelled[w]
  /\ cancelled' = [cancelled EXCEPT ![w] = TRUE]
  /\ UNCHANGED <<job, stored, pc, reply, outcome, faults>>

(***************************************************************************)
(* GetAsyncResult at the cluster.  KeepResult is true in the waiters'      *)
(* requests and absent from the consumers'.                                *)
(***************************************************************************)
KeepsNothing(p) == job \in Final                                  \* mutant
Removes(p) == p \in Consumers /\ job \in Final

Serve(p) ==
  /\ pc[p] = "called"
  /\ reply' = [reply EXCEPT ![p] =
                 IF stored /\ job # "hidden" THEN job ELSE "unknown"]
  /\ stored' = (stored /\ ~Removes(p))
  /\ pc' = [pc EXCEPT ![p] = "served"]
  /\ UNCHANGED <<job, cancelled, outcome, faults>>

(***************************************************************************)
(* A tick, or the top of a consumer's loop.  When the context is done too, *)
(* select may still choose the tick.                                       *)
(***************************************************************************)
Call(p) ==
  /\ pc[p] = "loop"
  /\ pc' = [pc EXCEPT ![p] = "called"]
  /\ UNCHANGED <<job, stored, reply, cancelled, outcome, faults>>

ContextCheckedFirstOnly(w) ==                                     \* mutant
  /\ pc[w] = "loop" /\ reply[w] = "unknown" /\ cancelled[w]
  /\ outcome' = [outcome EXCEPT ![w] = "ctx"]
  /\ pc' = [pc EXCEPT ![w] = "ended"]
  /\ UNCHANGED <<job, stored, reply, cancelled, faults>>

ContextDone(w) ==
  /\ pc[w] = "loop"
  /\ cancelled[w]
  /\ outcome' = [outcome EXCEPT ![w] = "ctx"]
  /\ pc' = [pc EXCEPT ![w] = "ended"]
  /\ UNCHANGED <<job, stored, reply, cancelled, faults>>

Meet(fate) ==
  /\ fate = "delivered" \/ faults < MaxFaults
  /\ faults' = IF fate = "delivered" THEN faults ELSE faults + 1

Refusal(p) == IF reply[p] = "unknown" THEN "unknown" ELSE None
CallError(p, fate)  == SdkError(fate, Refusal(p))
CallStatus(p, fate) == SdkResult(fate, Refusal(p), reply[p], ZeroStatus)

End(p, o) ==
  /\ outcome' = [outcome EXCEPT ![p] = o]
  /\ pc' = [pc EXCEPT ![p] = "ended"]

Again(p) ==
  /\ pc' = [pc EXCEPT ![p] = "loop"]
  /\ UNCHANGED outcome

(***************************************************************************)
(* The outcome of a call.  It may be lost before the cluster serves it     *)
(* too, which shows to the others like a loss after a service that removed *)
(* nothing.                                                                *)
(***************************************************************************)
Received(p, fate) ==
  /\ \/ pc[p] = "served"
     \/ pc[p] = "called" /\ fate \in Unanswered
  /\ Meet(fate)
  /\ UNCHANGED <<job, stored, reply, cancelled>>

(***************************************************************************)
(* Any error of the call counts as transient.  A status that is not final, *)
(* the zero one of a cut reply included, means running.                    *)
(***************************************************************************)
ReceiveOrGiveUp(w, fate) ==                                       \* mutant
  /\ Received(w, fate)
  /\ IF CallError(w, fate) # None THEN End(w, "error") ELSE Again(w)

ReceiveNotRunning(w, fate) ==                                     \* mutant
  /\ Received(w, fate)
  /\ IF CallError(w, fate) = None /\ CallStatus(w, fate) # "running"
       THEN End(w, CallStatus(w, fate)) ELSE Again(w)

WaiterReceives(w, fate) ==
  /\ Received(w, fate)
  /\ \/ CallStatus(w, fate) \in Final /\ End(w, CallStatus(w, fate))
     \/ CallStatus(w, fate) \notin Final /\ Again(w)

(***************************************************************************)
(* log.Fatalf ends a consumer when the call or the job failed.             *)
(***************************************************************************)
ConsumerReceives(k, fate) ==
  /\ Received(k, fate)
  /\ \/ CallError(k, fate) # None /\ End(k, "fatal")
     \/ CallStatus(k, fate) \in Final /\ End(k, CallStatus(k, fate))
     \/ CallError(k, fate) = None /\ CallStatus(k, fate) \notin Final /\ Again(k)
-----------------------------------------------------------------------------
Receive(p) == \E fate \in Fates : \/ p \in Waiters /\ WaiterReceives(p, fate)
                                  \/ p \in Consumers /\ ConsumerReceives(p, fate)

Next ==
  \/ JobStep
  \/ \E w \in Waiters : Cancel(w) \/ ContextDone(w)
  \/ \E p \in Pollers : Call(p) \/ Serve(p) \/ Receive(p)

Spec == Init /\ [][Next]_vars

(***************************************************************************)
(* The ticker keeps ticking.  Select chooses at random among what is       *)
(* ready, so a context that stays done is chosen sooner or later.          *)
(***************************************************************************)
WaiterFairness == \A w \in Waiters : WF_vars(Call(w)) /\ SF_vars(ContextDone(w))

(***************************************************************************)
(* The cluster serves every call and the reply, or the loss of it, reaches *)
(* the caller.  Nothing in the code provides for the other case.           *)
(***************************************************************************)
Answering == \A w \in Waiters : WF_vars(Serve(w)) /\ WF_vars(Receive(w))

FairSpec   == Spec /\ WaiterFairness /\ Answering
SilentSpec == Spec /\ WaiterFairness
-----------------------------------------------------------------------------
TypeOK ==
  /\ job \in {"hidden"} \cup Statuses
  /\ stored \in BOOLEAN
  /\ pc \in [Pollers -> {"loop", "called", "served", "ended"}]
  /\ reply \in [Pollers -> Replies]
  /\ cancelled \in [Waiters -> BOOLEAN]
  /\ outcome \in [Pollers -> {"none", "ctx", "fatal"} \cup Final]
  /\ faults \in 0 .. MaxFaults

(***************************************************************************)
(* A waiter keeps the promise of JobFuture: a hidden job, a removed result *)
(* or a bad reply never shows as an end of the job, and only a context     *)
(* that is done shows as its error.                                        *)
(***************************************************************************)
Future == INSTANCE JobFuture
            WITH job     <- IF job = "hidden" THEN "running" ELSE job,
                 outcome <- [w \in Waiters |-> outcome[w]]
FuturePromise == Future!Spec

(***************************************************************************)
(* Why: a final status, in a reply or returned, is the status of the job   *)
(* for good.                                                               *)
(***************************************************************************)
FinalInv  == \A p \in Pollers : /\ reply[p] \in Final => job = reply[p]
                                /\ outcome[p] \in Final => job = outcome[p]
WaitingInv == \A w \in Waiters : pc[w] # "ended" <=> outcome[w] = "none"
WaitInv == TypeOK /\ FinalInv /\ WaitingInv

(***************************************************************************)
(* A job that ended is reported to every waiter, whatever polls of it and  *)
(* of other waiters went wrong, unless its context was done first; only a  *)
(* program that does not ask to keep the result can take it away.          *)
(***************************************************************************)
FinishedReported ==
  \A w \in Waiters :
    (<>[](job \in Final) /\ [](\A k \in Consumers : reply[k] \notin Final))
      => <>(outcome[w] # "none")

(***************************************************************************)
(* Once its context is done, a waiter returns (while calls are answered).  *)
(* Under SilentSpec it states the promise of sdk/async_utils.go:12, an     *)
(* error if the wait times out, without that condition.                    *)
(***************************************************************************)
CancelledReturns == \A w \in Waiters : cancelled[w] ~> (outcome[w] # "none")
=============================================================================
