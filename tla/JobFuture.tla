----------------------------- MODULE JobFuture ------------------------------
(***************************************************************************)
(* What waiting for an asynchronous job promises (the comment on           *)
(* WaitForAsyncResult, sdk/async_utils.go:11-12): each waiter returns      *)
(* once, with the final status of the job when it has one, or with the     *)
(* error of its context when that is done.                                 *)
(***************************************************************************)
CONSTANT Waiters

VARIABLES
  job,        \* the job: running, or its final status
  cancelled,  \* cancelled[w]: the context of w is done
  outcome     \* outcome[w]: what w returned

vars == <<job, cancelled, outcome>>

Final == {"complete", "error"}

Init ==
  /\ job = "running"
  /\ cancelled = [w \in Waiters |-> FALSE]
  /\ outcome = [w \in Waiters |-> "none"]

Finish ==
  /\ job = "running"
  /\ job' \in Final
  /\ UNCHANGED <<cancelled, outcome>>

Cancel(w) ==
  /\ cancelled' = [cancelled EXCEPT ![w] = TRUE]
  /\ UNCHANGED <<job, outcome>>

Resolve(w, o) ==
  /\ outcome[w] = "none"
  /\ \/ o = job /\ job \in Final
     \/ o = "ctx" /\ cancelled[w]
  /\ outcome' = [outcome EXCEPT ![w] = o]
  /\ UNCHANGED <<job, cancelled>>

Next == \/ Finish
        \/ \E w \in Waiters :
             Cancel(w) \/ \E o \in Final \cup {"ctx"} : Resolve(w, o)

Spec == Init /\ [][Next]_vars
=============================================================================
