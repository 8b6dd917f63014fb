---------------------------- MODULE BackupPromise ---------------------------
(***************************************************************************)
(* What RunSmartBackup (example/s3-backup/main.go) promises of each volume *)
(* it is given: it starts a backup of it, once as far as it knows, and     *)
(* then prints an end that a backup of this volume really came to.         *)
(***************************************************************************)
CONSTANT Volumes

VARIABLES
  stage,      \* stage[v]: pending, active, or the end that was printed
  ends        \* ends[v]: the ends that jobs of v have come to

vars == <<stage, ends>>

Final == {"complete", "error"}

Init ==
  /\ stage = [v \in Volumes |-> "pending"]
  /\ ends = [v \in Volumes |-> {}]

JobEnds(v, s) ==
  /\ ends' = [ends EXCEPT ![v] = @ \cup {s}]
  /\ UNCHANGED stage

Start(v) ==
  /\ stage[v] = "pending"
  /\ stage' = [stage EXCEPT ![v] = "active"]
  /\ UNCHANGED ends

Report(v, s) ==
  /\ stage[v] = "active"
  /\ s \in ends[v]
  /\ stage' = [stage EXCEPT ![v] = s]
  /\ UNCHANGED ends

Next == \E v \in Volumes :
          \/ Start(v)
          \/ \E s \in Final : JobEnds(v, s) \/ Report(v, s)

Spec == Init /\ [][Next]_vars
=============================================================================
