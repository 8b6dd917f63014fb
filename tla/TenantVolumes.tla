--------------------------- MODULE TenantVolumes ----------------------------
(***************************************************************************)
(* What the users of the tenant client (methods/methods.go) may rely on: a *)
(* volume belongs for good to the tenant and has for good the name that it *)
(* was made for, is deleted and then purged, and whoever is given a volume *)
(* by GetCreateVolume or GetVolume is given one of its own tenant, as it   *)
(* is at that moment.                                                      *)
(***************************************************************************)
EXTENDS Naturals, Sequences

CONSTANTS Callers, TenantOf, Names

VARIABLES
  volumes,    \* volumes[id]: the volume with VolumeID id
  given       \* given[c]: what the last operation of c gave it

vars == <<volumes, given>>

NoneGiven    == [op |-> "none"]
Wanted(n, i) == [op |-> "GetCreateVolume", name |-> n, id |-> i]
Looked(i)    == [op |-> "GetVolume", id |-> i]

Init ==
  /\ volumes = <<>>
  /\ given = [c \in Callers |-> NoneGiven]

Make(t, n) == volumes' = Append(volumes, [name |-> n, account |-> t,
                                          status |-> "active"])
Turn(i, old, new) ==
  /\ i \in DOMAIN volumes
  /\ volumes[i].status = old
  /\ volumes' = [volumes EXCEPT ![i].status = new]

(***************************************************************************)
(* A request of some user, and what only the cluster does.                 *)
(***************************************************************************)
Serve == \/ \E c \in Callers, n \in Names : Make(TenantOf[c], n)
         \/ \E i \in DOMAIN volumes : Turn(i, "active", "deleted")
Expire == \E i \in DOMAIN volumes : Turn(i, "deleted", "purged")

Tell(c, answer) == given' = [given EXCEPT ![c] = answer]

GiveExisting(c, i) ==
  /\ i \in DOMAIN volumes
  /\ volumes[i].account = TenantOf[c]
  /\ \/ volumes[i].status = "active"  /\ Tell(c, Looked(i))
     \/ volumes[i].status # "purged"  /\ Tell(c, Wanted(volumes[i].name, i))
  /\ UNCHANGED volumes

GiveNew(c, n) ==
  /\ Make(TenantOf[c], n)
  /\ Tell(c, Wanted(n, Len(volumes) + 1))

GiveNothing(c) ==
  /\ Tell(c, NoneGiven)
  /\ Serve \/ UNCHANGED volumes

Next ==
  \/ (Serve \/ Expire) /\ UNCHANGED given
  \/ \E c \in Callers : \/ GiveNothing(c)
                        \/ \E i \in DOMAIN volumes : GiveExisting(c, i)
                        \/ \E n \in Names : GiveNew(c, n)

Spec == Init /\ [][Next]_vars
=============================================================================
