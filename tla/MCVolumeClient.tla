--------------------------- MODULE MCVolumeClient ---------------------------
(***************************************************************************)
(* VolumeClient for TLC: callers a and b share one tenant, caller d has    *)
(* another.                                                                *)
(***************************************************************************)
EXTENDS VolumeClient, TLC

CONSTANTS a, b, d, t, u

MCCallersShared == {a, b}
MCTenantShared  == [c \in MCCallersShared |-> t]
MCCallersApart  == {a, d}
MCTenantApart   == (a :> t) @@ (d :> u)
=============================================================================
