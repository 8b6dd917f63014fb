---------------------------- MODULE VolumeClient ----------------------------
(***************************************************************************)
(* The tenant client of methods/methods.go: its construction, which finds  *)
(* or adds the tenant's account, and the operations that create, look up   *)
(* and delete volumes by several remote calls.  Callers are goroutines or  *)
(* processes that hold a Client each; they share nothing but the cluster.  *)
(*                                                                         *)
(* A call is one step: the cluster acts on the request at one moment, and  *)
(* the caller does nothing between sending it and using the reply.         *)
(***************************************************************************)
EXTENDS SFCall, Sequences, FiniteSets

CONSTANTS
  Callers,      \* users of the package, each with a Client of its own
  Tenants,      \* account names; the account ID is identified with the name
  NoAccount,    \* the zero AccountID
  TenantOf,     \* TenantOf[c]: the TenantName in the configuration of c
  Names,        \* volume names
  MaxVolumes,   \* volumes the cluster ever makes; then CreateVolume is refused
  MaxFaults     \* bound: calls that do not end well

ASSUME ConstantsAssumption ==
  /\ IsFiniteSet(Callers)
  /\ Names # {}
  /\ TenantOf \in [Callers -> Tenants]
  /\ NoAccount \notin Tenants
  /\ MaxVolumes \in Nat
  /\ MaxFaults \in Nat

VARIABLES
  accounts,   \* cluster: tenants that have an account
  volumes,    \* cluster: volumes[id] is the volume with VolumeID id
  late,       \* requests given up by their callers and not yet at the cluster
  faults,     \* number of calls that did not end well
  pc,         \* pc[c]: where caller c is
  accountID,  \* accountID[c]: Client.AccountID
  want,       \* want[c]: the name in the request of GetCreateVolume
  ret         \* ret[c]: what the last operation of c returned

clusterVars == <<accounts, volumes, late>>
callerVars  == <<pc, accountID, want, ret>>
vars        == <<clusterVars, faults, callerVars>>

AccountIDs == Tenants \cup {NoAccount}
NoVolume   == 0
VolumeIDs  == 1 .. MaxVolumes

Volume  == [name : Names, account : AccountIDs,
            status : {"active", "deleted", "purged"}]
Refusals == {"xUnknownAccount", "duplicate", "limit", "does not exist"}
Errors   == Refusals \cup {None, "sfapi.unkown", "http.status", "sfapi.other",
                         "not found"}

(***************************************************************************)
(* The requests that change the cluster.  Fields that a method does not    *)
(* have hold a value that is not looked at.                                *)
(***************************************************************************)
Requests == [op : {"AddAccount"}, account : Tenants, name : Names, id : Nat]
              \cup [op : {"CreateVolume", "DeleteVolume"},
                    account : AccountIDs, name : Names, id : Nat]
LateRequests == [req : Requests, tag : 1 .. MaxFaults]  \* tag: which fault
AnyName == CHOOSE n \in Names : TRUE

AddAccountRequest(t)       == [op |-> "AddAccount", account |-> t,
                               name |-> AnyName, id |-> NoVolume]
CreateVolumeRequest(a, n)  == [op |-> "CreateVolume", account |-> a,
                               name |-> n, id |-> NoVolume]
DeleteVolumeRequest(i)     == [op |-> "DeleteVolume", account |-> NoAccount,
                               name |-> AnyName, id |-> i]

Operations == {"none", "GetCreateVolume", "DeleteVolume", "GetVolume"}
Returns    == [op : Operations, name : Names, id : Nat, err : Errors]
Returned(op, n, i, e) == [op |-> op, name |-> n, id |-> i, err |-> e]
Nothing == Returned("none", AnyName, NoVolume, None)

(***************************************************************************)
(* Steps of the constructor and of an operation under way.                 *)
(***************************************************************************)
Locations == {"get", "add", "info", "failed", "ready", "create"}
Connected(c) == pc[c] \in {"ready", "create"}

Init ==
  /\ accounts \in SUBSET Tenants
  /\ volumes = <<>>
  /\ late = {}
  /\ faults = 0
  /\ pc = [c \in Callers |-> "get"]
  /\ accountID = [c \in Callers |-> NoAccount]
  /\ want = [c \in Callers |-> AnyName]
  /\ ret = [c \in Callers |-> Nothing]
-----------------------------------------------------------------------------
(***************************************************************************)
(* The cluster.                                                            *)
(***************************************************************************)
IsActive(i) == i \in DOMAIN volumes /\ volumes[i].status = "active"

Refusal(r) ==
  CASE r.op = "AddAccount" /\ r.account \in accounts      -> "duplicate"
    [] r.op = "CreateVolume" /\ r.account \notin accounts -> "xUnknownAccount"
    [] r.op = "CreateVolume" /\ Len(volumes) = MaxVolumes -> "limit"
    [] r.op = "DeleteVolume" /\ ~IsActive(r.id)           -> "does not exist"
    [] OTHER                                              -> None

Execute(r) ==
  /\ accounts' = IF r.op = "AddAccount" /\ Refusal(r) = None
                   THEN accounts \cup {r.account} ELSE accounts
  /\ volumes' =
       CASE r.op = "CreateVolume" /\ Refusal(r) = None ->
              Append(volumes, [name |-> r.name, account |-> r.account,
                               status |-> "active"])
         [] r.op = "DeleteVolume" /\ Refusal(r) = None ->
              [volumes EXCEPT ![r.id].status = "deleted"]
         [] OTHER -> volumes

(***************************************************************************)
(* Every fate but "delivered" counts as a fault.                           *)
(***************************************************************************)
Meet(fate) ==
  /\ fate = "delivered" \/ faults < MaxFaults
  /\ faults' = IF fate = "delivered" THEN faults ELSE faults + 1

(***************************************************************************)
(* A request that changes the cluster and meets the given fate.  When no   *)
(* answer comes, the cluster may have acted on it, may never see it, or    *)
(* may act on it later, when the caller has long moved on.                 *)
(***************************************************************************)
Send(r, fate) ==
  /\ Meet(fate)
  /\ \/ /\ fate # "refused"
        /\ Execute(r)
        /\ UNCHANGED late
     \/ /\ fate # "delivered"
        /\ UNCHANGED clusterVars
     \/ /\ fate \in Unanswered
        /\ late' = late \cup {[req |-> r, tag |-> faults + 1]}
        /\ UNCHANGED <<accounts, volumes>>

Arrive(l) ==
  /\ l \in late
  /\ Execute(l.req)
  /\ late' = late \ {l}
  /\ UNCHANGED <<faults, callerVars>>

Purge(i) ==
  /\ i \in DOMAIN volumes
  /\ volumes[i].status = "deleted"
  /\ volumes' = [volumes EXCEPT ![i].status = "purged"]
  /\ UNCHANGED <<accounts, late, faults, callerVars>>
-----------------------------------------------------------------------------
(***************************************************************************)
(* Construction: initAccount, called by NewClient, NewClientWithArgs and   *)
(* NewClientFromSecrets after a Connect whose outcome none of them uses.   *)
(***************************************************************************)
Goto(c, l) == pc' = [pc EXCEPT ![c] = l]

GetAccountByName(c, fate) ==
  LET unknown == IF TenantOf[c] \in accounts THEN None ELSE "xUnknownAccount"
      err     == SdkError(fate, unknown)
      account == SdkResult(fate, unknown, TenantOf[c], NoAccount)
  IN  /\ pc[c] = "get"
      /\ Meet(fate)
      /\ \/ /\ err = None
            /\ accountID' = [accountID EXCEPT ![c] = account]
            /\ Goto(c, "info")
         \/ /\ err = "xUnknownAccount"
            /\ Goto(c, "add")
            /\ UNCHANGED accountID
         \/ /\ err \notin {None, "xUnknownAccount"}
            /\ Goto(c, "failed")
            /\ UNCHANGED accountID
      /\ UNCHANGED <<clusterVars, want, ret>>

AddAccount(c, fate) ==
  LET r       == AddAccountRequest(TenantOf[c])
      err     == SdkError(fate, Refusal(r))
      account == SdkResult(fate, Refusal(r), TenantOf[c], NoAccount)
  IN  /\ pc[c] = "add"
      /\ Send(r, fate)
      /\ \/ /\ err = None
            /\ accountID' = [accountID EXCEPT ![c] = account]
            /\ Goto(c, "info")
         \/ /\ err # None
            /\ Goto(c, "failed")
            /\ UNCHANGED accountID
      /\ UNCHANGED <<want, ret>>

(***************************************************************************)
(* The last call whose outcome matters.  NewClientFromSecrets also asks    *)
(* for the limits of the cluster, and only warns when that call fails.     *)
(***************************************************************************)
GetClusterInfo(c, fate) ==
  /\ pc[c] = "info"
  /\ Meet(fate)
  /\ Goto(c, IF SdkError(fate, None) = None THEN "ready" ELSE "failed")
  /\ UNCHANGED <<clusterVars, accountID, want, ret>>

(***************************************************************************)
(* The constructor returned an error, or NewClient exited: the application *)
(* tries again with a zero Client.                                         *)
(***************************************************************************)
ReconstructFromAdd(c) ==                                          \* mutant
  /\ pc[c] = "failed"
  /\ Goto(c, "add")
  /\ UNCHANGED <<clusterVars, faults, accountID, want, ret>>

Reconstruct(c) ==
  /\ pc[c] = "failed"
  /\ Goto(c, "get")
  /\ accountID' = [accountID EXCEPT ![c] = NoAccount]
  /\ UNCHANGED <<clusterVars, faults, want, ret>>
-----------------------------------------------------------------------------
(***************************************************************************)
(* Operations on volumes.                                                  *)
(***************************************************************************)
Return(c, r) == ret' = [ret EXCEPT ![c] = r]

(***************************************************************************)
(* ListVolumesForAccount lists active and deleted volumes, purged ones no  *)
(* longer; GetVolumeByName takes the first of the wanted name.             *)
(***************************************************************************)
NamedUnchecked(s, n)   == s                                       \* mutant
NamedAfterFirst(s, n)  == {i \in s : /\ volumes[i].name = n       \* mutant
                                     /\ \E j \in s : j < i}
Listed(a)   == {i \in DOMAIN volumes : /\ volumes[i].account = a
                                       /\ volumes[i].status # "purged"}
Named(s, n) == {i \in s : volumes[i].name = n}
IsFirst(i, s) == i \in s /\ \A j \in s : i <= j

(***************************************************************************)
(* GetCreateVolume up to the outcome of GetVolumeByName.  An error of the  *)
(* listing is not looked at: GetVolumeByName returns a pointer to the zero *)
(* Volume with it, which is taken for the volume found.                    *)
(***************************************************************************)
GetCreateVolume(c, n, fate) ==
  LET found == Named(SdkResult(fate, None, Listed(accountID[c]), {}), n)
      err   == SdkError(fate, None)
  IN  /\ pc[c] = "ready"
      /\ Meet(fate)
      /\ \/ /\ err # None
            /\ Return(c, Returned("GetCreateVolume", n, NoVolume, None))
            /\ UNCHANGED <<pc, want>>
         \/ /\ err = None
            /\ \E i \in found :
                 /\ IsFirst(i, found)
                 /\ Return(c, Returned("GetCreateVolume", n, i, None))
            /\ UNCHANGED <<pc, want>>
         \/ /\ err = None
            /\ found = {}
            /\ Goto(c, "create")
            /\ want' = [want EXCEPT ![c] = n]
            /\ UNCHANGED ret
      /\ UNCHANGED <<clusterVars, accountID>>

CreateVolume(c, fate) ==
  LET r   == CreateVolumeRequest(accountID[c], want[c])
      err == SdkError(fate, Refusal(r))
      id  == SdkResult(fate, Refusal(r), Len(volumes) + 1, NoVolume)
  IN  /\ pc[c] = "create"
      /\ Send(r, fate)
      /\ Return(c, Returned("GetCreateVolume", want[c], id, err))
      /\ Goto(c, "ready")
      /\ UNCHANGED <<accountID, want>>

(***************************************************************************)
(* The refusal that names the volume as missing counts as success.         *)
(***************************************************************************)
AnyErrorTolerated(err) == None                                    \* mutant
Tolerated(err) == IF err = "does not exist" THEN None ELSE err

DeleteVolume(c, i, fate) ==
  LET r   == DeleteVolumeRequest(i)
      err == SdkError(fate, Refusal(r))
  IN  /\ pc[c] = "ready"
      /\ Send(r, fate)
      /\ Return(c, Returned("DeleteVolume", AnyName, i, Tolerated(err)))
      /\ UNCHANGED <<pc, accountID, want>>

(***************************************************************************)
(* GetVolume lists one active volume from VolumeID i on, whatever account  *)
(* it belongs to, and returns it only if it is volume i of this account.   *)
(***************************************************************************)
AnyOnes(c, i, s) == i \in s                                        \* mutant
Mine(c, i, s)    == i \in s /\ volumes[i].account = accountID[c]

GetVolume(c, i, fate) ==
  LET page == {j \in DOMAIN volumes :
                 IsFirst(j, {k \in DOMAIN volumes : k >= i /\ IsActive(k)})}
      seen == SdkResult(fate, None, page, {})
      err  == SdkError(fate, None)
      mine == Mine(c, i, seen)
  IN  /\ pc[c] = "ready"
      /\ Meet(fate)
      /\ Return(c, Returned("GetVolume", AnyName,
                            IF err = None /\ mine THEN i ELSE NoVolume,
                            CASE err # None        -> err
                              [] mine              -> None
                              [] OTHER             -> "not found"))
      /\ UNCHANGED <<clusterVars, pc, accountID, want>>
-----------------------------------------------------------------------------
Construct(c) ==
  \/ Reconstruct(c)
  \/ \E fate \in Fates : \/ GetAccountByName(c, fate)
                         \/ AddAccount(c, fate)
                         \/ GetClusterInfo(c, fate)

Operate(c) ==
  \E fate \in Fates :
    \/ \E n \in Names : GetCreateVolume(c, n, fate)
    \/ CreateVolume(c, fate)
    \/ \E i \in VolumeIDs : DeleteVolume(c, i, fate) \/ GetVolume(c, i, fate)

Cluster == \/ \E l \in late : Arrive(l)
           \/ \E i \in DOMAIN volumes : Purge(i)

Next == Cluster \/ \E c \in Callers : Construct(c) \/ Operate(c)

Spec == Init /\ [][Next]_vars

(***************************************************************************)
(* A goroutine that constructs a Client keeps running, and the application *)
(* constructs again after a failure.  Nothing else is fair: a caller need  *)
(* not call anything, the network may keep a late request for ever.        *)
(***************************************************************************)
FairSpec == Spec /\ \A c \in Callers : WF_vars(Construct(c))
-----------------------------------------------------------------------------
TypeOK ==
  /\ accounts \subseteq Tenants
  /\ volumes \in Seq(Volume)
  /\ late \subseteq LateRequests
  /\ faults \in 0 .. MaxFaults
  /\ pc \in [Callers -> Locations]
  /\ accountID \in [Callers -> AccountIDs]
  /\ want \in [Callers -> Names]
  /\ ret \in [Callers -> Returns]

(***************************************************************************)
(* Whoever holds a Client works on the account of its own tenant, and that *)
(* account is there, however the constructions of the callers interleave.  *)
(* (Without cut replies: see SFCall.)                                      *)
(***************************************************************************)
TenantAgreement ==
  \A c \in Callers : Connected(c) => /\ accountID[c] = TenantOf[c]
                                    /\ TenantOf[c] \in accounts

(***************************************************************************)
(* GetCreateVolume looks before it creates, but neither the code nor the   *)
(* cluster makes the two one step.  So a tenant may get several volumes of *)
(* one name, but no more than one for each of its callers and one for each *)
(* call that went wrong, however often GetCreateVolume is called.          *)
(***************************************************************************)
Copies(a, n)   == {i \in DOMAIN volumes : /\ volumes[i].account = a
                                         /\ volumes[i].name = n
                                         /\ volumes[i].status # "purged"}
Users(a)       == {c \in Callers : TenantOf[c] = a}
SameNameBound ==
  \A a \in Tenants, n \in Names :
    Cardinality(Copies(a, n)) <= Cardinality(Users(a)) + faults

(***************************************************************************)
(* Why: a name is taken by its volumes, by the callers about to create one *)
(* more, and by the late requests that will; a caller may take a place     *)
(* only if it saw no volume, or was misled by a fault.                     *)
(***************************************************************************)
Creating(a, n)    == {c \in Callers : /\ pc[c] = "create"
                                     /\ accountID[c] = a
                                     /\ want[c] = n}
LateCreates(a, n) == {l \in late : /\ l.req.op = "CreateVolume"
                                  /\ l.req.account = a
                                  /\ l.req.name = n}
Places(a, n)      == Cardinality(Copies(a, n)) + Cardinality(Creating(a, n))
                       + Cardinality(LateCreates(a, n))

LateInv    == IsFiniteSet(late) /\ Cardinality(late) <= faults
AccountInv == \A c \in Callers : accountID[c] \in {TenantOf[c], NoAccount}
PlacesInv  == \A a \in Tenants, n \in Names :
                Places(a, n) <= Cardinality(Users(a)) + faults
NameBoundInv == TypeOK /\ LateInv /\ AccountInv /\ PlacesInv

(***************************************************************************)
(* A volume that GetCreateVolume or GetVolume returned without error is    *)
(* one of the caller's account, and GetCreateVolume's has the name asked   *)
(* for.  An ID of zero names no volume.                                    *)
(***************************************************************************)
ReturnedVolumeMatches ==
  \A c \in Callers :
    LET r == ret[c]
    IN  (r.op \in {"GetCreateVolume", "GetVolume"} /\ r.id # NoVolume) =>
          /\ r.id \in DOMAIN volumes
          /\ volumes[r.id].account = TenantOf[c]
          /\ r.op = "GetCreateVolume" => volumes[r.id].name = r.name

(***************************************************************************)
(* The promise of TenantVolumes: all that the users of the package see,    *)
(* through lost and late requests and failed constructions, is a store of  *)
(* volumes that never change hands or names, and answers that were true    *)
(* when they were given.                                                   *)
(***************************************************************************)
Given(c) ==
  LET r == ret[c]
  IN  CASE r.op = "GetCreateVolume" /\ r.id # NoVolume ->
             [op |-> r.op, name |-> r.name, id |-> r.id]
        [] r.op = "GetVolume" /\ r.id # NoVolume -> [op |-> r.op, id |-> r.id]
        [] OTHER -> [op |-> "none"]
Service == INSTANCE TenantVolumes
             WITH given <- [c \in Callers |-> Given(c)]
ServicePromise == Service!Spec

(***************************************************************************)
(* When DeleteVolume reports success, the volume is not active, whether    *)
(* this call deleted it, another caller, or an earlier call that had lost  *)
(* its answer.                                                             *)
(***************************************************************************)
DeleteConfirmed ==
  [][\A c \in Callers, i \in VolumeIDs :
       (ret'[c] # ret[c] /\ ret'[c] = Returned("DeleteVolume", AnyName, i, None))
         => ~IsActive(i)']_vars

(***************************************************************************)
(* Callers that start together with the same new tenant make each other's  *)
(* AddAccount fail, but one that tries again gets its Client in the end.   *)
(***************************************************************************)
EventuallyConnected == \A c \in Callers : <>[]Connected(c)
-----------------------------------------------------------------------------
(***************************************************************************)
(* What docs and comments say and the code does not do (checked by runs    *)
(* that look for the counterexample).                                      *)
(***************************************************************************)

(***************************************************************************)
(* sdk/base_methods.go:88: a nil error means success, and                  *)
(* sdk/generated_model.go:5156: a VolumeID is unique to its volume.  So a  *)
(* GetCreateVolume without error returns the ID of a volume.               *)
(***************************************************************************)
NilErrorHasVolume ==
  \A c \in Callers : (ret[c].op = "GetCreateVolume" /\ ret[c].err = None)
                        => ret[c].id # NoVolume
=============================================================================
