------------------------- MODULE VolumeClientProofs -------------------------
(***************************************************************************)
(* Theorems about VolumeClient for every set of callers, tenants and names *)
(* and every bound on volumes and faults.                                  *)
(***************************************************************************)
EXTENDS VolumeClient, SFCallProofs, FiniteSetTheorems, SequenceTheorems

(***************************************************************************)
(* The shape of what a call returns to its caller.                         *)
(***************************************************************************)
LEMMA AnyNameType == AnyName \in Names
  BY ConstantsAssumption DEF AnyName

LEMMA RefusalType ==
  ASSUME NEW r \in Requests
  PROVE  Refusal(r) \in Refusals \cup {None}
  BY DEF Refusal, Refusals, Requests

LEMMA SdkErrorType ==
  ASSUME NEW fate, NEW refusal \in Errors
  PROVE  SdkError(fate, refusal) \in Errors
  BY DEF SdkError, Errors, None

(***************************************************************************)
(* What executing a request does to the volumes: nothing, one more volume, *)
(* or one volume from active to deleted.                                   *)
(***************************************************************************)
LEMMA ExecuteEffect ==
  ASSUME volumes \in Seq(Volume), NEW r \in Requests, Execute(r)
  PROVE  \/ volumes' = volumes
         \/ /\ r.op = "CreateVolume"
            /\ volumes' = Append(volumes, [name |-> r.name,
                                           account |-> r.account,
                                           status |-> "active"])
         \/ /\ IsActive(r.id)
            /\ volumes' = [volumes EXCEPT ![r.id].status = "deleted"]
<1>1. CASE r.op = "CreateVolume" /\ Refusal(r) = None
  BY <1>1 DEF Execute
<1>2. CASE r.op = "DeleteVolume" /\ Refusal(r) = None
  <2>1. IsActive(r.id)
    BY <1>2 DEF Refusal, None
  <2> QED BY <1>2, <2>1 DEF Execute
<1>3. CASE ~(r.op = "CreateVolume" /\ Refusal(r) = None)
             /\ ~(r.op = "DeleteVolume" /\ Refusal(r) = None)
  BY <1>3 DEF Execute
<1> QED BY <1>1, <1>2, <1>3

LEMMA StatusType ==
  ASSUME volumes \in Seq(Volume), NEW i \in DOMAIN volumes,
         NEW s \in {"active", "deleted", "purged"}
  PROVE  [volumes EXCEPT ![i].status = s] \in Seq(Volume)
<1>1. volumes[i] \in Volume
  BY ElementOfSeq, LenProperties
<1>2. [volumes[i] EXCEPT !.status = s] \in Volume
  BY <1>1 DEF Volume
<1>3. i \in 1 .. Len(volumes)
  BY LenProperties
<1>4. [volumes EXCEPT ![i] = [volumes[i] EXCEPT !.status = s]] \in Seq(Volume)
  BY <1>2, <1>3, ExceptSeq
<1> QED BY <1>4

LEMMA ExecuteType ==
  ASSUME volumes \in Seq(Volume), accounts \subseteq Tenants,
         NEW r \in Requests, Execute(r)
  PROVE  volumes' \in Seq(Volume) /\ accounts' \subseteq Tenants
<1>1. volumes' \in Seq(Volume)
  <2>1. CASE /\ r.op = "CreateVolume"
             /\ volumes' = Append(volumes, [name |-> r.name,
                                            account |-> r.account,
                                            status |-> "active"])
    <3>1. [name |-> r.name, account |-> r.account, status |-> "active"] \in Volume
      BY DEF Volume, Requests, AccountIDs
    <3> QED BY <2>1, <3>1, AppendProperties
  <2>2. CASE /\ IsActive(r.id)
             /\ volumes' = [volumes EXCEPT ![r.id].status = "deleted"]
    BY <2>2, StatusType DEF IsActive
  <2> QED BY <2>1, <2>2, ExecuteEffect
<1>2. accounts' \subseteq Tenants
  BY DEF Execute, Requests
<1> QED BY <1>1, <1>2

LEMMA RequestTypes ==
  /\ \A t \in Tenants : AddAccountRequest(t) \in Requests
  /\ \A a \in AccountIDs, n \in Names : CreateVolumeRequest(a, n) \in Requests
  /\ \A i \in VolumeIDs : DeleteVolumeRequest(i) \in Requests
  BY AnyNameType, ConstantsAssumption
     DEF AddAccountRequest, CreateVolumeRequest, DeleteVolumeRequest, Requests,
         AccountIDs, NoVolume, VolumeIDs

(***************************************************************************)
(* What a step leaves of the cluster and of the count of faults.           *)
(***************************************************************************)
ClusterTypeOK ==
  /\ accounts \subseteq Tenants
  /\ volumes \in Seq(Volume)
  /\ late \subseteq LateRequests
  /\ faults \in 0 .. MaxFaults

CallerTypeOK ==
  /\ pc \in [Callers -> Locations]
  /\ accountID \in [Callers -> AccountIDs]
  /\ want \in [Callers -> Names]
  /\ ret \in [Callers -> Returns]

LEMMA TypeParts == TypeOK <=> ClusterTypeOK /\ CallerTypeOK
  BY DEF TypeOK, ClusterTypeOK, CallerTypeOK

LEMMA MeetType ==
  ASSUME ClusterTypeOK, NEW fate \in Fates, Meet(fate)
  PROVE  faults' \in 0 .. MaxFaults /\ faults <= faults'
  BY ConstantsAssumption DEF ClusterTypeOK, Meet

LEMMA SendType ==
  ASSUME ClusterTypeOK, NEW r \in Requests, NEW fate \in Fates, Send(r, fate)
  PROVE  ClusterTypeOK'
<1>1. faults' \in 0 .. MaxFaults
  BY MeetType DEF Send
<1>2. CASE Execute(r) /\ UNCHANGED late
  BY <1>1, <1>2, ExecuteType DEF ClusterTypeOK
<1>3. CASE UNCHANGED clusterVars
  BY <1>1, <1>3 DEF ClusterTypeOK, clusterVars
<1>4. CASE /\ fate \in Unanswered
           /\ late' = late \cup {[req |-> r, tag |-> faults + 1]}
           /\ UNCHANGED <<accounts, volumes>>
  <2>1. faults + 1 \in 1 .. MaxFaults
    BY <1>4, ConstantsAssumption DEF Send, Meet, Unanswered, ClusterTypeOK
  <2>2. [req |-> r, tag |-> faults + 1] \in LateRequests
    BY <2>1 DEF LateRequests
  <2> QED BY <1>1, <1>4, <2>2 DEF ClusterTypeOK
<1> QED BY <1>2, <1>3, <1>4 DEF Send

LEMMA ErrorsType == Refusals \cup {None} \subseteq Errors
  BY DEF Errors
-----------------------------------------------------------------------------
(***************************************************************************)
(* Every variable keeps its type.                                          *)
(***************************************************************************)
LEMMA InitType == Init => TypeOK
  BY AnyNameType, ConstantsAssumption, EmptySeq
     DEF Init, TypeOK, Locations, AccountIDs, Returns, Operations, Returned,
         Nothing, NoVolume, Errors, None

LEMMA ConstructType ==
  ASSUME TypeOK, NEW c \in Callers, Construct(c)
  PROVE  TypeOK'
<1>1. ClusterTypeOK /\ CallerTypeOK
  BY TypeParts
<1>2. TenantOf[c] \in Tenants
  BY ConstantsAssumption
<1>3. CASE Reconstruct(c)
  BY <1>1, <1>3 DEF Reconstruct, Goto, TypeOK, Locations, AccountIDs, clusterVars
<1>4. ASSUME NEW fate \in Fates, GetAccountByName(c, fate)
      PROVE  TypeOK'
  <2>1. \A unknown : SdkResult(fate, unknown, TenantOf[c], NoAccount) \in AccountIDs
    BY <1>2 DEF SdkResult, AccountIDs
  <2>2. faults' \in 0 .. MaxFaults
    BY <1>1, <1>4, MeetType DEF GetAccountByName
  <2>3. pc' \in [Callers -> Locations] /\ accountID' \in [Callers -> AccountIDs]
    BY <1>4, <2>1 DEF GetAccountByName, Goto, TypeOK, Locations
  <2> QED BY <1>4, <2>2, <2>3 DEF GetAccountByName, TypeOK, clusterVars
<1>5. ASSUME NEW fate \in Fates, AddAccount(c, fate)
      PROVE  TypeOK'
  <2>1. ClusterTypeOK'
    BY <1>1, <1>2, <1>5, SendType, RequestTypes DEF AddAccount
  <2>2. \A refusal : SdkResult(fate, refusal, TenantOf[c], NoAccount) \in AccountIDs
    BY <1>2 DEF SdkResult, AccountIDs
  <2>3. CallerTypeOK'
    BY <1>1, <1>5, <2>2 DEF AddAccount, Goto, CallerTypeOK, Locations
  <2> QED BY <2>1, <2>3 DEF ClusterTypeOK, CallerTypeOK, TypeOK
<1>6. ASSUME NEW fate \in Fates, GetClusterInfo(c, fate)
      PROVE  TypeOK'
  <2>1. faults' \in 0 .. MaxFaults
    BY <1>1, <1>6, MeetType DEF GetClusterInfo
  <2> QED BY <1>6, <2>1 DEF GetClusterInfo, Goto, TypeOK, Locations, clusterVars
<1> QED BY <1>3, <1>4, <1>5, <1>6 DEF Construct

LEMMA OperateType ==
  ASSUME TypeOK, NEW c \in Callers, Operate(c)
  PROVE  TypeOK'
<1>1. ClusterTypeOK /\ CallerTypeOK
  BY TypeParts
<1>2. \A op \in Operations, n \in Names, i \in Nat, e \in Errors :
        Returned(op, n, i, e) \in Returns
  BY DEF Returned, Returns
<1>3. VolumeIDs \subseteq Nat /\ NoVolume \in Nat
  BY DEF VolumeIDs, NoVolume
<1>4. None \in Errors /\ "not found" \in Errors
  BY DEF Errors
<1>5. ASSUME NEW fate \in Fates, NEW n \in Names, GetCreateVolume(c, n, fate)
      PROVE  TypeOK'
  <2>1. faults' \in 0 .. MaxFaults
    BY <1>1, <1>5, MeetType DEF GetCreateVolume
  <2>2. Named(SdkResult(fate, None, Listed(accountID[c]), {}), n) \subseteq Nat
    BY <1>1, LenProperties DEF ClusterTypeOK, Named, Listed, SdkResult
  <2>3. CallerTypeOK'
    <3>1. CASE \E i \in Nat :
                 /\ Return(c, Returned("GetCreateVolume", n, i, None))
                 /\ UNCHANGED <<pc, want, accountID>>
      <4>1. PICK i \in Nat :
              ret' = [ret EXCEPT ![c] = Returned("GetCreateVolume", n, i, None)]
        BY <3>1 DEF Return
      <4>2. Returned("GetCreateVolume", n, i, None) \in Returns
        BY <1>2, <1>4 DEF Operations
      <4> QED BY <1>1, <3>1, <4>1, <4>2 DEF CallerTypeOK
    <3>2. CASE /\ Goto(c, "create")
               /\ want' = [want EXCEPT ![c] = n]
               /\ UNCHANGED <<ret, accountID>>
      BY <1>1, <3>2 DEF Goto, CallerTypeOK, Locations
    <3> QED BY <1>3, <1>5, <2>2, <3>1, <3>2 DEF GetCreateVolume
  <2> QED BY <1>1, <1>5, <2>1, <2>3
          DEF GetCreateVolume, TypeOK, ClusterTypeOK, CallerTypeOK, clusterVars
<1>6. ASSUME NEW fate \in Fates, CreateVolume(c, fate)
      PROVE  TypeOK'
  <2> DEFINE r == CreateVolumeRequest(accountID[c], want[c])
             id == SdkResult(fate, Refusal(r), Len(volumes) + 1, NoVolume)
             err == SdkError(fate, Refusal(r))
  <2>1. r \in Requests
    BY <1>1, RequestTypes DEF CallerTypeOK
  <2>2. ClusterTypeOK'
    BY <1>1, <1>6, <2>1, SendType DEF CreateVolume
  <2>3. id \in Nat
    BY <1>1, <1>3, LenProperties DEF SdkResult, ClusterTypeOK
  <2>4. err \in Errors
    BY <2>1, RefusalType, ErrorsType, SdkErrorType
  <2>5. Return(c, Returned("GetCreateVolume", want[c], id, err))
        /\ Goto(c, "ready") /\ UNCHANGED <<accountID, want>>
    BY <1>6 DEF CreateVolume
  <2>6. Returned("GetCreateVolume", want[c], id, err) \in Returns
    BY <1>1, <1>2, <2>3, <2>4 DEF CallerTypeOK, Operations
  <2>7. CallerTypeOK'
    BY <1>1, <2>5, <2>6 DEF Return, Goto, CallerTypeOK, Locations
  <2> QED BY <2>2, <2>7 DEF ClusterTypeOK, CallerTypeOK, TypeOK
<1>7. ASSUME NEW fate \in Fates, NEW i \in VolumeIDs, DeleteVolume(c, i, fate)
      PROVE  TypeOK'
  <2> DEFINE r == DeleteVolumeRequest(i)
             err == SdkError(fate, Refusal(r))
  <2>1. r \in Requests
    BY RequestTypes
  <2>2. ClusterTypeOK'
    BY <1>1, <1>7, <2>1, SendType DEF DeleteVolume
  <2>3. Tolerated(err) \in Errors
    BY <1>4, <2>1, RefusalType, ErrorsType, SdkErrorType DEF Tolerated
  <2>4. Returned("DeleteVolume", AnyName, i, Tolerated(err)) \in Returns
    BY <1>2, <1>3, <2>3, AnyNameType DEF Operations
  <2>5. CallerTypeOK'
    BY <1>1, <1>7, <2>4 DEF DeleteVolume, Return, CallerTypeOK
  <2> QED BY <2>2, <2>5 DEF ClusterTypeOK, CallerTypeOK, TypeOK
<1>8. ASSUME NEW fate \in Fates, NEW i \in VolumeIDs, GetVolume(c, i, fate)
      PROVE  TypeOK'
  <2>1. SdkError(fate, None) \in Errors
    BY <1>4, SdkErrorType
  <2>2. PICK j \in {i, NoVolume}, e \in {SdkError(fate, None), None, "not found"} :
          Return(c, Returned("GetVolume", AnyName, j, e))
    BY <1>8 DEF GetVolume
  <2>3. Returned("GetVolume", AnyName, j, e) \in Returns
    BY <1>2, <1>3, <1>4, <2>1, AnyNameType DEF Operations
  <2>4. CallerTypeOK'
    BY <1>1, <1>8, <2>2, <2>3 DEF GetVolume, Return, CallerTypeOK
  <2>5. faults' \in 0 .. MaxFaults
    BY <1>1, <1>8, MeetType DEF GetVolume
  <2> QED BY <1>1, <1>8, <2>4, <2>5
          DEF GetVolume, TypeOK, ClusterTypeOK, CallerTypeOK, clusterVars
<1> QED BY <1>5, <1>6, <1>7, <1>8 DEF Operate

LEMMA ClusterType ==
  ASSUME TypeOK, Cluster
  PROVE  TypeOK'
<1>1. ASSUME NEW l \in late, Arrive(l)
      PROVE  TypeOK'
  <2>1. l.req \in Requests
    BY DEF TypeOK, LateRequests
  <2> QED BY <1>1, <2>1, ExecuteType DEF Arrive, TypeOK, callerVars
<1>2. ASSUME NEW i \in DOMAIN volumes, Purge(i)
      PROVE  TypeOK'
  BY <1>2, StatusType DEF Purge, TypeOK, callerVars
<1> QED BY <1>1, <1>2 DEF Cluster

(***************************************************************************)
(* The state of VolumeClient is well typed.                                *)
(***************************************************************************)
THEOREM TypeCorrect == Spec => []TypeOK
<1>1. Init => TypeOK
  BY InitType
<1>2. TypeOK /\ [Next]_vars => TypeOK'
  <2>1. CASE UNCHANGED vars
    BY <2>1 DEF TypeOK, vars, clusterVars, callerVars
  <2>2. CASE Next
    BY <2>2, ConstructType, OperateType, ClusterType DEF Next
  <2> QED BY <2>1, <2>2
<1> QED BY <1>1, <1>2, PTL DEF Spec
-----------------------------------------------------------------------------
(***************************************************************************)
(* How the requests move the places of a name.                             *)
(***************************************************************************)
LEMMA CardAdd ==
  ASSUME NEW S, IsFiniteSet(S), NEW x
  PROVE  /\ IsFiniteSet(S \cup {x})
         /\ Cardinality(S) \in Nat
         /\ Cardinality(S \cup {x}) \in Nat
         /\ Cardinality(S \cup {x}) <= Cardinality(S) + 1
<1>1. IsFiniteSet(S \cup {x})
  BY FS_AddElement
<1>2. Cardinality(S) \in Nat /\ Cardinality(S \cup {x}) \in Nat
  BY <1>1, FS_CardinalityType
<1>3. CASE x \in S
  <2>1. S \cup {x} = S
    BY <1>3
  <2>2. Cardinality(S \cup {x}) = Cardinality(S)
    BY <2>1
  <2> QED BY <1>1, <1>2, <2>2
<1>4. CASE x \notin S
  <2>1. Cardinality(S \cup {x}) = Cardinality(S) + 1
    BY <1>4, FS_AddElement
  <2> QED BY <1>1, <1>2, <2>1
<1> QED BY <1>3, <1>4

LEMMA CardRemove ==
  ASSUME NEW S, IsFiniteSet(S), NEW x \in S
  PROVE  /\ IsFiniteSet(S \ {x})
         /\ Cardinality(S) \in Nat
         /\ Cardinality(S \ {x}) \in Nat
         /\ Cardinality(S \ {x}) = Cardinality(S) - 1
<1>1. IsFiniteSet(S \ {x})
  BY FS_RemoveElement
<1>2. Cardinality(S) \in Nat /\ Cardinality(S \ {x}) \in Nat
  BY <1>1, FS_CardinalityType
<1>3. Cardinality(S \ {x}) = Cardinality(S) - 1
  BY FS_RemoveElement
<1> QED BY <1>1, <1>2, <1>3

LEMMA IndicesFinite ==
  ASSUME NEW v \in Seq(Volume), NEW I, I \subseteq DOMAIN v
  PROVE  IsFiniteSet(I) /\ Cardinality(I) \in Nat
<1>1. DOMAIN v = 1 .. Len(v) /\ Len(v) \in Nat
  BY LenProperties
<1>2. IsFiniteSet(DOMAIN v)
  BY <1>1, FS_Interval
<1> QED BY <1>2, FS_Subset, FS_CardinalityType

LEMMA CopiesFinite ==
  ASSUME volumes \in Seq(Volume), NEW a, NEW n
  PROVE  IsFiniteSet(Copies(a, n)) /\ Cardinality(Copies(a, n)) \in Nat
<1>1. Copies(a, n) \subseteq DOMAIN volumes
  BY DEF Copies
<1> QED BY <1>1, IndicesFinite

LEMMA CopiesFiniteNext ==
  ASSUME volumes' \in Seq(Volume), NEW a, NEW n
  PROVE  IsFiniteSet(Copies(a, n)') /\ Cardinality(Copies(a, n)') \in Nat
<1>1. Copies(a, n)' \subseteq DOMAIN volumes'
  BY DEF Copies
<1> QED BY <1>1, IndicesFinite

LEMMA CreatingFinite ==
  ASSUME NEW a, NEW n
  PROVE  IsFiniteSet(Creating(a, n)) /\ Cardinality(Creating(a, n)) \in Nat
<1>1. Creating(a, n) \subseteq Callers
  BY DEF Creating
<1> QED BY <1>1, ConstantsAssumption, FS_Subset, FS_CardinalityType

LEMMA UsersFinite ==
  ASSUME NEW a
  PROVE  IsFiniteSet(Users(a)) /\ Cardinality(Users(a)) \in Nat
<1>1. Users(a) \subseteq Callers
  BY DEF Users
<1> QED BY <1>1, ConstantsAssumption, FS_Subset, FS_CardinalityType

LEMMA LateCreatesFinite ==
  ASSUME IsFiniteSet(late), NEW a, NEW n
  PROVE  /\ IsFiniteSet(LateCreates(a, n))
         /\ Cardinality(LateCreates(a, n)) \in Nat
         /\ Cardinality(LateCreates(a, n)) <= Cardinality(late)
<1>1. LateCreates(a, n) \subseteq late
  BY DEF LateCreates
<1> QED BY <1>1, FS_Subset, FS_CardinalityType

(***************************************************************************)
(* r asks for a volume of this account and name.                           *)
(***************************************************************************)
Asks(r, a, n) == r.op = "CreateVolume" /\ r.account = a /\ r.name = n

LEMMA ExecuteAdds ==
  ASSUME volumes \in Seq(Volume), NEW r \in Requests, Execute(r),
         NEW a, NEW n
  PROVE  Copies(a, n)' \subseteq Copies(a, n) \cup
                                 (IF Asks(r, a, n) THEN {Len(volumes) + 1} ELSE {})
<1> DEFINE new == [name |-> r.name, account |-> r.account, status |-> "active"]
<1>1. DOMAIN volumes = 1 .. Len(volumes) /\ Len(volumes) \in Nat
  BY LenProperties
<1>2. CASE volumes' = volumes
  BY <1>2 DEF Copies
<1>3. CASE r.op = "CreateVolume" /\ volumes' = Append(volumes, new)
  <2>1. /\ DOMAIN volumes' = DOMAIN volumes \cup {Len(volumes) + 1}
        /\ \A i \in DOMAIN volumes : volumes'[i] = volumes[i]
        /\ volumes'[Len(volumes) + 1] = new
    BY <1>1, <1>3
  <2> QED BY <1>3, <2>1 DEF Copies, Asks
<1>4. CASE /\ IsActive(r.id)
           /\ volumes' = [volumes EXCEPT ![r.id].status = "deleted"]
  <2>1. r.id \in DOMAIN volumes /\ volumes[r.id].status = "active"
    BY <1>4 DEF IsActive
  <2>2. volumes[r.id] \in Volume
    BY <1>1, <2>1, ElementOfSeq
  <2> QED BY <1>4, <2>1, <2>2 DEF Copies, Volume
<1> QED BY <1>2, <1>3, <1>4, ExecuteEffect

LEMMA ExecuteCopies ==
  ASSUME volumes \in Seq(Volume), NEW r \in Requests, Execute(r),
         NEW a, NEW n
  PROVE  Cardinality(Copies(a, n))'
           <= Cardinality(Copies(a, n)) + (IF Asks(r, a, n) THEN 1 ELSE 0)
<1> DEFINE more == Copies(a, n) \cup {Len(volumes) + 1}
<1>1. IsFiniteSet(Copies(a, n)) /\ Cardinality(Copies(a, n)) \in Nat
  BY CopiesFinite
<1>2. CASE Asks(r, a, n)
  <2>1. Copies(a, n)' \subseteq more
    BY <1>2, ExecuteAdds
  <2>2. /\ IsFiniteSet(more) /\ Cardinality(more) \in Nat
        /\ Cardinality(more) <= Cardinality(Copies(a, n)) + 1
    BY <1>1, CardAdd
  <2>3. /\ Cardinality(Copies(a, n)') <= Cardinality(more)
        /\ Cardinality(Copies(a, n)') \in Nat
    BY <2>1, <2>2, FS_Subset, FS_CardinalityType
  <2> QED BY <1>1, <1>2, <2>2, <2>3
<1>3. CASE ~Asks(r, a, n)
  <2>1. Copies(a, n)' \subseteq Copies(a, n)
    BY <1>3, ExecuteAdds
  <2>2. Cardinality(Copies(a, n)') <= Cardinality(Copies(a, n))
    BY <1>1, <2>1, FS_Subset
  <2> QED BY <1>1, <1>3, <2>2
<1> QED BY <1>2, <1>3

LEMMA SendPlaces ==
  ASSUME ClusterTypeOK, LateInv, NEW r \in Requests, NEW fate \in Fates,
         Send(r, fate), NEW a, NEW n
  PROVE  /\ LateInv'
         /\ Cardinality(Copies(a, n)') + Cardinality(LateCreates(a, n)')
              <= Cardinality(Copies(a, n)) + Cardinality(LateCreates(a, n))
                   + (IF Asks(r, a, n) THEN 1 ELSE 0)
<1>1. faults \in Nat /\ faults' \in Nat /\ faults <= faults'
  BY MeetType, ConstantsAssumption DEF Send, ClusterTypeOK
<1>2. /\ Cardinality(Copies(a, n)) \in Nat
      /\ IsFiniteSet(LateCreates(a, n))
      /\ Cardinality(LateCreates(a, n)) \in Nat
      /\ Cardinality(late) \in Nat
  BY CopiesFinite, LateCreatesFinite, FS_CardinalityType DEF ClusterTypeOK, LateInv
<1>3. CASE Execute(r) /\ UNCHANGED late
  <2>1. Cardinality(Copies(a, n)') \in Nat
    BY <1>3, ExecuteType, CopiesFiniteNext DEF ClusterTypeOK
  <2>2. LateCreates(a, n)' = LateCreates(a, n) /\ LateInv'
    BY <1>1, <1>2, <1>3 DEF LateCreates, LateInv
  <2>3. Cardinality(Copies(a, n)')
          <= Cardinality(Copies(a, n)) + (IF Asks(r, a, n) THEN 1 ELSE 0)
    BY <1>3, ExecuteCopies DEF ClusterTypeOK
  <2> QED BY <1>2, <2>1, <2>2, <2>3
<1>4. CASE UNCHANGED clusterVars
  <2>1. Copies(a, n)' = Copies(a, n) /\ LateCreates(a, n)' = LateCreates(a, n)
    BY <1>4 DEF Copies, LateCreates, clusterVars
  <2>2. LateInv'
    BY <1>1, <1>2, <1>4 DEF LateInv, clusterVars
  <2> QED BY <1>2, <2>1, <2>2
<1>5. CASE /\ fate \in Unanswered
           /\ late' = late \cup {[req |-> r, tag |-> faults + 1]}
           /\ UNCHANGED <<accounts, volumes>>
  <2> DEFINE l == [req |-> r, tag |-> faults + 1]
  <2>1. faults' = faults + 1
    BY <1>5 DEF Send, Meet, Unanswered
  <2>2. IsFiniteSet(late') /\ Cardinality(late') <= Cardinality(late) + 1
    BY <1>2, <1>5, CardAdd DEF LateInv
  <2>3. LateInv'
    BY <1>1, <1>2, <2>1, <2>2, FS_CardinalityType DEF LateInv
  <2>4. Copies(a, n)' = Copies(a, n)
    BY <1>5 DEF Copies
  <2>5. CASE Asks(r, a, n)
    <3>1. LateCreates(a, n)' = LateCreates(a, n) \cup {l}
      BY <1>5, <2>5 DEF LateCreates, Asks
    <3>2. /\ Cardinality(LateCreates(a, n)') <= Cardinality(LateCreates(a, n)) + 1
          /\ Cardinality(LateCreates(a, n)') \in Nat
      <4> HIDE DEF l
      <4> QED BY <1>2, <3>1, CardAdd
    <3> QED BY <1>2, <2>3, <2>4, <2>5, <3>2
  <2>6. CASE ~Asks(r, a, n)
    <3>1. LateCreates(a, n)' = LateCreates(a, n)
      BY <1>5, <2>6 DEF LateCreates, Asks
    <3> QED BY <1>2, <2>3, <2>4, <2>6, <3>1
  <2> QED BY <2>5, <2>6
<1> QED BY <1>3, <1>4, <1>5 DEF Send

(***************************************************************************)
(* A late request that arrives gives its place to the volume it makes.     *)
(***************************************************************************)
LEMMA ArrivePlaces ==
  ASSUME TypeOK, LateInv, NEW l \in late, Arrive(l), NEW a, NEW n
  PROVE  LateInv' /\ Places(a, n)' <= Places(a, n)
<1>1. /\ Cardinality(Copies(a, n)) \in Nat
      /\ IsFiniteSet(LateCreates(a, n))
      /\ Cardinality(LateCreates(a, n)) \in Nat
      /\ Cardinality(Creating(a, n)) \in Nat
      /\ Cardinality(late) \in Nat
  BY CopiesFinite, LateCreatesFinite, CreatingFinite, FS_CardinalityType
     DEF TypeOK, LateInv
<1>2. l.req \in Requests /\ volumes \in Seq(Volume)
  BY DEF TypeOK, LateRequests
<1>3. /\ Execute(l.req)
      /\ late' = late \ {l}
      /\ UNCHANGED <<faults, callerVars>>
  BY DEF Arrive
<1>4. LateInv'
  <2>1. IsFiniteSet(late') /\ Cardinality(late') = Cardinality(late) - 1
    BY <1>3, CardRemove DEF LateInv
  <2>2. faults \in Nat /\ faults' = faults
    BY <1>3, ConstantsAssumption DEF TypeOK
  <2> QED BY <1>1, <2>1, <2>2 DEF LateInv
<1>5. Creating(a, n)' = Creating(a, n)
  BY <1>3 DEF Creating, callerVars
<1>6. Cardinality(Copies(a, n)')
        <= Cardinality(Copies(a, n)) + (IF Asks(l.req, a, n) THEN 1 ELSE 0)
  BY <1>2, <1>3, ExecuteCopies
<1>7. Cardinality(Copies(a, n)') \in Nat
  BY <1>2, <1>3, ExecuteType, CopiesFiniteNext DEF TypeOK
<1>8. CASE Asks(l.req, a, n)
  <2>1. LateCreates(a, n)' = LateCreates(a, n) \ {l} /\ l \in LateCreates(a, n)
    BY <1>3, <1>8 DEF LateCreates, Asks
  <2>2. Cardinality(LateCreates(a, n)') = Cardinality(LateCreates(a, n)) - 1
    BY <1>1, <2>1, CardRemove
  <2> QED BY <1>1, <1>4, <1>5, <1>6, <1>7, <1>8, <2>2 DEF Places
<1>9. CASE ~Asks(l.req, a, n)
  <2>1. LateCreates(a, n)' = LateCreates(a, n)
    BY <1>3, <1>9 DEF LateCreates, Asks
  <2> QED BY <1>1, <1>4, <1>5, <1>6, <1>7, <1>9, <2>1 DEF Places
<1> QED BY <1>8, <1>9
-----------------------------------------------------------------------------
(***************************************************************************)
(* The bound on the volumes of one name is inductive.                      *)
(***************************************************************************)
LEMMA PlacesType ==
  ASSUME TypeOK, LateInv, NEW a, NEW n
  PROVE  /\ Cardinality(Copies(a, n)) \in Nat
         /\ Cardinality(LateCreates(a, n)) \in Nat
         /\ Cardinality(Creating(a, n)) \in Nat
         /\ Cardinality(Users(a)) \in Nat
         /\ faults \in Nat
<1>1. volumes \in Seq(Volume) /\ IsFiniteSet(late) /\ faults \in Nat
  BY ConstantsAssumption DEF TypeOK, LateInv
<1>2. /\ Cardinality(Copies(a, n)) \in Nat
      /\ Cardinality(LateCreates(a, n)) \in Nat
  BY <1>1, CopiesFinite, LateCreatesFinite
<1> QED BY <1>1, <1>2, CreatingFinite, UsersFinite

(***************************************************************************)
(* Steps that touch neither volumes nor late requests, and enter or leave  *)
(* no creation.                                                            *)
(***************************************************************************)
LEMMA QuietStep ==
  ASSUME TypeOK, LateInv, PlacesInv,
         UNCHANGED <<volumes, late>>, faults' \in Nat, faults <= faults',
         \A a, n : Creating(a, n)' = Creating(a, n)
  PROVE  LateInv' /\ PlacesInv'
<1>1. LateInv'
  BY FS_CardinalityType, ConstantsAssumption DEF LateInv, TypeOK
<1>2. ASSUME NEW a \in Tenants, NEW n \in Names
      PROVE  (Places(a, n) <= Cardinality(Users(a)) + faults)'
  <2>1. Copies(a, n)' = Copies(a, n) /\ LateCreates(a, n)' = LateCreates(a, n)
    BY DEF Copies, LateCreates
  <2>2. Places(a, n)' = Places(a, n)
    BY <2>1 DEF Places
  <2>3. Places(a, n) <= Cardinality(Users(a)) + faults
    BY DEF PlacesInv
  <2>4. Places(a, n) \in Nat /\ Cardinality(Users(a)) \in Nat /\ faults \in Nat
    BY PlacesType DEF Places
  <2>5. Users(a)' = Users(a)
    BY DEF Users
  <2> QED BY <2>2, <2>3, <2>4, <2>5
<1> QED BY <1>1, <1>2 DEF PlacesInv

(***************************************************************************)
(* A request sent by a caller whose creation, if it asks for one, ends.    *)
(***************************************************************************)
LEMMA SendStep ==
  ASSUME TypeOK, LateInv, PlacesInv, NEW r \in Requests, NEW fate \in Fates,
         Send(r, fate),
         \A a, n : /\ Creating(a, n)' \subseteq Creating(a, n)
                   /\ Asks(r, a, n) =>
                        \E c \in Creating(a, n) : c \notin Creating(a, n)'
  PROVE  LateInv' /\ PlacesInv'
<1>1. ClusterTypeOK /\ ClusterTypeOK'
  BY TypeParts, SendType
<1>2. faults \in Nat /\ faults' \in Nat /\ faults <= faults'
  BY <1>1, MeetType, ConstantsAssumption DEF Send, ClusterTypeOK
<1>3. LateInv'
  BY <1>1, SendPlaces
<1>4. ASSUME NEW a \in Tenants, NEW n \in Names
      PROVE  (Places(a, n) <= Cardinality(Users(a)) + faults)'
  <2>1. Cardinality(Copies(a, n)') + Cardinality(LateCreates(a, n)')
          <= Cardinality(Copies(a, n)) + Cardinality(LateCreates(a, n))
               + (IF Asks(r, a, n) THEN 1 ELSE 0)
    BY <1>1, SendPlaces
  <2>2. /\ IsFiniteSet(Creating(a, n))
        /\ Cardinality(Creating(a, n)) \in Nat
        /\ Cardinality(Creating(a, n)') \in Nat
        /\ Cardinality(Creating(a, n)') <= Cardinality(Creating(a, n))
    BY CreatingFinite, FS_Subset, FS_CardinalityType
  <2>3. Asks(r, a, n) =>
          Cardinality(Creating(a, n)') <= Cardinality(Creating(a, n)) - 1
    <3>1. SUFFICES ASSUME Asks(r, a, n)
                   PROVE  Cardinality(Creating(a, n)')
                            <= Cardinality(Creating(a, n)) - 1
      OBVIOUS
    <3>2. PICK c \in Creating(a, n) : c \notin Creating(a, n)'
      BY <3>1
    <3>3. Creating(a, n)' \subseteq Creating(a, n) \ {c}
      BY <3>2
    <3>4. /\ IsFiniteSet(Creating(a, n) \ {c})
          /\ Cardinality(Creating(a, n) \ {c}) = Cardinality(Creating(a, n)) - 1
      BY <2>2, CardRemove
    <3>5. Cardinality(Creating(a, n)') <= Cardinality(Creating(a, n) \ {c})
      BY <3>3, <3>4, FS_Subset
    <3> QED BY <3>4, <3>5
  <2>4. /\ Cardinality(Copies(a, n)') \in Nat
        /\ Cardinality(LateCreates(a, n)') \in Nat
    <3>1. LateCreates(a, n)' \subseteq late'
      BY DEF LateCreates
    <3>2. Cardinality(LateCreates(a, n)') \in Nat
      BY <1>3, <3>1, FS_Subset, FS_CardinalityType DEF LateInv
    <3> QED BY <1>1, <3>2, CopiesFiniteNext DEF ClusterTypeOK
  <2>5. Cardinality(Copies(a, n)') + Cardinality(Creating(a, n)')
          + Cardinality(LateCreates(a, n)')
          <= Cardinality(Copies(a, n)) + Cardinality(Creating(a, n))
               + Cardinality(LateCreates(a, n))
    BY <2>1, <2>2, <2>3, <2>4, PlacesType
  <2>6. Places(a, n)' <= Places(a, n)
    BY <2>5 DEF Places
  <2>7. Places(a, n) <= Cardinality(Users(a)) + faults
    BY DEF PlacesInv
  <2>8. Users(a)' = Users(a) /\ Cardinality(Users(a)) \in Nat
    BY UsersFinite DEF Users
  <2>9. Places(a, n) \in Nat /\ Places(a, n)' \in Nat
    BY <2>2, <2>4, PlacesType DEF Places
  <2> QED BY <1>2, <2>6, <2>7, <2>8, <2>9
<1> QED BY <1>3, <1>4 DEF PlacesInv

LEMMA InitPlaces == Init => NameBoundInv
<1> SUFFICES ASSUME Init PROVE NameBoundInv
  OBVIOUS
<1>1. TypeOK
  BY InitType
<1>2. LateInv
  BY FS_EmptySet DEF Init, LateInv
<1>3. AccountInv
  BY DEF Init, AccountInv
<1>4. ASSUME NEW a \in Tenants, NEW n \in Names
      PROVE  Places(a, n) <= Cardinality(Users(a)) + faults
  <2>1. Copies(a, n) = {} /\ Creating(a, n) = {} /\ LateCreates(a, n) = {}
    BY DEF Init, Copies, Creating, LateCreates
  <2>2. Places(a, n) = 0
    BY <2>1, FS_EmptySet DEF Places
  <2> QED BY <1>1, <1>2, <2>2, PlacesType
<1> QED BY <1>1, <1>2, <1>3, <1>4 DEF NameBoundInv, PlacesInv

LEMMA ConstructPlaces ==
  ASSUME NameBoundInv, NEW c \in Callers, Construct(c)
  PROVE  AccountInv' /\ LateInv' /\ PlacesInv'
<1>1. TypeOK /\ LateInv /\ AccountInv /\ PlacesInv /\ ClusterTypeOK
  BY TypeParts DEF NameBoundInv
<1>2. faults \in Nat /\ pc \in [Callers -> Locations]
      /\ accountID \in [Callers -> AccountIDs] /\ want \in [Callers -> Names]
  BY <1>1, ConstantsAssumption DEF TypeOK
<1>3. CASE Reconstruct(c)
  <2>1. AccountInv'
    BY <1>1, <1>2, <1>3 DEF Reconstruct, AccountInv
  <2>2. \A a, n : Creating(a, n)' = Creating(a, n)
    BY <1>2, <1>3 DEF Reconstruct, Creating, Goto
  <2> QED BY <1>1, <1>2, <1>3, <2>1, <2>2, QuietStep DEF Reconstruct, clusterVars
<1>4. ASSUME NEW fate \in Fates, GetAccountByName(c, fate)
      PROVE  AccountInv' /\ LateInv' /\ PlacesInv'
  <2>1. AccountInv'
    BY <1>1, <1>2, <1>4 DEF GetAccountByName, AccountInv, SdkResult
  <2>2. \A a, n : Creating(a, n)' = Creating(a, n)
    BY <1>2, <1>4 DEF GetAccountByName, Creating, Goto
  <2>3. faults' \in Nat /\ faults <= faults'
    BY <1>1, <1>4, MeetType, ConstantsAssumption DEF GetAccountByName
  <2> QED BY <1>1, <1>4, <2>1, <2>2, <2>3, QuietStep
          DEF GetAccountByName, clusterVars
<1>5. ASSUME NEW fate \in Fates, AddAccount(c, fate)
      PROVE  AccountInv' /\ LateInv' /\ PlacesInv'
  <2> DEFINE r == AddAccountRequest(TenantOf[c])
  <2>1. AccountInv'
    BY <1>1, <1>2, <1>5 DEF AddAccount, AccountInv, SdkResult
  <2>2. \A a, n : Creating(a, n)' = Creating(a, n)
    BY <1>2, <1>5 DEF AddAccount, Creating, Goto
  <2>3. r \in Requests /\ Send(r, fate)
    BY <1>5, RequestTypes, ConstantsAssumption DEF AddAccount
  <2>4. \A a, n : ~Asks(r, a, n)
    BY DEF Asks, AddAccountRequest
  <2> HIDE DEF r
  <2> QED BY <1>1, <2>1, <2>2, <2>3, <2>4, SendStep
<1>6. ASSUME NEW fate \in Fates, GetClusterInfo(c, fate)
      PROVE  AccountInv' /\ LateInv' /\ PlacesInv'
  <2>1. AccountInv'
    BY <1>1, <1>6 DEF GetClusterInfo, AccountInv
  <2>2. \A a, n : Creating(a, n)' = Creating(a, n)
    BY <1>2, <1>6 DEF GetClusterInfo, Creating, Goto
  <2>3. faults' \in Nat /\ faults <= faults'
    BY <1>1, <1>6, MeetType, ConstantsAssumption DEF GetClusterInfo
  <2> QED BY <1>1, <1>6, <2>1, <2>2, <2>3, QuietStep DEF GetClusterInfo, clusterVars
<1> QED BY <1>3, <1>4, <1>5, <1>6 DEF Construct

(***************************************************************************)
(* The step that matters: a caller decides to create.                      *)
(***************************************************************************)
LEMMA DecidePlaces ==
  ASSUME NameBoundInv, NEW c \in Callers, NEW n \in Names, NEW fate \in Fates,
         Meet(fate), SdkError(fate, None) = None,
         Named(SdkResult(fate, None, Listed(accountID[c]), {}), n) = {},
         pc[c] = "ready", Goto(c, "create"), want' = [want EXCEPT ![c] = n],
         UNCHANGED <<clusterVars, accountID>>
  PROVE  LateInv' /\ PlacesInv'
<1>1. TypeOK /\ LateInv /\ AccountInv /\ PlacesInv /\ ClusterTypeOK
  BY TypeParts DEF NameBoundInv
<1>2. /\ pc \in [Callers -> Locations]
      /\ want \in [Callers -> Names]
  BY <1>1 DEF TypeOK
<1>3. faults \in Nat /\ faults' \in Nat /\ faults <= faults'
  BY <1>1, MeetType, ConstantsAssumption DEF ClusterTypeOK
<1>4. LateInv'
  BY <1>1, <1>3, FS_CardinalityType DEF LateInv, clusterVars
<1>5. fate \in {"delivered", "cut"}
  BY NoErrorFates
<1>6. ASSUME NEW a \in Tenants, NEW m \in Names
      PROVE  (Places(a, m) <= Cardinality(Users(a)) + faults)'
  <2>1. /\ Copies(a, m)' = Copies(a, m)
        /\ LateCreates(a, m)' = LateCreates(a, m)
        /\ Users(a)' = Users(a)
    BY DEF Copies, LateCreates, Users, clusterVars
  <2>2. c \notin Creating(a, m)
    BY DEF Creating
  <2>3. Places(a, m) <= Cardinality(Users(a)) + faults
    BY <1>1 DEF PlacesInv
  <2>4. /\ Cardinality(Copies(a, m)) \in Nat
        /\ Cardinality(LateCreates(a, m)) \in Nat
        /\ Cardinality(Creating(a, m)) \in Nat
        /\ Cardinality(Users(a)) \in Nat
    BY <1>1, PlacesType
  <2>5. CASE ~(a = accountID[c] /\ m = n)
    <3>1. Creating(a, m)' = Creating(a, m)
      BY <1>2, <2>2, <2>5 DEF Creating, Goto
    <3> QED BY <1>3, <2>1, <2>3, <2>4, <3>1 DEF Places
  <2>6. CASE a = accountID[c] /\ m = n /\ fate = "cut"
    <3>1. Creating(a, m)' = Creating(a, m) \cup {c}
      BY <1>2, <2>6 DEF Creating, Goto
    <3>2. Cardinality(Creating(a, m)') <= Cardinality(Creating(a, m)) + 1
          /\ Cardinality(Creating(a, m)') \in Nat
      BY <3>1, CreatingFinite, CardAdd
    <3>3. faults' = faults + 1
      BY <2>6 DEF Meet
    <3> QED BY <1>3, <2>1, <2>3, <2>4, <3>2, <3>3 DEF Places
  <2>7. CASE a = accountID[c] /\ m = n /\ fate = "delivered"
    <3>1. Copies(a, m) = {}
      BY <2>7 DEF SdkResult, Named, Listed, Copies
    <3>2. Cardinality(Copies(a, m)) = 0
      BY <3>1, FS_EmptySet
    <3>3. Creating(a, m)' \subseteq Users(a)
      BY <1>1, ConstantsAssumption DEF Creating, Users, AccountInv
    <3>4. Cardinality(Creating(a, m)') <= Cardinality(Users(a))
          /\ Cardinality(Creating(a, m)') \in Nat
      BY <3>3, UsersFinite, FS_Subset, FS_CardinalityType
    <3>5. Cardinality(LateCreates(a, m)) <= Cardinality(late)
          /\ Cardinality(late) \in Nat /\ Cardinality(late) <= faults
      BY <1>1, LateCreatesFinite, FS_CardinalityType DEF LateInv
    <3> QED BY <1>3, <2>1, <2>4, <3>2, <3>4, <3>5 DEF Places
  <2> QED BY <1>5, <2>5, <2>6, <2>7
<1> QED BY <1>4, <1>6 DEF PlacesInv

LEMMA OperatePlaces ==
  ASSUME NameBoundInv, NEW c \in Callers, Operate(c)
  PROVE  AccountInv' /\ LateInv' /\ PlacesInv'
<1>1. TypeOK /\ LateInv /\ AccountInv /\ PlacesInv /\ ClusterTypeOK
  BY TypeParts DEF NameBoundInv
<1>2. pc \in [Callers -> Locations] /\ accountID \in [Callers -> AccountIDs]
      /\ want \in [Callers -> Names]
  BY <1>1 DEF TypeOK
<1>3. UNCHANGED accountID
  BY DEF Operate, GetCreateVolume, CreateVolume, DeleteVolume, GetVolume
<1>4. AccountInv'
  BY <1>1, <1>3 DEF AccountInv
<1>5. ASSUME NEW fate \in Fates, NEW n \in Names, GetCreateVolume(c, n, fate)
      PROVE  LateInv' /\ PlacesInv'
  <2>1. CASE UNCHANGED <<pc, want>>
    <3>1. \A a, m : Creating(a, m)' = Creating(a, m)
      BY <1>3, <2>1 DEF Creating
    <3>2. faults' \in Nat /\ faults <= faults' /\ UNCHANGED clusterVars
      BY <1>1, <1>5, MeetType, ConstantsAssumption DEF GetCreateVolume
    <3> QED BY <1>1, <3>1, <3>2, QuietStep DEF clusterVars
  <2>2. CASE ~UNCHANGED <<pc, want>>
    BY <1>5, <2>2, DecidePlaces DEF GetCreateVolume
  <2> QED BY <2>1, <2>2
<1>6. ASSUME NEW fate \in Fates, CreateVolume(c, fate)
      PROVE  LateInv' /\ PlacesInv'
  <2> DEFINE r == CreateVolumeRequest(accountID[c], want[c])
  <2>1. r \in Requests /\ Send(r, fate)
    BY <1>2, <1>6, RequestTypes DEF CreateVolume
  <2>2. pc[c] = "create" /\ pc' = [pc EXCEPT ![c] = "ready"]
        /\ UNCHANGED <<accountID, want>>
    BY <1>6 DEF CreateVolume, Goto
  <2>3. \A a, n : Creating(a, n)' = Creating(a, n) \ {c}
    BY <1>2, <2>2 DEF Creating
  <2>4. \A a, n : Asks(r, a, n) => c \in Creating(a, n)
    BY <2>2 DEF Asks, Creating, CreateVolumeRequest
  <2> HIDE DEF r
  <2>5. \A a, n : /\ Creating(a, n)' \subseteq Creating(a, n)
                  /\ Asks(r, a, n) =>
                       \E d \in Creating(a, n) : d \notin Creating(a, n)'
    BY <2>3, <2>4
  <2> QED BY <1>1, <2>1, <2>5, SendStep
<1>7. ASSUME NEW fate \in Fates, NEW i \in VolumeIDs, DeleteVolume(c, i, fate)
      PROVE  LateInv' /\ PlacesInv'
  <2> DEFINE r == DeleteVolumeRequest(i)
  <2>1. r \in Requests /\ Send(r, fate) /\ UNCHANGED <<pc, accountID, want>>
    BY <1>7, RequestTypes DEF DeleteVolume
  <2>2. \A a, n : Creating(a, n)' = Creating(a, n)
    BY <2>1 DEF Creating
  <2>3. \A a, n : ~Asks(r, a, n)
    BY DEF Asks, DeleteVolumeRequest
  <2> HIDE DEF r
  <2> QED BY <1>1, <2>1, <2>2, <2>3, SendStep
<1>8. ASSUME NEW fate \in Fates, NEW i \in VolumeIDs, GetVolume(c, i, fate)
      PROVE  LateInv' /\ PlacesInv'
  <2>1. UNCHANGED <<clusterVars, pc, accountID, want>> /\ Meet(fate)
    BY <1>8 DEF GetVolume
  <2>2. \A a, n : Creating(a, n)' = Creating(a, n)
    BY <2>1 DEF Creating
  <2>3. faults' \in Nat /\ faults <= faults'
    BY <1>1, <2>1, MeetType, ConstantsAssumption
  <2> QED BY <1>1, <2>1, <2>2, <2>3, QuietStep DEF clusterVars
<1> QED BY <1>4, <1>5, <1>6, <1>7, <1>8 DEF Operate

LEMMA ClusterPlaces ==
  ASSUME NameBoundInv, Cluster
  PROVE  AccountInv' /\ LateInv' /\ PlacesInv'
<1>1. TypeOK /\ LateInv /\ AccountInv /\ PlacesInv
  BY DEF NameBoundInv
<1>2. ASSUME LateInv', UNCHANGED <<faults, callerVars>>,
             TypeOK',
             \A a, n : Places(a, n)' <= Places(a, n)
      PROVE  AccountInv' /\ LateInv' /\ PlacesInv'
  <2>1. AccountInv'
    BY <1>1, <1>2 DEF AccountInv, callerVars
  <2>2. ASSUME NEW a \in Tenants, NEW n \in Names
        PROVE  (Places(a, n) <= Cardinality(Users(a)) + faults)'
    <3>1. Places(a, n)' <= Places(a, n) /\ UNCHANGED faults
      BY <1>2
    <3>2. Places(a, n) <= Cardinality(Users(a)) + faults
      BY <1>1 DEF PlacesInv
    <3>3. Users(a)' = Users(a)
      BY DEF Users
    <3>4. Places(a, n) \in Nat /\ Cardinality(Users(a)) \in Nat /\ faults \in Nat
      BY <1>1, PlacesType DEF Places
    <3>5. Places(a, n)' \in Nat
      <4>1. volumes' \in Seq(Volume) /\ IsFiniteSet(late')
        BY <1>2 DEF TypeOK, LateInv
      <4>2. Cardinality(Copies(a, n)') \in Nat
        BY <4>1, CopiesFiniteNext
      <4>3. LateCreates(a, n)' \subseteq late' /\ Creating(a, n)' \subseteq Callers
        BY DEF LateCreates, Creating
      <4>4. /\ Cardinality(LateCreates(a, n)') \in Nat
            /\ Cardinality(Creating(a, n)') \in Nat
        BY <4>1, <4>3, ConstantsAssumption, FS_Subset, FS_CardinalityType
      <4> QED BY <4>2, <4>4 DEF Places
    <3> QED BY <3>1, <3>2, <3>3, <3>4, <3>5
  <2> QED BY <1>2, <2>1, <2>2 DEF PlacesInv
<1>3. TypeOK'
  BY <1>1, ClusterType
<1>4. ASSUME NEW l \in late, Arrive(l)
      PROVE  AccountInv' /\ LateInv' /\ PlacesInv'
  <2>1. LateInv' /\ \A a, n : Places(a, n)' <= Places(a, n)
    BY <1>1, <1>4, ArrivePlaces
  <2> QED BY <1>2, <1>3, <1>4, <2>1 DEF Arrive
<1>5. ASSUME NEW i \in DOMAIN volumes, Purge(i)
      PROVE  AccountInv' /\ LateInv' /\ PlacesInv'
  <2>1. LateInv'
    BY <1>1, <1>5 DEF Purge, LateInv
  <2>2. ASSUME NEW a, NEW n
        PROVE  Places(a, n)' <= Places(a, n)
    <3>1. Copies(a, n)' \subseteq Copies(a, n)
      <4>1. volumes[i] \in Volume
        BY <1>1, LenProperties, ElementOfSeq DEF TypeOK
      <4> QED BY <1>5, <4>1 DEF Purge, Copies, Volume
    <3>2. Cardinality(Copies(a, n)') <= Cardinality(Copies(a, n))
          /\ Cardinality(Copies(a, n)') \in Nat
      BY <1>1, <3>1, CopiesFinite, FS_Subset, FS_CardinalityType DEF TypeOK
    <3>3. Creating(a, n)' = Creating(a, n) /\ LateCreates(a, n)' = LateCreates(a, n)
      BY <1>5 DEF Purge, Creating, LateCreates, callerVars
    <3> QED BY <1>1, <3>2, <3>3, PlacesType DEF Places
  <2> QED BY <1>2, <1>3, <1>5, <2>1, <2>2 DEF Purge
<1> QED BY <1>4, <1>5 DEF Cluster

(***************************************************************************)
(* The places taken stay within the bound, whatever the calls meet.        *)
(***************************************************************************)
THEOREM NameBoundInvariant == Spec => []NameBoundInv
<1>1. NameBoundInv /\ [Next]_vars => NameBoundInv'
  <2> SUFFICES ASSUME NameBoundInv, [Next]_vars PROVE NameBoundInv'
    OBVIOUS
  <2>1. TypeOK
    BY DEF NameBoundInv
  <2>2. CASE UNCHANGED vars
    BY <2>2 DEF NameBoundInv, TypeOK, LateInv, AccountInv, PlacesInv, Places,
                Copies, Creating, LateCreates, Users, vars, clusterVars, callerVars
  <2>3. CASE Next
    BY <2>1, <2>3, ConstructType, OperateType, ClusterType,
       ConstructPlaces, OperatePlaces, ClusterPlaces DEF Next, NameBoundInv
  <2> QED BY <2>2, <2>3
<1> QED BY <1>1, InitPlaces, PTL DEF Spec

(***************************************************************************)
(* No tenant has more volumes of one name than callers and faults together *)
(* explain.                                                                *)
(***************************************************************************)
THEOREM SameNameBounded == Spec => []SameNameBound
<1>1. NameBoundInv => SameNameBound
  <2> SUFFICES ASSUME NameBoundInv, NEW a \in Tenants, NEW n \in Names
               PROVE  Cardinality(Copies(a, n)) <= Cardinality(Users(a)) + faults
    BY DEF SameNameBound
  <2>1. Places(a, n) <= Cardinality(Users(a)) + faults
    BY DEF NameBoundInv, PlacesInv
  <2> QED BY <2>1, PlacesType DEF NameBoundInv, Places
<1> QED BY <1>1, NameBoundInvariant, PTL
-----------------------------------------------------------------------------
(***************************************************************************)
(* Accounts are never removed, so a Client that found or added its account *)
(* keeps working on it.                                                    *)
(***************************************************************************)
Settled(c) == pc[c] \in {"info", "ready", "create"}
AgreeInv == /\ TypeOK
            /\ \A c \in Callers : Settled(c) => /\ accountID[c] = TenantOf[c]
                                               /\ TenantOf[c] \in accounts

LEMMA AccountsGrow == TypeOK /\ [Next]_vars => accounts \subseteq accounts'
<1> SUFFICES ASSUME TypeOK, [Next]_vars PROVE accounts \subseteq accounts'
  OBVIOUS
<1>1. \A r : Execute(r) => accounts \subseteq accounts'
  BY DEF Execute
<1>2. \A r, fate : Send(r, fate) => accounts \subseteq accounts'
  BY <1>1 DEF Send, clusterVars
<1>3. ASSUME NEW c \in Callers, Construct(c) PROVE accounts \subseteq accounts'
  BY <1>2, <1>3 DEF Construct, Reconstruct, GetAccountByName, AddAccount,
                    GetClusterInfo, clusterVars
<1>4. ASSUME NEW c \in Callers, Operate(c) PROVE accounts \subseteq accounts'
  BY <1>2, <1>4 DEF Operate, GetCreateVolume, CreateVolume, DeleteVolume,
                    GetVolume, clusterVars
<1>5. ASSUME Cluster PROVE accounts \subseteq accounts'
  BY <1>1, <1>5 DEF Cluster, Arrive, Purge
<1> QED BY <1>3, <1>4, <1>5 DEF Next, vars, clusterVars

(***************************************************************************)
(* The constructor is where a caller settles.  Without cut replies, no     *)
(* error means that the reply held the account.                            *)
(***************************************************************************)
LEMMA ConstructAgrees ==
  ASSUME "cut" \notin Fates, AgreeInv, accounts \subseteq accounts',
         NEW c \in Callers, Construct(c),
         NEW d \in Callers, Settled(d)'
  PROVE  accountID'[d] = TenantOf[d] /\ TenantOf[d] \in accounts'
<1>1. /\ pc \in [Callers -> Locations]
      /\ accountID \in [Callers -> AccountIDs]
      /\ Settled(d) => accountID[d] = TenantOf[d] /\ TenantOf[d] \in accounts
  BY DEF AgreeInv, TypeOK
<1>2. \A fate \in Fates : \A refusal :
        SdkError(fate, refusal) = None => fate = "delivered" /\ refusal = None
  BY NoErrorHasResult
<1>3. CASE Reconstruct(c)
  BY <1>1, <1>3 DEF Reconstruct, Goto, Settled
<1>4. ASSUME NEW fate \in Fates, GetAccountByName(c, fate)
      PROVE  accountID'[d] = TenantOf[d] /\ TenantOf[d] \in accounts'
  <2> DEFINE unknown == IF TenantOf[c] \in accounts THEN None ELSE "xUnknownAccount"
  <2>1. CASE c = d
    <3>1. pc' = [pc EXCEPT ![c] = "info"]
          /\ accountID' = [accountID EXCEPT ![c] =
                             SdkResult(fate, unknown, TenantOf[c], NoAccount)]
          /\ SdkError(fate, unknown) = None
      BY <1>1, <1>4, <2>1 DEF GetAccountByName, Goto, Settled
    <3>2. fate = "delivered" /\ unknown = None
      BY <1>2, <3>1
    <3>3. TenantOf[c] \in accounts
      BY <3>2 DEF None
    <3>4. SdkResult(fate, unknown, TenantOf[c], NoAccount) = TenantOf[c]
      BY <3>2 DEF SdkResult
    <3> QED BY <1>1, <2>1, <3>1, <3>3, <3>4
  <2>2. CASE c # d
    BY <1>1, <1>4, <2>2 DEF GetAccountByName, Goto, Settled
  <2> QED BY <2>1, <2>2
<1>5. ASSUME NEW fate \in Fates, AddAccount(c, fate)
      PROVE  accountID'[d] = TenantOf[d] /\ TenantOf[d] \in accounts'
  <2> DEFINE r == AddAccountRequest(TenantOf[c])
  <2>1. CASE c = d
    <3>1. /\ Send(r, fate)
          /\ SdkError(fate, Refusal(r)) = None
          /\ accountID' = [accountID EXCEPT ![c] =
                             SdkResult(fate, Refusal(r), TenantOf[c], NoAccount)]
      BY <1>1, <1>5, <2>1 DEF AddAccount, Goto, Settled
    <3>2. fate = "delivered" /\ Refusal(r) = None
      BY <1>2, <3>1
    <3>3. accountID'[d] = TenantOf[d]
      BY <1>1, <2>1, <3>1, <3>2 DEF SdkResult
    <3>4. Execute(r)
      BY <3>1, <3>2 DEF Send, Unanswered
    <3>5. r.op = "AddAccount" /\ r.account = TenantOf[c]
      BY DEF AddAccountRequest
    <3>6. TenantOf[c] \in accounts'
      <4> HIDE DEF r
      <4> QED BY <3>2, <3>4, <3>5 DEF Execute
    <3> QED BY <2>1, <3>3, <3>6
  <2>2. CASE c # d
    BY <1>1, <1>5, <2>2 DEF AddAccount, Goto, Settled
  <2> QED BY <2>1, <2>2
<1>6. ASSUME NEW fate \in Fates, GetClusterInfo(c, fate)
      PROVE  accountID'[d] = TenantOf[d] /\ TenantOf[d] \in accounts'
  BY <1>1, <1>6 DEF GetClusterInfo, Goto, Settled
<1> QED BY <1>3, <1>4, <1>5, <1>6 DEF Construct

LEMMA AgreeInvariant ==
  ASSUME "cut" \notin Fates
  PROVE  Spec => []AgreeInv
<1>1. Init => AgreeInv
  BY InitType DEF Init, AgreeInv, Settled
<1>2. AgreeInv /\ [Next]_vars => AgreeInv'
  <2> SUFFICES ASSUME AgreeInv, [Next]_vars PROVE AgreeInv'
    OBVIOUS
  <2>1. TypeOK /\ accounts \subseteq accounts'
    BY AccountsGrow DEF AgreeInv
  <2>2. TypeOK'
    BY <2>1, ConstructType, OperateType, ClusterType
       DEF Next, TypeOK, vars, clusterVars, callerVars
  <2>3. ASSUME NEW d \in Callers, Settled(d)'
        PROVE  accountID'[d] = TenantOf[d] /\ TenantOf[d] \in accounts'
    <3>1. /\ pc \in [Callers -> Locations]
          /\ Settled(d) => accountID[d] = TenantOf[d] /\ TenantOf[d] \in accounts
      BY DEF AgreeInv, TypeOK
    <3>2. CASE UNCHANGED vars \/ Cluster
      BY <2>1, <2>3, <3>1, <3>2
         DEF vars, callerVars, Cluster, Arrive, Purge, Settled
    <3>3. ASSUME NEW c \in Callers, Construct(c)
          PROVE  accountID'[d] = TenantOf[d] /\ TenantOf[d] \in accounts'
      BY <2>1, <2>3, <3>3, ConstructAgrees
    <3>4. ASSUME NEW c \in Callers, Operate(c)
          PROVE  accountID'[d] = TenantOf[d] /\ TenantOf[d] \in accounts'
      <4>1. UNCHANGED accountID /\ pc[c] \in {"ready", "create"}
            /\ \/ UNCHANGED pc
               \/ \E l \in Locations : pc' = [pc EXCEPT ![c] = l]
        BY <3>4 DEF Operate, GetCreateVolume, CreateVolume, DeleteVolume,
                    GetVolume, Goto, Locations
      <4>2. Settled(d)
        BY <2>3, <3>1, <4>1 DEF Settled
      <4> QED BY <2>1, <3>1, <4>1, <4>2
    <3> QED BY <3>2, <3>3, <3>4 DEF Next
  <2> QED BY <2>2, <2>3 DEF AgreeInv
<1> QED BY <1>1, <1>2, PTL DEF Spec

(***************************************************************************)
(* Where no reply is cut short, every Client works on its tenant's account.*)
(***************************************************************************)
THEOREM TenantAgreed ==
  ASSUME "cut" \notin Fates
  PROVE  Spec => []TenantAgreement
<1>1. AgreeInv => TenantAgreement
  BY DEF AgreeInv, TenantAgreement, Connected, Settled
<1> QED BY <1>1, AgreeInvariant, PTL
-----------------------------------------------------------------------------
(***************************************************************************)
(* A VolumeID, once given, keeps its name and its account, and a volume is *)
(* only ever made in an account that is there.                             *)
(***************************************************************************)
OwnedInv == \A i \in DOMAIN volumes : volumes[i].account \in Tenants

Kept(i) == /\ i \in DOMAIN volumes'
           /\ volumes'[i].name = volumes[i].name
           /\ volumes'[i].account = volumes[i].account
VolumesKept == /\ \A i \in DOMAIN volumes : Kept(i)
               /\ \A i \in DOMAIN volumes' :
                    i \in DOMAIN volumes \/ volumes'[i].account \in Tenants

LEMMA AppendKeeps ==
  ASSUME volumes \in Seq(Volume), NEW v \in Volume, volumes' = Append(volumes, v)
  PROVE  /\ \A i \in DOMAIN volumes : Kept(i)
         /\ DOMAIN volumes' = DOMAIN volumes \cup {Len(volumes) + 1}
         /\ volumes'[Len(volumes) + 1] = v
<1>1. /\ volumes' \in Seq(Volume)
      /\ Len(volumes') = Len(volumes) + 1
      /\ \A i \in 1 .. Len(volumes) : volumes'[i] = volumes[i]
      /\ volumes'[Len(volumes) + 1] = v
  BY AppendProperties
<1>2. /\ DOMAIN volumes = 1 .. Len(volumes) /\ Len(volumes) \in Nat
      /\ DOMAIN volumes' = 1 .. Len(volumes')
  BY <1>1, LenProperties
<1> QED BY <1>1, <1>2 DEF Kept

LEMMA StatusKeeps ==
  ASSUME volumes \in Seq(Volume), NEW i \in DOMAIN volumes,
         NEW s, volumes' = [volumes EXCEPT ![i].status = s]
  PROVE  DOMAIN volumes' = DOMAIN volumes /\ \A k \in DOMAIN volumes : Kept(k)
<1> DEFINE e == [volumes[i] EXCEPT !.status = s]
<1>1. volumes[i] \in Volume
  BY ElementOfSeq, LenProperties
<1>2. e.name = volumes[i].name /\ e.account = volumes[i].account
  BY <1>1 DEF Volume
<1>3. volumes' = [volumes EXCEPT ![i] = e]
  OBVIOUS
<1> HIDE DEF e
<1>4. \A k \in DOMAIN volumes : volumes'[k] = IF k = i THEN e ELSE volumes[k]
  BY <1>3
<1>5. DOMAIN volumes' = DOMAIN volumes
  BY <1>3
<1> QED BY <1>2, <1>4, <1>5 DEF Kept

LEMMA ExecuteKeeps ==
  ASSUME volumes \in Seq(Volume), accounts \subseteq Tenants,
         NEW r \in Requests, Execute(r)
  PROVE  VolumesKept
<1>1. CASE r.op = "CreateVolume" /\ Refusal(r) = None
  <2> DEFINE v == [name |-> r.name, account |-> r.account, status |-> "active"]
  <2>1. volumes' = Append(volumes, v)
    BY <1>1 DEF Execute
  <2>2. r.account \in accounts
    BY <1>1 DEF Refusal, None
  <2>3. v \in Volume /\ v.account \in Tenants
    BY <1>1, <2>2 DEF Requests, Volume, AccountIDs
  <2> HIDE DEF v
  <2> QED BY <2>1, <2>3, AppendKeeps DEF VolumesKept
<1>2. CASE r.op = "DeleteVolume" /\ Refusal(r) = None
  <2>1. r.id \in DOMAIN volumes
    BY <1>2 DEF Refusal, None, IsActive
  <2>2. volumes' = [volumes EXCEPT ![r.id].status = "deleted"]
    BY <1>2 DEF Execute
  <2> QED BY <2>1, <2>2, StatusKeeps DEF VolumesKept
<1>3. CASE ~(r.op = "CreateVolume" /\ Refusal(r) = None)
             /\ ~(r.op = "DeleteVolume" /\ Refusal(r) = None)
  BY <1>3 DEF Execute, VolumesKept, Kept
<1> QED BY <1>1, <1>2, <1>3

LEMMA SameVolumesKept == volumes' = volumes => VolumesKept
BY DEF VolumesKept, Kept

LEMMA StepKeeps == ASSUME TypeOK, [Next]_vars PROVE VolumesKept
<1>0. volumes \in Seq(Volume) /\ accounts \subseteq Tenants
  BY DEF TypeOK
<1>1. ASSUME NEW r \in Requests, NEW fate, Send(r, fate) PROVE VolumesKept
  BY <1>0, <1>1, ExecuteKeeps, SameVolumesKept DEF Send, clusterVars
<1>2. ASSUME NEW c \in Callers, Construct(c) PROVE VolumesKept
  <2>1. ASSUME NEW fate \in Fates, AddAccount(c, fate) PROVE VolumesKept
    BY <1>1, <2>1, RequestTypes, ConstantsAssumption
       DEF AddAccount, ConstantsAssumption
  <2> QED BY <1>2, <2>1, SameVolumesKept
          DEF Construct, Reconstruct, GetAccountByName, GetClusterInfo, clusterVars
<1>3. ASSUME NEW c \in Callers, Operate(c) PROVE VolumesKept
  <2>1. ASSUME NEW fate \in Fates, CreateVolume(c, fate) PROVE VolumesKept
    BY <1>1, <2>1, RequestTypes DEF CreateVolume, TypeOK
  <2>2. ASSUME NEW fate \in Fates, NEW i \in VolumeIDs, DeleteVolume(c, i, fate)
        PROVE  VolumesKept
    BY <1>1, <2>2, RequestTypes DEF DeleteVolume
  <2> QED BY <1>3, <2>1, <2>2, SameVolumesKept
          DEF Operate, GetCreateVolume, GetVolume, clusterVars
<1>4. ASSUME NEW l \in late, Arrive(l) PROVE VolumesKept
  <2>1. l.req \in Requests
    BY DEF TypeOK, LateRequests
  <2> QED BY <1>0, <1>4, <2>1, ExecuteKeeps DEF Arrive
<1>5. ASSUME NEW i \in DOMAIN volumes, Purge(i) PROVE VolumesKept
  BY <1>0, <1>5, StatusKeeps DEF Purge, VolumesKept
<1>6. CASE UNCHANGED vars
  BY <1>6, SameVolumesKept DEF vars, clusterVars
<1> QED BY <1>2, <1>3, <1>4, <1>5, <1>6 DEF Next, Cluster
-----------------------------------------------------------------------------
(***************************************************************************)
(* What an operation may return: nothing of a volume, or one of the        *)
(* caller's own, and of the name asked for.                                *)
(***************************************************************************)
Matches(c, r, vols) ==
  (r.op \in {"GetCreateVolume", "GetVolume"} /\ r.id # NoVolume) =>
    /\ r.id \in DOMAIN vols
    /\ vols[r.id].account = TenantOf[c]
    /\ r.op = "GetCreateVolume" => vols[r.id].name = r.name

MatchInv == /\ NameBoundInv
            /\ OwnedInv
            /\ \A c \in Callers : Matches(c, ret[c], volumes)

LEMMA ReturnedShape ==
  ASSUME NEW o, NEW n, NEW i, NEW e
  PROVE  /\ Returned(o, n, i, e).op = o
         /\ Returned(o, n, i, e).name = n
         /\ Returned(o, n, i, e).id = i
BY DEF Returned

LEMMA OldMatch ==
  ASSUME NEW c, NEW r, Matches(c, r, volumes), VolumesKept
  PROVE  Matches(c, r, volumes')
BY DEF Matches, VolumesKept, Kept

LEMMA ListingMatches ==
  ASSUME MatchInv, NEW c \in Callers, NEW n \in Names, NEW fate \in Fates,
         GetCreateVolume(c, n, fate)
  PROVE  Matches(c, ret'[c], volumes)
<1> DEFINE found == Named(SdkResult(fate, None, Listed(accountID[c]), {}), n)
<1>0. ret \in [Callers -> Returns]
  BY DEF MatchInv, NameBoundInv, TypeOK
<1>1. \A i \in found : /\ i \in DOMAIN volumes
                       /\ volumes[i].account = accountID[c]
                       /\ volumes[i].name = n
  BY DEF Named, SdkResult, Listed
<1>2. \A i \in found : volumes[i].account = TenantOf[c]
  BY <1>1, ConstantsAssumption DEF MatchInv, OwnedInv, NameBoundInv, AccountInv,
                                   ConstantsAssumption
<1>3. ASSUME NEW i \in found, ret' = [ret EXCEPT ![c] =
                                 Returned("GetCreateVolume", n, i, None)]
      PROVE  Matches(c, ret'[c], volumes)
  BY <1>0, <1>1, <1>2, <1>3, ReturnedShape DEF Matches
<1>4. ASSUME ret' = [ret EXCEPT ![c] =
                       Returned("GetCreateVolume", n, NoVolume, None)]
      PROVE  Matches(c, ret'[c], volumes)
  BY <1>0, <1>4, ReturnedShape DEF Matches
<1> HIDE DEF found
<1>5. ret' = ret \/ (\E i \in found : ret' = [ret EXCEPT ![c] =
                                 Returned("GetCreateVolume", n, i, None)])
        \/ ret' = [ret EXCEPT ![c] = Returned("GetCreateVolume", n, NoVolume, None)]
  BY DEF GetCreateVolume, Return, found
<1> QED BY <1>3, <1>4, <1>5 DEF MatchInv

LEMMA CreationMatches ==
  ASSUME MatchInv, NEW c \in Callers, NEW fate \in Fates, CreateVolume(c, fate)
  PROVE  Matches(c, ret'[c], volumes')
<1> DEFINE r   == CreateVolumeRequest(accountID[c], want[c])
           id  == SdkResult(fate, Refusal(r), Len(volumes) + 1, NoVolume)
           err == SdkError(fate, Refusal(r))
<1>0. /\ ret \in [Callers -> Returns] /\ volumes \in Seq(Volume)
      /\ accounts \subseteq Tenants
      /\ accountID[c] \in {TenantOf[c], NoAccount}
      /\ accountID[c] \in AccountIDs /\ want[c] \in Names
  BY DEF MatchInv, NameBoundInv, TypeOK, AccountInv
<1>1. /\ Send(r, fate)
      /\ ret'[c] = Returned("GetCreateVolume", want[c], id, err)
  BY <1>0 DEF CreateVolume, Return
<1>2. r.op = "CreateVolume" /\ r.account = accountID[c] /\ r.name = want[c]
  BY DEF CreateVolumeRequest
<1> HIDE DEF r
<1>3. CASE fate = "delivered" /\ Refusal(r) = None
  <2> DEFINE v == [name |-> r.name, account |-> r.account, status |-> "active"]
  <2>1. Execute(r)
    BY <1>1, <1>3 DEF Send, Unanswered
  <2>2. volumes' = Append(volumes, v)
    BY <1>2, <1>3, <2>1 DEF Execute
  <2>3. r.account \in accounts
    BY <1>2, <1>3 DEF Refusal, None
  <2>4. /\ v \in Volume /\ v.name = want[c] /\ v.account = TenantOf[c]
    BY <1>0, <1>2, <2>3, ConstantsAssumption DEF Volume, ConstantsAssumption
  <2>5. id = Len(volumes) + 1
    BY <1>3 DEF SdkResult
  <2> HIDE DEF v, id
  <2> QED BY <1>0, <1>1, <2>2, <2>4, <2>5, AppendKeeps, ReturnedShape DEF Matches
<1>4. CASE ~(fate = "delivered" /\ Refusal(r) = None)
  <2>1. id = NoVolume
    BY <1>4 DEF SdkResult
  <2> QED BY <1>1, <2>1, ReturnedShape DEF Matches
<1> QED BY <1>3, <1>4

LEMMA LookupMatches ==
  ASSUME MatchInv, NEW c \in Callers, NEW i \in VolumeIDs, NEW fate \in Fates,
         GetVolume(c, i, fate)
  PROVE  Matches(c, ret'[c], volumes)
<1> DEFINE page == {j \in DOMAIN volumes :
                      IsFirst(j, {k \in DOMAIN volumes : k >= i /\ IsActive(k)})}
           seen == SdkResult(fate, None, page, {})
           mine == Mine(c, i, seen)
           got  == IF SdkError(fate, None) = None /\ mine THEN i ELSE NoVolume
<1>0. ret \in [Callers -> Returns] /\ accountID[c] \in {TenantOf[c], NoAccount}
  BY DEF MatchInv, NameBoundInv, TypeOK, AccountInv
<1>1. PICK e : ret'[c] = Returned("GetVolume", AnyName, got, e)
  BY <1>0 DEF GetVolume, Return
<1>2. mine => i \in DOMAIN volumes /\ volumes[i].account = TenantOf[c]
  BY <1>0, ConstantsAssumption
     DEF Mine, SdkResult, MatchInv, OwnedInv, ConstantsAssumption
<1> HIDE DEF mine
<1>3. got # NoVolume => got = i /\ mine
  OBVIOUS
<1> HIDE DEF got
<1> QED BY <1>1, <1>2, <1>3, ReturnedShape DEF Matches

LEMMA StepMatches ==
  ASSUME MatchInv, [Next]_vars, VolumesKept, NEW d \in Callers
  PROVE  Matches(d, ret'[d], volumes')
<1>0. ret \in [Callers -> Returns] /\ Matches(d, ret[d], volumes)
  BY DEF MatchInv, NameBoundInv, TypeOK
<1>1. CASE ret'[d] = ret[d]
  BY <1>0, <1>1, OldMatch
<1>2. ASSUME NEW c \in Callers, NEW n \in Names, NEW fate \in Fates,
             GetCreateVolume(c, n, fate)
      PROVE  Matches(d, ret'[d], volumes')
  <2>1. c # d => ret'[d] = ret[d]
    BY <1>0, <1>2 DEF GetCreateVolume, Return
  <2> QED BY <1>1, <1>2, <2>1, ListingMatches, OldMatch
<1>3. ASSUME NEW c \in Callers, NEW fate \in Fates, CreateVolume(c, fate)
      PROVE  Matches(d, ret'[d], volumes')
  <2>1. c # d => ret'[d] = ret[d]
    BY <1>0, <1>3 DEF CreateVolume, Return
  <2> QED BY <1>1, <1>3, <2>1, CreationMatches
<1>4. ASSUME NEW c \in Callers, NEW i \in VolumeIDs, NEW fate \in Fates,
             DeleteVolume(c, i, fate)
      PROVE  Matches(d, ret'[d], volumes')
  <2>1. c # d => ret'[d] = ret[d]
    BY <1>0, <1>4 DEF DeleteVolume, Return
  <2>2. c = d => ret'[d].op = "DeleteVolume"
    BY <1>0, <1>4, ReturnedShape DEF DeleteVolume, Return
  <2> QED BY <1>1, <2>1, <2>2 DEF Matches
<1>5. ASSUME NEW c \in Callers, NEW i \in VolumeIDs, NEW fate \in Fates,
             GetVolume(c, i, fate)
      PROVE  Matches(d, ret'[d], volumes')
  <2>1. c # d => ret'[d] = ret[d]
    BY <1>0, <1>5 DEF GetVolume, Return
  <2> QED BY <1>1, <1>5, <2>1, LookupMatches, OldMatch
<1>6. CASE UNCHANGED vars \/ Cluster \/ \E c \in Callers : Construct(c)
  <2>1. ret' = ret
    BY <1>6 DEF vars, callerVars, Cluster, Arrive, Purge, Construct, Reconstruct,
                GetAccountByName, AddAccount, GetClusterInfo
  <2> QED BY <1>1, <2>1
<1> QED BY <1>2, <1>3, <1>4, <1>5, <1>6 DEF Next, Operate

LEMMA MatchInvariant == Spec => []MatchInv
<1>1. Init => OwnedInv /\ \A c \in Callers : Matches(c, ret[c], volumes)
  BY DEF Init, OwnedInv, Matches, Nothing, Returned
<1>2. Init => MatchInv
  BY <1>1, InitPlaces DEF MatchInv
<1>3. ASSUME MatchInv, NameBoundInv', [Next]_vars PROVE MatchInv'
  <2>1. VolumesKept
    BY <1>3, StepKeeps DEF MatchInv, NameBoundInv
  <2>2. OwnedInv'
    BY <1>3, <2>1 DEF VolumesKept, Kept, MatchInv, OwnedInv
  <2>3. \A c \in Callers : Matches(c, ret'[c], volumes')
    BY <1>3, <2>1, StepMatches
  <2> QED BY <1>3, <2>2, <2>3 DEF MatchInv
<1> QED BY <1>2, <1>3, NameBoundInvariant, PTL DEF Spec

(***************************************************************************)
(* Whatever calls fail and however callers interleave, no one is given     *)
(* another tenant's volume, or one of another name.                        *)
(***************************************************************************)
THEOREM ReturnedAlwaysMatches == Spec => []ReturnedVolumeMatches
<1>1. MatchInv => ReturnedVolumeMatches
  BY DEF MatchInv, ReturnedVolumeMatches, Matches
<1> QED BY <1>1, MatchInvariant, PTL
-----------------------------------------------------------------------------
(***************************************************************************)
(* The promise of TenantVolumes.  A request that creates a volume, late    *)
(* ones included, does so for the tenant of one of the callers, or in the  *)
(* zero account, which the cluster refuses.                                *)
(***************************************************************************)
CallerTenants == {TenantOf[c] : c \in Callers}
Proper(r)  == r.op = "CreateVolume" => r.account \in CallerTenants \cup {NoAccount}
ProperInv  == \A l \in late : Proper(l.req)

ServiceInv == MatchInv /\ ProperInv

LEMMA SendProper ==
  ASSUME ProperInv, NEW r, Proper(r), NEW fate, Send(r, fate)
  PROVE  ProperInv'
BY DEF ProperInv, Send, clusterVars

LEMMA CallersProper ==
  ASSUME AccountInv, NEW c \in Callers
  PROVE  /\ Proper(AddAccountRequest(TenantOf[c]))
         /\ Proper(CreateVolumeRequest(accountID[c], want[c]))
         /\ \A i : Proper(DeleteVolumeRequest(i))
BY DEF Proper, AddAccountRequest, CreateVolumeRequest, DeleteVolumeRequest,
       AccountInv, CallerTenants

LEMMA StepProper ==
  ASSUME ProperInv, AccountInv, [Next]_vars
  PROVE  ProperInv'
<1>1. ASSUME NEW c \in Callers, Construct(c) PROVE ProperInv'
  <2>1. ASSUME NEW fate \in Fates, AddAccount(c, fate) PROVE ProperInv'
    BY <2>1, SendProper, CallersProper DEF AddAccount
  <2> QED BY <1>1, <2>1 DEF Construct, Reconstruct, GetAccountByName,
                            GetClusterInfo, clusterVars, ProperInv
<1>2. ASSUME NEW c \in Callers, Operate(c) PROVE ProperInv'
  <2>1. ASSUME NEW fate \in Fates, CreateVolume(c, fate) PROVE ProperInv'
    BY <2>1, SendProper, CallersProper DEF CreateVolume
  <2>2. ASSUME NEW fate \in Fates, NEW i \in VolumeIDs, DeleteVolume(c, i, fate)
        PROVE  ProperInv'
    BY <2>2, SendProper, CallersProper DEF DeleteVolume
  <2> QED BY <1>2, <2>1, <2>2
          DEF Operate, GetCreateVolume, GetVolume, clusterVars, ProperInv
<1>3. ASSUME Cluster PROVE ProperInv'
  BY <1>3 DEF Cluster, Arrive, Purge, ProperInv
<1> QED BY <1>1, <1>2, <1>3 DEF Next, ProperInv, vars, clusterVars

(***************************************************************************)
(* The volumes.                                                            *)
(***************************************************************************)
LEMMA ExecuteServes ==
  ASSUME volumes \in Seq(Volume), accounts \subseteq Tenants,
         NEW r \in Requests, Proper(r), Execute(r)
  PROVE  volumes' = volumes \/ Service!Serve
<1>1. CASE r.op = "CreateVolume" /\ Refusal(r) = None
  <2>1. r.account \in Tenants /\ r.name \in Names
    BY <1>1 DEF Refusal, None, Requests
  <2>2. PICK c \in Callers : r.account = TenantOf[c]
    BY <1>1, <2>1, ConstantsAssumption DEF Proper, CallerTenants, ConstantsAssumption
  <2>3. Service!Make(TenantOf[c], r.name)
    BY <1>1, <2>2 DEF Execute, Service!Make
  <2> QED BY <2>1, <2>3 DEF Service!Serve
<1>2. CASE r.op = "DeleteVolume" /\ Refusal(r) = None
  <2>1. IsActive(r.id)
    BY <1>2 DEF Refusal, None
  <2>2. Service!Turn(r.id, "active", "deleted")
    BY <1>2, <2>1 DEF Execute, IsActive, Service!Turn
  <2> QED BY <2>1, <2>2 DEF Service!Serve, IsActive
<1>3. CASE ~(r.op = "CreateVolume" /\ Refusal(r) = None)
             /\ ~(r.op = "DeleteVolume" /\ Refusal(r) = None)
  BY <1>3 DEF Execute
<1> QED BY <1>1, <1>2, <1>3

LEMMA SendServes ==
  ASSUME TypeOK, NEW r \in Requests, Proper(r), NEW fate, Send(r, fate)
  PROVE  volumes' = volumes \/ Service!Serve
BY ExecuteServes DEF TypeOK, Send, clusterVars

(***************************************************************************)
(* What the callers are given.                                             *)
(***************************************************************************)
GivenAll == [c \in Callers |-> Given(c)]
Tells(c, answer) == GivenAll' = [GivenAll EXCEPT ![c] = answer]

LEMMA ReturnTells ==
  ASSUME ret \in [Callers -> Returns], NEW c \in Callers, NEW r, Return(c, r)
  PROVE  /\ \A d \in Callers : d # c => Given(d)' = Given(d)
         /\ ret'[c] = r
         /\ Tells(c, Given(c)')
<1>1. ret'[c] = r /\ \A d \in Callers : d # c => ret'[d] = ret[d]
  BY DEF Return
<1>2. \A d \in Callers : d # c => Given(d)' = Given(d)
  BY <1>1 DEF Given
<1>3. Tells(c, Given(c)')
  BY <1>2 DEF Tells, GivenAll
<1> QED BY <1>1, <1>2, <1>3

LEMMA SameGiven == ret' = ret => GivenAll' = GivenAll
BY DEF GivenAll, Given

LEMMA ListingGives ==
  ASSUME MatchInv, NEW c \in Callers, NEW n \in Names, NEW fate \in Fates,
         GetCreateVolume(c, n, fate)
  PROVE  \/ UNCHANGED <<volumes, GivenAll>>
         \/ Service!GiveNothing(c)
         \/ \E i \in DOMAIN volumes : Service!GiveExisting(c, i)
<1> DEFINE found == Named(SdkResult(fate, None, Listed(accountID[c]), {}), n)
<1>0. ret \in [Callers -> Returns] /\ volumes' = volumes
        /\ DOMAIN volumes \subseteq Nat \ {0}
  <2>1. volumes \in Seq(Volume) /\ ret \in [Callers -> Returns]
    BY DEF MatchInv, NameBoundInv, TypeOK
  <2>2. DOMAIN volumes = 1 .. Len(volumes) /\ Len(volumes) \in Nat
    BY <2>1, LenProperties
  <2> QED BY <2>1, <2>2 DEF GetCreateVolume, clusterVars
<1>1. \A i \in found : /\ i \in DOMAIN volumes
                       /\ volumes[i].account = accountID[c]
                       /\ volumes[i].status # "purged"
                       /\ volumes[i].name = n
  BY DEF Named, SdkResult, Listed
<1>2. \A i \in found : volumes[i].account = TenantOf[c]
  BY <1>1, ConstantsAssumption DEF MatchInv, OwnedInv, NameBoundInv, AccountInv,
                                   ConstantsAssumption
<1>3. ASSUME NEW i \in found, Return(c, Returned("GetCreateVolume", n, i, None))
      PROVE  Service!GiveExisting(c, i)
  <2>1. ret'[c] = Returned("GetCreateVolume", n, i, None) /\ Tells(c, Given(c)')
    BY <1>0, <1>3, ReturnTells
  <2>2. Given(c)' = [op |-> "GetCreateVolume", name |-> n, id |-> i]
    BY <1>0, <1>1, <2>1, ReturnedShape DEF Given, NoVolume
  <2>3. Service!Tell(c, Service!Wanted(volumes[i].name, i))
    BY <1>1, <2>1, <2>2 DEF Tells, GivenAll, Service!Tell, Service!Wanted
  <2> QED BY <1>0, <1>1, <1>2, <2>3 DEF Service!GiveExisting
<1>4. ASSUME Return(c, Returned("GetCreateVolume", n, NoVolume, None))
      PROVE  Service!GiveNothing(c)
  <2>1. ret'[c] = Returned("GetCreateVolume", n, NoVolume, None)
          /\ Tells(c, Given(c)')
    BY <1>0, <1>4, ReturnTells
  <2>2. Given(c)' = Service!NoneGiven
    BY <2>1, ReturnedShape DEF Given, Service!NoneGiven
  <2> QED BY <1>0, <2>1, <2>2
          DEF Tells, GivenAll, Service!GiveNothing, Service!Tell
<1>5. CASE ret' = ret
  BY <1>0, <1>5, SameGiven
<1> HIDE DEF found
<1>6. \/ ret' = ret
      \/ \E i \in found : Return(c, Returned("GetCreateVolume", n, i, None))
      \/ Return(c, Returned("GetCreateVolume", n, NoVolume, None))
  BY DEF GetCreateVolume, found
<1> QED BY <1>1, <1>3, <1>4, <1>5, <1>6

LEMMA CreationGives ==
  ASSUME MatchInv, NEW c \in Callers, NEW fate \in Fates, CreateVolume(c, fate)
  PROVE  Service!GiveNothing(c) \/ \E n \in Names : Service!GiveNew(c, n)
<1> DEFINE r   == CreateVolumeRequest(accountID[c], want[c])
           id  == SdkResult(fate, Refusal(r), Len(volumes) + 1, NoVolume)
           err == SdkError(fate, Refusal(r))
<1>0. /\ ret \in [Callers -> Returns] /\ volumes \in Seq(Volume)
      /\ accounts \subseteq Tenants /\ TypeOK
      /\ accountID[c] \in {TenantOf[c], NoAccount}
      /\ accountID[c] \in AccountIDs /\ want[c] \in Names
  BY DEF MatchInv, NameBoundInv, TypeOK, AccountInv
<1>1. /\ Send(r, fate)
      /\ Return(c, Returned("GetCreateVolume", want[c], id, err))
  BY DEF CreateVolume
<1>2. /\ r.op = "CreateVolume" /\ r.account = accountID[c] /\ r.name = want[c]
      /\ r \in Requests /\ Proper(r)
  BY <1>0, RequestTypes, CallersProper
     DEF CreateVolumeRequest, MatchInv, NameBoundInv
<1> HIDE DEF r
<1>3. /\ ret'[c] = Returned("GetCreateVolume", want[c], id, err)
      /\ Tells(c, Given(c)')
  BY <1>0, <1>1, ReturnTells
<1>4. CASE fate = "delivered" /\ Refusal(r) = None
  <2>1. Execute(r)
    BY <1>1, <1>4 DEF Send, Unanswered
  <2>2. r.account \in accounts
    BY <1>2, <1>4 DEF Refusal, None
  <2>3. r.account = TenantOf[c]
    BY <1>0, <1>2, <2>2, ConstantsAssumption DEF ConstantsAssumption
  <2>4. Service!Make(TenantOf[c], want[c])
    BY <1>2, <1>4, <2>1, <2>3 DEF Execute, Service!Make
  <2>5. id = Len(volumes) + 1 /\ id # NoVolume
    BY <1>0, <1>4, LenProperties DEF SdkResult, NoVolume
  <2> HIDE DEF id
  <2>6. Given(c)' = Service!Wanted(want[c], Len(volumes) + 1)
    BY <1>3, <2>5, ReturnedShape DEF Given, Service!Wanted
  <2>7. Service!GiveNew(c, want[c])
    BY <1>3, <2>4, <2>6 DEF Tells, GivenAll, Service!GiveNew, Service!Tell
  <2> QED BY <1>0, <2>7
<1>5. CASE ~(fate = "delivered" /\ Refusal(r) = None)
  <2>1. id = NoVolume
    BY <1>5 DEF SdkResult
  <2> HIDE DEF id
  <2>2. Given(c)' = Service!NoneGiven
    BY <1>3, <2>1, ReturnedShape DEF Given, Service!NoneGiven
  <2>3. volumes' = volumes \/ Service!Serve
    BY <1>0, <1>1, <1>2, SendServes
  <2> QED BY <1>3, <2>2, <2>3
          DEF Tells, GivenAll, Service!GiveNothing, Service!Tell
<1> QED BY <1>4, <1>5

LEMMA DeletionGives ==
  ASSUME TypeOK, NEW c \in Callers, NEW i \in VolumeIDs, NEW fate \in Fates,
         DeleteVolume(c, i, fate)
  PROVE  Service!GiveNothing(c)
<1> DEFINE r == DeleteVolumeRequest(i)
<1>1. /\ Send(r, fate) /\ r \in Requests /\ Proper(r)
      /\ Return(c, Returned("DeleteVolume", AnyName, i,
                            Tolerated(SdkError(fate, Refusal(r)))))
  BY RequestTypes DEF DeleteVolume, Proper, DeleteVolumeRequest
<1> HIDE DEF r
<1>2. volumes' = volumes \/ Service!Serve
  BY <1>1, SendServes
<1>3. ret'[c].op = "DeleteVolume" /\ Tells(c, Given(c)')
  BY <1>1, ReturnTells, ReturnedShape DEF TypeOK
<1>4. Given(c)' = Service!NoneGiven
  BY <1>3 DEF Given, Service!NoneGiven
<1> QED BY <1>2, <1>3, <1>4
        DEF Tells, GivenAll, Service!GiveNothing, Service!Tell

LEMMA LookupGives ==
  ASSUME MatchInv, NEW c \in Callers, NEW i \in VolumeIDs, NEW fate \in Fates,
         GetVolume(c, i, fate)
  PROVE  Service!GiveNothing(c) \/ \E k \in DOMAIN volumes : Service!GiveExisting(c, k)
<1> DEFINE page == {j \in DOMAIN volumes :
                      IsFirst(j, {k \in DOMAIN volumes : k >= i /\ IsActive(k)})}
           seen == SdkResult(fate, None, page, {})
           mine == Mine(c, i, seen)
           got  == IF SdkError(fate, None) = None /\ mine THEN i ELSE NoVolume
<1>0. /\ ret \in [Callers -> Returns] /\ accountID[c] \in {TenantOf[c], NoAccount}
      /\ volumes' = volumes /\ i # NoVolume
  <2>1. i # NoVolume
    BY ConstantsAssumption DEF VolumeIDs, NoVolume
  <2>2. volumes' = volumes
    BY DEF GetVolume, clusterVars
  <2> QED BY <2>1, <2>2 DEF MatchInv, NameBoundInv, TypeOK, AccountInv
<1>1. PICK e : Return(c, Returned("GetVolume", AnyName, got, e))
  BY DEF GetVolume
<1>2. mine => i \in DOMAIN volumes /\ volumes[i].account = TenantOf[c]
                /\ volumes[i].status = "active"
  BY <1>0, ConstantsAssumption
     DEF Mine, SdkResult, IsFirst, IsActive, MatchInv, OwnedInv, ConstantsAssumption
<1> HIDE DEF mine
<1>3. (got = i /\ mine) \/ got = NoVolume
  OBVIOUS
<1> HIDE DEF got
<1>4. ret'[c] = Returned("GetVolume", AnyName, got, e) /\ Tells(c, Given(c)')
  BY <1>0, <1>1, ReturnTells
<1>5. CASE got = i /\ mine
  <2>1. Given(c)' = Service!Looked(i)
    BY <1>0, <1>4, <1>5, ReturnedShape DEF Given, Service!Looked
  <2>2. Service!GiveExisting(c, i)
    BY <1>0, <1>2, <1>4, <1>5, <2>1
       DEF Tells, GivenAll, Service!GiveExisting, Service!Tell
  <2> QED BY <1>2, <1>5, <2>2
<1>6. CASE got = NoVolume
  <2>1. Given(c)' = Service!NoneGiven
    BY <1>4, <1>6, ReturnedShape DEF Given, Service!NoneGiven
  <2> QED BY <1>0, <1>4, <2>1
          DEF Tells, GivenAll, Service!GiveNothing, Service!Tell
<1> QED BY <1>3, <1>5, <1>6

LEMMA StepServes ==
  ASSUME ServiceInv, [Next]_vars
  PROVE  [Service!Next]_<<volumes, GivenAll>>
<1>0. TypeOK /\ AccountInv /\ MatchInv /\ ProperInv
  BY DEF ServiceInv, MatchInv, NameBoundInv
<1>1. ASSUME ret' = ret, volumes' = volumes \/ Service!Serve \/ Service!Expire
      PROVE  [Service!Next]_<<volumes, GivenAll>>
  BY <1>1, SameGiven DEF Service!Next, GivenAll
<1>2. ASSUME NEW c \in Callers, Construct(c)
      PROVE  [Service!Next]_<<volumes, GivenAll>>
  <2>1. ret' = ret
    BY <1>2 DEF Construct, Reconstruct, GetAccountByName, AddAccount, GetClusterInfo
  <2>2. ASSUME NEW fate \in Fates, AddAccount(c, fate)
        PROVE  volumes' = volumes \/ Service!Serve
    <3>1. AddAccountRequest(TenantOf[c]) \in Requests
      BY RequestTypes, ConstantsAssumption DEF ConstantsAssumption
    <3> QED BY <1>0, <2>2, <3>1, SendServes, CallersProper DEF AddAccount
  <2>3. volumes' = volumes \/ Service!Serve
    BY <1>2, <2>2 DEF Construct, Reconstruct, GetAccountByName, GetClusterInfo,
                      clusterVars
  <2> QED BY <1>1, <2>1, <2>3
<1>3. ASSUME NEW c \in Callers, Operate(c)
      PROVE  [Service!Next]_<<volumes, GivenAll>>
  <2>1. \/ UNCHANGED <<volumes, GivenAll>>
        \/ Service!GiveNothing(c)
        \/ \E i \in DOMAIN volumes : Service!GiveExisting(c, i)
        \/ \E n \in Names : Service!GiveNew(c, n)
    BY <1>0, <1>3, ListingGives, CreationGives, DeletionGives, LookupGives
       DEF Operate
  <2> QED BY <2>1 DEF Service!Next
<1>4. ASSUME NEW l \in late, Arrive(l)
      PROVE  [Service!Next]_<<volumes, GivenAll>>
  <2>1. l.req \in Requests /\ Proper(l.req)
    BY <1>0 DEF TypeOK, LateRequests, ProperInv
  <2>2. volumes' = volumes \/ Service!Serve
    BY <1>0, <1>4, <2>1, ExecuteServes DEF Arrive, TypeOK
  <2> QED BY <1>1, <1>4, <2>2 DEF Arrive, callerVars
<1>5. ASSUME NEW i \in DOMAIN volumes, Purge(i)
      PROVE  [Service!Next]_<<volumes, GivenAll>>
  <2>1. Service!Turn(i, "deleted", "purged")
    BY <1>5 DEF Purge, Service!Turn
  <2> QED BY <1>1, <1>5, <2>1 DEF Purge, callerVars, Service!Expire
<1>6. CASE UNCHANGED vars
  BY <1>1, <1>6 DEF vars, callerVars, clusterVars
<1> QED BY <1>2, <1>3, <1>4, <1>5, <1>6 DEF Next, Cluster

(***************************************************************************)
(* Answers match their callers, volumes belong to tenants, and what still  *)
(* travels can only create for a tenant of one of the callers.             *)
(***************************************************************************)
THEOREM ServiceInvariant == Spec => []ServiceInv
<1>1. Init => OwnedInv /\ ProperInv /\ \A c \in Callers : Matches(c, ret[c], volumes)
  BY DEF Init, OwnedInv, ProperInv, Matches, Nothing, Returned
<1>2. ASSUME NameBoundInv, NameBoundInv', ServiceInv, [Next]_vars PROVE ServiceInv'
  <2>1. VolumesKept
    BY <1>2, StepKeeps DEF NameBoundInv
  <2>2. OwnedInv'
    BY <1>2, <2>1 DEF VolumesKept, Kept, ServiceInv, MatchInv, OwnedInv
  <2>3. \A c \in Callers : Matches(c, ret'[c], volumes')
    BY <1>2, <2>1, StepMatches DEF ServiceInv
  <2>4. ProperInv'
    BY <1>2, StepProper DEF ServiceInv, NameBoundInv
  <2> QED BY <1>2, <2>2, <2>3, <2>4 DEF ServiceInv, MatchInv
<1>3. NameBoundInv /\ Init => ServiceInv
  BY <1>1 DEF ServiceInv, MatchInv
<1> QED BY <1>2, <1>3, NameBoundInvariant, PTL DEF Spec

(***************************************************************************)
(* The client and the cluster together implement TenantVolumes, for any    *)
(* callers and tenants, and whatever calls fail, arrive late or are cut.   *)
(***************************************************************************)
THEOREM ServicePromised == Spec => ServicePromise
<1>1. Init => Service!Init
  <2> SUFFICES ASSUME Init PROVE Service!Init
    OBVIOUS
  <2>1. \A c \in Callers : Given(c) = Service!NoneGiven
    BY DEF Init, Given, Nothing, Returned, Service!NoneGiven
  <2> QED BY <2>1 DEF Init, Service!Init
<1>2. ServiceInv /\ [Next]_vars => [Service!Next]_(Service!vars)
  BY StepServes DEF GivenAll, Service!vars
<1> QED BY <1>1, <1>2, ServiceInvariant, PTL DEF Spec, ServicePromise, Service!Spec
-----------------------------------------------------------------------------
(***************************************************************************)
(* A deletion that is reported has happened.                               *)
(***************************************************************************)
LEMMA ConfirmedBySend ==
  ASSUME "cut" \notin Fates, TypeOK, NEW fate \in Fates, NEW i \in VolumeIDs,
         Send(DeleteVolumeRequest(i), fate),
         Tolerated(SdkError(fate, Refusal(DeleteVolumeRequest(i)))) = None
  PROVE  ~IsActive(i)'
<1> DEFINE r == DeleteVolumeRequest(i)
<1>1. r.op = "DeleteVolume" /\ r.id = i
  BY DEF DeleteVolumeRequest
<1> HIDE DEF r
<1>2. fate = "delivered"
  BY FatesAssumption DEF Tolerated, SdkError, AllFates, None, r
<1>3. Execute(r)
  BY <1>2 DEF Send, Unanswered, r
<1>4. SdkError(fate, Refusal(r)) = Refusal(r)
  BY <1>2 DEF SdkError
<1>5. CASE IsActive(i)
  <2>1. Refusal(r) = None
    BY <1>1, <1>5 DEF Refusal
  <2>2. volumes' = [volumes EXCEPT ![i].status = "deleted"]
    BY <1>1, <1>3, <2>1 DEF Execute
  <2>3. volumes[i] \in Volume
    BY <1>5, ElementOfSeq, LenProperties DEF TypeOK, IsActive
  <2>4. volumes'[i].status = "deleted"
    BY <1>5, <2>2, <2>3 DEF IsActive, Volume
  <2> QED BY <2>4 DEF IsActive
<1>6. CASE ~IsActive(i)
  <2>1. Refusal(r) # None
    BY <1>1, <1>6 DEF Refusal, None
  <2>2. volumes' = volumes
    BY <1>1, <1>3, <2>1 DEF Execute
  <2> QED BY <1>6, <2>2 DEF IsActive
<1> QED BY <1>5, <1>6

(***************************************************************************)
(* Where no reply is cut short, a DeleteVolume that reports success leaves *)
(* the volume inactive, whoever deleted it.                                *)
(***************************************************************************)
THEOREM DeletionConfirmed ==
  ASSUME "cut" \notin Fates
  PROVE  Spec => DeleteConfirmed
<1>1. ASSUME TypeOK, [Next]_vars, NEW d \in Callers, NEW i \in VolumeIDs,
             ret'[d] # ret[d],
             ret'[d] = Returned("DeleteVolume", AnyName, i, None)
      PROVE  ~IsActive(i)'
  <2>0. ret \in [Callers -> Returns] /\ ret'[d].op = "DeleteVolume"
          /\ ret'[d].id = i /\ ret'[d].err = None
    BY <1>1 DEF TypeOK, Returned
  <2>1. ASSUME NEW c \in Callers, NEW k \in VolumeIDs, NEW fate \in Fates,
               DeleteVolume(c, k, fate)
        PROVE  ~IsActive(i)'
    <3>1. c = d
      BY <1>1, <2>0, <2>1 DEF DeleteVolume, Return
    <3>2. ret'[d] = Returned("DeleteVolume", AnyName, k,
                       Tolerated(SdkError(fate, Refusal(DeleteVolumeRequest(k)))))
      BY <2>0, <2>1, <3>1 DEF DeleteVolume, Return
    <3>3. k = i
      BY <2>0, <3>2 DEF Returned
    <3>4. Tolerated(SdkError(fate, Refusal(DeleteVolumeRequest(i)))) = None
      BY <2>0, <3>2, <3>3 DEF Returned
    <3> QED BY <1>1, <2>1, <3>3, <3>4, ConfirmedBySend DEF DeleteVolume
  <2>2. ASSUME NEW c \in Callers, NEW fate \in Fates,
               \/ \E n \in Names : GetCreateVolume(c, n, fate)
               \/ CreateVolume(c, fate)
               \/ \E k \in VolumeIDs : GetVolume(c, k, fate)
        PROVE  FALSE
    <3>1. \/ ret' = ret
          \/ \E o \in {"GetCreateVolume", "GetVolume"} : \E n, k, e :
               ret' = [ret EXCEPT ![c] = Returned(o, n, k, e)]
      BY <2>2 DEF GetCreateVolume, CreateVolume, GetVolume, Return
    <3> QED BY <1>1, <2>0, <3>1 DEF Returned
  <2>3. CASE UNCHANGED vars \/ Cluster \/ \E c \in Callers : Construct(c)
    BY <1>1, <2>3
       DEF vars, callerVars, Cluster, Arrive, Purge, Construct, Reconstruct,
           GetAccountByName, AddAccount, GetClusterInfo
  <2> QED BY <1>1, <2>1, <2>2, <2>3 DEF Next, Operate
<1>2. TypeOK /\ [Next]_vars =>
        [\A c \in Callers, i \in VolumeIDs :
           (ret'[c] # ret[c] /\ ret'[c] = Returned("DeleteVolume", AnyName, i, None))
             => ~IsActive(i)']_vars
  BY <1>1
<1> QED BY <1>2, TypeCorrect, PTL DEF Spec, DeleteConfirmed
=============================================================================
