------------------------ MODULE CreateVolumesProofs -------------------------
(***************************************************************************)
(* Theorems about CreateVolumes for every mix of fates and every number of *)
(* runs: what has been created when the program reaches its end.           *)
(***************************************************************************)
EXTENDS CreateVolumes, SFCallProofs

TypeOK ==
  /\ known \in BOOLEAN
  /\ created \subseteq 1 .. VolumeCount
  /\ pc \in {"get", "add", "create", "exit"}
  /\ accountID \in {Tenant, NoAccount}
  /\ next \in 1 .. VolumeCount + 1

(***************************************************************************)
(* The volumes that the loop has behind it have all been created, by this  *)
(* run or by an earlier one, and for the tenant.                           *)
(***************************************************************************)
NoGap    == 1 .. next - 1 \subseteq created
OwnedInv == /\ accountID = Tenant => known
            /\ created # {} => known
TakenInv == next > 1 => accountID = Tenant /\ pc \in {"create", "exit"}
LoopInv  == TypeOK /\ OwnedInv /\ NoGap /\ TakenInv

LEMMA InitType == Init => TypeOK
  BY DEF Init, TypeOK, VolumeCount

LEMMA StepTypes == TypeOK /\ [Next]_vars => TypeOK'
<1> SUFFICES ASSUME TypeOK, [Next]_vars PROVE TypeOK'
  OBVIOUS
<1> USE DEF TypeOK, VolumeCount
<1>1. CASE UNCHANGED vars
  BY <1>1 DEF vars
<1>2. CASE RunAgain
  BY <1>2 DEF RunAgain
<1>3. ASSUME NEW fate \in Fates, GetAccountByName(fate)
      PROVE  TypeOK'
  BY <1>3 DEF GetAccountByName, SdkResult
<1>4. ASSUME NEW fate \in Fates, AddAccount(fate)
      PROVE  TypeOK'
  BY <1>4 DEF AddAccount
<1>5. ASSUME NEW fate \in Fates, CreateVolume(fate)
      PROVE  TypeOK'
  BY <1>5 DEF CreateVolume
<1> QED BY <1>1, <1>2, <1>3, <1>4, <1>5 DEF Next

(***************************************************************************)
(* Every variable keeps its type, AccountID being the tenant's or zero.    *)
(***************************************************************************)
THEOREM TypeCorrect == Spec => []TypeOK
  BY InitType, StepTypes, PTL DEF Spec

(***************************************************************************)
(* A call to CreateVolume that reports no error was served, as long as no  *)
(* reply is cut short.                                                     *)
(***************************************************************************)
LEMMA CreateServed ==
  ASSUME "cut" \notin Fates, UnknownAccount # None, Tenant # NoAccount,
         TypeOK, NEW fate \in Fates, CreateVolume(fate), next' # next
  PROVE  /\ known /\ accountID = Tenant
         /\ next' = next + 1
         /\ created' = created \cup {next}
         /\ pc' = "create"
<1> DEFINE refusal == IF known /\ accountID = Tenant THEN None ELSE UnknownAccount
<1>1. SdkError(fate, refusal) = None /\ next' = next + 1
  BY DEF CreateVolume
<1>2. fate = "delivered" /\ refusal = None
  BY <1>1, NoErrorHasResult
<1> QED BY <1>1, <1>2 DEF CreateVolume, Unanswered

LEMMA StepLoop ==
  ASSUME "cut" \notin Fates, UnknownAccount # None, Tenant # NoAccount
  PROVE  LoopInv /\ [Next]_vars => LoopInv'
<1> SUFFICES ASSUME LoopInv, [Next]_vars PROVE LoopInv'
  OBVIOUS
<1> USE DEF LoopInv, OwnedInv, NoGap, TakenInv
<1>1. TypeOK'
  BY StepTypes
<1>2. CASE UNCHANGED vars
  BY <1>1, <1>2 DEF vars
<1>3. CASE RunAgain
  BY <1>1, <1>3 DEF RunAgain
<1>4. ASSUME NEW fate \in Fates, GetAccountByName(fate)
      PROVE  LoopInv'
  <2>1. UNCHANGED <<known, created, next>> /\ ~(next > 1)
    BY <1>4 DEF GetAccountByName
  <2>2. accountID' = Tenant => known
    BY <1>4 DEF GetAccountByName, SdkResult
  <2> QED BY <1>1, <2>1, <2>2
<1>5. ASSUME NEW fate \in Fates, AddAccount(fate)
      PROVE  LoopInv'
  BY <1>1, <1>5 DEF AddAccount, TypeOK
<1>6. ASSUME NEW fate \in Fates, CreateVolume(fate)
      PROVE  LoopInv'
  <2>1. UNCHANGED <<known, accountID>> /\ created \subseteq created'
    BY <1>6 DEF CreateVolume
  <2>2. CASE next' = next
    BY <1>1, <1>6, <2>1, <2>2 DEF CreateVolume
  <2>3. CASE next' # next
    <3>1. /\ known /\ accountID = Tenant
          /\ next' = next + 1
          /\ created' = created \cup {next}
          /\ pc' = "create"
      BY <1>6, <2>3, CreateServed
    <3>2. 1 .. next' - 1 \subseteq created'
      BY <3>1 DEF TypeOK
    <3> QED BY <1>1, <2>1, <3>1, <3>2
  <2> QED BY <2>2, <2>3
<1> QED BY <1>2, <1>3, <1>4, <1>5, <1>6 DEF Next

(***************************************************************************)
(* When the program has been through its loop, all of its volumes have     *)
(* been created, and for the tenant's account: no failure on the way, and  *)
(* no earlier run that failed, lets it end well with fewer.  A reply that  *)
(* is cut short would: MakeSFCall reports no error for it.                 *)
(***************************************************************************)
EndsWithAll ==
  (pc = "create" /\ next > VolumeCount)
    => /\ created = 1 .. VolumeCount
       /\ known /\ accountID = Tenant

(***************************************************************************)
(* A run that has been through its loop ends with all volumes of the       *)
(* tenant, unless a reply was cut short.                                   *)
(***************************************************************************)
THEOREM AllCreated ==
  ASSUME "cut" \notin Fates, UnknownAccount # None, Tenant # NoAccount
  PROVE  Spec => []EndsWithAll
<1>1. Init => LoopInv
  BY InitType DEF Init, LoopInv, OwnedInv, NoGap, TakenInv
<1>2. LoopInv /\ [Next]_vars => LoopInv'
  BY StepLoop
<1>3. LoopInv => EndsWithAll
  <2> SUFFICES ASSUME LoopInv, next > VolumeCount
               PROVE  created = 1 .. VolumeCount /\ known /\ accountID = Tenant
    BY DEF EndsWithAll
  <2>1. next = 11 /\ created \subseteq 1 .. 10
    BY DEF LoopInv, TypeOK, VolumeCount
  <2>2. 1 .. next - 1 = 1 .. 10 /\ 1 .. next - 1 \subseteq created
    BY <2>1 DEF LoopInv, NoGap
  <2>3. created = 1 .. VolumeCount
    BY <2>1, <2>2 DEF VolumeCount
  <2>4. known /\ accountID = Tenant
    BY <2>1 DEF LoopInv, OwnedInv, TakenInv
  <2> QED BY <2>3, <2>4
<1> QED BY <1>1, <1>2, <1>3, PTL DEF Spec
=============================================================================
