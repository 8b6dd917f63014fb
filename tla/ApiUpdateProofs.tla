--------------------------- MODULE ApiUpdateProofs ---------------------------
(***************************************************************************)
(* ApiUpdate for every API, that is for any set of methods and of fields,  *)
(* any number of callers, values, faults and calls.                        *)
(*                                                                         *)
(* All operations come down to one form: the caller sends a literal that   *)
(* names some fields (Sends), or refuses itself (Declines).  The lemmas    *)
(* below are about these two forms and the late requests; the theorems     *)
(* follow from them.                                                       *)
(***************************************************************************)
EXTENDS ApiUpdate, StorageRequests, SFCallProofs

MethodInv == method \in Methods

(***************************************************************************)
(* Methods of which every request names one field at most.                 *)
(***************************************************************************)
Single(m)       == m.needed = {} /\ m.name # "CreateGroupSnapshot"
OneNamed(named) == \A f, g \in named : f = g

(***************************************************************************)
(* A request says nothing but zero about the fields that it does not name, *)
(* and it names those that the method needs.                               *)
(***************************************************************************)
OnlyNames(s, named) ==
  /\ method.needed \subseteq named
  /\ Single(method) => OneNamed(named)
  /\ \A g \in FieldNames \ named : s[g] = 0

(***************************************************************************)
(* So do late requests.                                                    *)
(***************************************************************************)
LateInv == \A l \in late : OnlyNames(l.args, l.named)

Inv == MethodInv /\ TypeOK /\ LateInv

Sends(c, asked, said, fate) ==
  /\ method.needed \subseteq DOMAIN asked
  /\ DOMAIN asked \subseteq FieldNames
  /\ Single(method) => OneNamed(DOMAIN asked)
  /\ DOMAIN said = DOMAIN asked
  /\ \A g \in DOMAIN asked :
       /\ asked[g] \in Int
       /\ said[g] \in Int
       /\ Fits(asked[g]) => said[g] = asked[g]
  /\ fate \in Fates
  /\ calls < MaxCalls
  /\ Call(c, asked, said, fate)

Declines(c, asked) ==
  /\ DOMAIN asked \subseteq FieldNames
  /\ \A g \in DOMAIN asked : asked[g] \in Int
  /\ calls < MaxCalls
  /\ calls' = calls + 1
  /\ Told(c, asked, "number of volumes")
  /\ UNCHANGED <<method, stored, acted, late, faults>>
-----------------------------------------------------------------------------
LEMMA Int64Type == ASSUME NEW x \in Int PROVE Int64(x) \in Int
<1>1. Word \in Nat /\ Word > 0
  BY UpdateAssumption
<1>2. Word \div 2 \in Int
  BY <1>1
<1>3. (x + Word \div 2) % Word \in Int
  BY <1>1, <1>2
<1> QED BY <1>2, <1>3 DEF Int64

LEMMA LiteralType ==
  ASSUME NEW values, \A g \in DOMAIN values : values[g] \in Int
  PROVE  Literal(values) \in Structs
BY DEF Literal, Structs

LEMMA SdkErrorType ==
  ASSUME NEW fate \in Fates, NEW s PROVE SdkError(fate, Refusal(s)) \in Errors
BY DEF SdkError, Refusal, Errors, None

LEMMA ProgramForms ==
  ASSUME MethodInv, NEW c \in Callers, Program(c)
  PROVE  \/ \E asked, said, fate : Sends(c, asked, said, fate)
         \/ \E asked : Declines(c, asked)
<1>1. PICK fate \in Fates :
        \/ \E F \in Choices, v \in Values, w \in Given : Invoke(c, F, v, w, fate)
        \/ \E n \in Sizes : ExpandVolume(c, n, fate)
        \/ \E qos \in Values : ModifyQoS(c, qos, fate)
        \/ \E volumes \in {1, 2, 32, 33}, name \in Values, remote \in Flags,
             serial \in Flags, r \in Values :
             CreateGroupSnapshot(c, volumes, name, remote, serial, r, fate)
        \/ DeleteGroupSnapshot(c, fate)
  BY DEF Program
<1>2. /\ Values \subseteq Int
      /\ Given \subseteq Int
      /\ Flags \subseteq Int
      /\ Sizes \subseteq Int
      /\ GiB \in Int
      /\ Day \in Int
      /\ method.needed \subseteq FieldNames
      /\ method.name = "ModifyVolume" =>
           method.needed = {} /\ {"totalSize", "qos"} \subseteq FieldNames
      /\ method.name = "CreateGroupSnapshot" =>
           method.needed = {} /\ SnapshotFields \subseteq FieldNames
      /\ method.name = "DeleteGroupSnapshot" =>
           method.needed = {"saveMembers"} /\ "saveMembers" \in FieldNames
      /\ calls < MaxCalls
  BY UpdateAssumption DEF MethodInv, FieldNames, Flags, Program
<1>3. ASSUME NEW F \in Choices, NEW v \in Values, NEW w \in Given,
             Invoke(c, F, v, w, fate)
      PROVE  \E asked, said : Sends(c, asked, said, fate)
  <2> DEFINE asked == [g \in method.needed \cup F |-> IF g \in F THEN v ELSE w]
  <2>1. Call(c, asked, asked, fate)
    BY <1>3 DEF Invoke
  <2>2. F \subseteq FieldNames /\ OneNamed(F)
    BY DEF Choices, OneNamed
  <2>3. /\ DOMAIN asked = method.needed \cup F
        /\ \A g \in DOMAIN asked : asked[g] \in Int
    BY <1>2
  <2> HIDE DEF asked
  <2>4. Sends(c, asked, asked, fate)
    BY <1>2, <2>1, <2>2, <2>3 DEF Sends, Single, OneNamed
  <2> QED BY <2>4
<1>4. ASSUME NEW n \in Sizes, ExpandVolume(c, n, fate)
      PROVE  \E asked, said : Sends(c, asked, said, fate)
  <2> DEFINE asked == [totalSize |-> n * GiB]
             said  == [totalSize |-> SizeInBytes(n)]
  <2>1. n * GiB \in Int
    BY <1>2
  <2>2. SizeInBytes(n) \in Int
    BY <2>1, Int64Type DEF SizeInBytes
  <2>3. Fits(n * GiB) => SizeInBytes(n) = n * GiB
    BY DEF Fits, SizeInBytes
  <2>4. /\ DOMAIN asked = {"totalSize"} /\ DOMAIN said = {"totalSize"}
        /\ asked["totalSize"] = n * GiB
        /\ said["totalSize"] = SizeInBytes(n)
    OBVIOUS
  <2>5. Call(c, asked, said, fate) /\ method.name = "ModifyVolume"
    BY <1>4 DEF ExpandVolume
  <2> HIDE DEF asked, said
  <2>6. Sends(c, asked, said, fate)
    BY <1>2, <2>1, <2>2, <2>3, <2>4, <2>5 DEF Sends, OneNamed
  <2> QED BY <2>6
<1>5. ASSUME NEW qos \in Values, ModifyQoS(c, qos, fate)
      PROVE  \E asked, said : Sends(c, asked, said, fate)
  <2> DEFINE asked == [qos |-> qos]
  <2>1. DOMAIN asked = {"qos"} /\ asked["qos"] = qos
    OBVIOUS
  <2>2. Call(c, asked, asked, fate) /\ method.name = "ModifyVolume"
    BY <1>5 DEF ModifyQoS
  <2> HIDE DEF asked
  <2>3. Sends(c, asked, asked, fate)
    BY <1>2, <2>1, <2>2 DEF Sends, OneNamed
  <2> QED BY <2>3
<1>6. ASSUME NEW volumes \in {1, 2, 32, 33}, NEW name \in Values,
             NEW remote \in Flags, NEW serial \in Flags, NEW r \in Values,
             CreateGroupSnapshot(c, volumes, name, remote, serial, r, fate)
      PROVE  \/ \E asked, said : Sends(c, asked, said, fate)
             \/ \E asked : Declines(c, asked)
  <2> DEFINE asked == [name                    |-> name,
                       enableRemoteReplication |-> remote,
                       ensureSerialCreation    |-> serial,
                       retention               |-> Retention(r)]
  <2>1. r \in Int /\ Retention(r) \in Int
    BY <1>2 DEF Retention
  <2>2. DOMAIN asked = SnapshotFields
    BY DEF SnapshotFields
  <2>3. \A g \in SnapshotFields : asked[g] \in Int
    <3>1. name \in Int /\ remote \in Int /\ serial \in Int
      BY <1>2
    <3>2. /\ asked["name"] = name
          /\ asked["enableRemoteReplication"] = remote
          /\ asked["ensureSerialCreation"] = serial
          /\ asked["retention"] = Retention(r)
      OBVIOUS
    <3> HIDE DEF asked
    <3> QED BY <2>1, <3>1, <3>2 DEF SnapshotFields
  <2>4. /\ method.name = "CreateGroupSnapshot"
        /\ \/ Call(c, asked, asked, fate)
           \/ /\ calls' = calls + 1
              /\ Told(c, asked, "number of volumes")
              /\ UNCHANGED <<method, stored, acted, late, faults>>
    BY <1>6 DEF CreateGroupSnapshot
  <2> HIDE DEF asked
  <2>5. Sends(c, asked, asked, fate) \/ Declines(c, asked)
    BY <1>2, <2>2, <2>3, <2>4 DEF Sends, Declines, Single
  <2> QED BY <2>5
<1>7. ASSUME DeleteGroupSnapshot(c, fate)
      PROVE  \E asked, said : Sends(c, asked, said, fate)
  <2> DEFINE asked == [saveMembers |-> 0]
  <2>1. DOMAIN asked = {"saveMembers"} /\ asked["saveMembers"] = 0
    OBVIOUS
  <2>2. Call(c, asked, asked, fate) /\ method.name = "DeleteGroupSnapshot"
    BY <1>7 DEF DeleteGroupSnapshot
  <2> HIDE DEF asked
  <2>3. Sends(c, asked, asked, fate)
    BY <1>2, <2>1, <2>2 DEF Sends, OneNamed
  <2> QED BY <2>3
<1> QED BY <1>1, <1>3, <1>4, <1>5, <1>6, <1>7
-----------------------------------------------------------------------------
(***************************************************************************)
(* What the cluster does with a literal.                                   *)
(***************************************************************************)
LEMMA MergedType ==
  ASSUME Inv, NEW s \in Structs PROVE Merged(s) \in Structs
<1>1. stored \in Structs /\ Untold \in Structs
  BY UpdateAssumption DEF Inv, TypeOK, Untold, Structs
<1>2. \A g \in FieldNames : s[g] \in Int /\ Base[g] \in Int
  BY <1>1 DEF Base, Structs
<1>3. DOMAIN s = FieldNames
  BY DEF Structs
<1> QED BY <1>2, <1>3 DEF Merged, Structs

LEMMA ExecuteType ==
  ASSUME Inv, NEW s \in Structs, NEW F \in SUBSET FieldNames, Execute(s, F)
  PROVE  stored' \in Structs /\ acted' \in SUBSET FieldNames
BY MergedType DEF Execute, Inv, TypeOK

LEMMA ToldType ==
  ASSUME Inv, NEW c, NEW asked, NEW err \in Errors,
         DOMAIN asked \subseteq FieldNames,
         \A g \in DOMAIN asked : asked[g] \in Int,
         calls < MaxCalls, Told(c, asked, err)
  PROVE  ret' \in [Callers -> Returns \cup {Nothing}]
<1>1. MaxCalls \in Nat /\ calls \in 0 .. MaxCalls
  BY UpdateAssumption DEF Inv, TypeOK
<1>2. Literal(asked) \in Structs
  BY LiteralType
<1>3. [named |-> DOMAIN asked, asked |-> Literal(asked), err |-> err,
       call |-> calls + 1] \in Returns
  BY <1>1, <1>2 DEF Returns
<1> QED BY <1>3 DEF Told, Inv, TypeOK

LEMMA CallTypes ==
  ASSUME Inv, NEW c \in Callers, NEW asked, NEW said, NEW fate,
         Sends(c, asked, said, fate)
  PROVE  TypeOK'
<1> DEFINE s == Literal(said)
           F == DOMAIN said
<1>1. /\ F \subseteq FieldNames /\ DOMAIN asked = F /\ fate \in Fates
      /\ \A g \in F : asked[g] \in Int /\ said[g] \in Int
      /\ calls < MaxCalls
      /\ Call(c, asked, said, fate)
  BY DEF Sends
<1>2. s \in Structs
  BY <1>1, LiteralType
<1>3. SdkError(fate, Refusal(s)) \in Errors
  BY <1>1, SdkErrorType
<1>4. /\ calls' = calls + 1
      /\ fate = "delivered" \/ faults < MaxFaults
      /\ faults' = IF fate = "delivered" THEN faults ELSE faults + 1
      /\ \/ /\ Execute(s, F)
            /\ late' = late
         \/ UNCHANGED <<stored, acted, late>>
         \/ /\ fate \in Unanswered
            /\ late' = late \cup {[args |-> s, named |-> F, tag |-> faults + 1]}
            /\ UNCHANGED <<stored, acted>>
      /\ Told(c, asked, SdkError(fate, Refusal(s)))
      /\ method' = method
  BY <1>1 DEF Call
<1> HIDE DEF s, F
<1>5. /\ FieldNames' = FieldNames
      /\ Structs' = Structs
      /\ Returns' = Returns
  BY <1>4 DEF FieldNames, Structs, Returns
<1>6. stored' \in Structs /\ acted' \in SUBSET FieldNames
  BY <1>1, <1>2, <1>4, ExecuteType DEF Inv, TypeOK
<1>7. /\ MaxFaults \in Nat /\ MaxCalls \in Nat
      /\ faults \in 0 .. MaxFaults /\ calls \in 0 .. MaxCalls
  BY UpdateAssumption DEF Inv, TypeOK
<1>8. faults' \in 0 .. MaxFaults
  BY <1>4, <1>7
<1>9. late' \subseteq [args : Structs, named : SUBSET FieldNames, tag : 1 .. MaxFaults]
  <2>1. fate \in Unanswered => faults + 1 \in 1 .. MaxFaults
    BY <1>4, <1>7 DEF Unanswered
  <2>2. fate \in Unanswered =>
          [args |-> s, named |-> F, tag |-> faults + 1]
            \in [args : Structs, named : SUBSET FieldNames, tag : 1 .. MaxFaults]
    BY <1>1, <1>2, <2>1
  <2> QED BY <1>4, <2>2 DEF Inv, TypeOK
<1>10. calls' \in 0 .. MaxCalls
  BY <1>1, <1>4, <1>7
<1>11. ret' \in [Callers -> Returns \cup {Nothing}]
  BY <1>1, <1>3, <1>4, ToldType
<1> QED BY <1>5, <1>6, <1>8, <1>9, <1>10, <1>11 DEF TypeOK

LEMMA DeclineTypes ==
  ASSUME Inv, NEW c \in Callers, NEW asked, Declines(c, asked) PROVE TypeOK'
<1>1. UNCHANGED <<method, stored, acted, late, faults>>
  BY Zenon DEF Declines
<1>2. /\ FieldNames' = FieldNames
      /\ Structs' = Structs
      /\ Returns' = Returns
  BY <1>1 DEF FieldNames, Structs, Returns
<1>3. calls' \in 0 .. MaxCalls
  <2>1. MaxCalls \in Nat /\ calls \in 0 .. MaxCalls
    BY UpdateAssumption DEF Inv, TypeOK
  <2>2. calls < MaxCalls /\ calls' = calls + 1
    BY Zenon DEF Declines
  <2> QED BY <2>1, <2>2
<1>4. ret' \in [Callers -> Returns \cup {Nothing}]
  <2>1. "number of volumes" \in Errors
    BY DEF Errors
  <2> QED BY <2>1, ToldType DEF Declines
<1> QED BY <1>1, <1>2, <1>3, <1>4 DEF Inv, TypeOK

LEMMA ArriveTypes ==
  ASSUME Inv, NEW l \in late, Arrive(l) PROVE TypeOK'
<1>1. /\ FieldNames' = FieldNames
      /\ Structs' = Structs
      /\ Returns' = Returns
  BY DEF Arrive, FieldNames, Structs, Returns
<1>2. l.args \in Structs /\ l.named \in SUBSET FieldNames
  BY DEF Inv, TypeOK
<1>3. stored' \in Structs /\ acted' \in SUBSET FieldNames
  BY <1>2, ExecuteType DEF Arrive
<1> QED BY <1>1, <1>3 DEF Arrive, Inv, TypeOK

LEMMA SendsOnlyNames ==
  ASSUME NEW c, NEW asked, NEW said, NEW fate, Sends(c, asked, said, fate)
  PROVE  OnlyNames(Literal(said), DOMAIN said)
BY DEF Sends, OnlyNames, Literal

LEMMA LateKept ==
  ASSUME LateInv, method' = method, late' \subseteq late PROVE LateInv'
BY DEF LateInv, OnlyNames, FieldNames

LEMMA StepKeepsInv == ASSUME Inv, [Next]_vars PROVE Inv'
<1>1. ASSUME NEW c \in Callers, NEW asked, NEW said, NEW fate,
             Sends(c, asked, said, fate)
      PROVE  Inv'
  <2>1. method' = method
    BY <1>1 DEF Sends, Call
  <2>2. LateInv'
    <3> DEFINE new == [args |-> Literal(said), named |-> DOMAIN said,
                       tag |-> faults + 1]
    <3>1. FieldNames' = FieldNames
      BY <2>1 DEF FieldNames
    <3>2. late' \subseteq late \cup {new}
      BY <1>1 DEF Sends, Call
    <3>3. \A l \in late : OnlyNames(l.args, l.named)
      BY DEF Inv, LateInv
    <3>4. OnlyNames(new.args, new.named)
      BY <1>1, SendsOnlyNames
    <3> HIDE DEF new
    <3>5. \A l \in late' : OnlyNames(l.args, l.named)
      BY <3>2, <3>3, <3>4
    <3> QED BY <2>1, <3>1, <3>5 DEF LateInv, OnlyNames
  <2>3. TypeOK'
    BY <1>1, CallTypes
  <2> QED BY <2>1, <2>2, <2>3 DEF Inv, MethodInv
<1>2. ASSUME NEW c \in Callers, NEW asked, Declines(c, asked) PROVE Inv'
  <2>1. TypeOK'
    BY <1>2, DeclineTypes
  <2>2. method' = method /\ late' = late
    BY <1>2, Zenon DEF Declines
  <2> QED BY <2>1, <2>2, LateKept DEF Inv, MethodInv
<1>3. ASSUME NEW l \in late, Arrive(l) PROVE Inv'
  <2>1. TypeOK'
    BY <1>3, ArriveTypes
  <2>2. method' = method /\ late' \subseteq late
    BY <1>3 DEF Arrive
  <2> QED BY <2>1, <2>2, LateKept DEF Inv, MethodInv
<1>4. CASE UNCHANGED vars
  <2>1. /\ FieldNames' = FieldNames
        /\ Structs' = Structs
        /\ Returns' = Returns
    BY <1>4 DEF vars, FieldNames, Structs, Returns
  <2>2. TypeOK'
    BY <1>4, <2>1 DEF vars, Inv, TypeOK
  <2>3. method' = method /\ late' = late
    BY <1>4 DEF vars
  <2> QED BY <2>2, <2>3, LateKept DEF Inv, MethodInv
<1>5. ASSUME NEW c \in Callers, Program(c) PROVE Inv'
  BY <1>1, <1>2, <1>5, ProgramForms DEF Inv
<1> QED BY <1>3, <1>4, <1>5 DEF Next

LEMMA InitInv == Init => Inv
<1> SUFFICES ASSUME Init PROVE Inv
  OBVIOUS
<1>1. Untold \in Structs
  BY UpdateAssumption DEF Untold, Structs
<1>2. TypeOK
  BY <1>1, UpdateAssumption DEF Init, TypeOK
<1> QED BY <1>2 DEF Init, Inv, MethodInv, LateInv

(***************************************************************************)
(* The state is well typed, and late requests are literals.                *)
(***************************************************************************)
THEOREM Invariant == Spec => []Inv
<1> QED BY InitInv, StepKeepsInv, PTL DEF Spec

(***************************************************************************)
(* The state of ApiUpdate is well typed, whichever method is under study.  *)
(***************************************************************************)
THEOREM TypeCorrect == Spec => []TypeOK
<1>1. Inv => TypeOK
  BY DEF Inv
<1> QED BY Invariant, <1>1, PTL
-----------------------------------------------------------------------------
(***************************************************************************)
(* The promise of FieldStore.  A request says nothing about a field that   *)
(* it does not name, if the types of the SDK put no field into every       *)
(* message but those that every caller needs.  This is about the tags of   *)
(* the request types; it is false of three types of the SDK.               *)
(***************************************************************************)
NothingUnasked(m) == Always(m) \subseteq m.needed

StoreVars == <<stored, method.updates, acted>>

LEMMA ExecuteSetsFields ==
  ASSUME Inv, NothingUnasked(method), method' = method,
         NEW s \in Structs, NEW F \in SUBSET FieldNames,
         OnlyNames(s, F), Execute(s, F)
  PROVE  [Store!Next]_StoreVars
<1>1. CASE Refusal(s) # None
  BY <1>1 DEF Execute, StoreVars
<1>2. CASE Refusal(s) = None
  <2>1. stored \in Structs /\ DOMAIN stored = FieldNames
    BY DEF Inv, TypeOK, Structs
  <2>2. stored' = Merged(s) /\ stored' \in Structs /\ acted' = F
    BY <1>2, MergedType DEF Execute
  <2>3. \A g \in FieldNames : Store!Base(g) = Base[g]
    BY DEF Store!Base, Base, Untold
  <2>4. ASSUME NEW g \in FieldNames \ F PROVE g \notin InMessage(s)
    <3>1. s[g] = 0 /\ g \notin method.needed
      BY <2>4 DEF OnlyNames
    <3>2. g \notin Always(method)
      BY <3>1 DEF NothingUnasked
    <3> QED BY <2>4, <3>1, <3>2 DEF Always, FieldNames, InMessage
  <2>5. \A g \in FieldNames \ F : stored'[g] = Store!Base(g)
    BY <2>2, <2>3, <2>4 DEF Merged, Structs
  <2>6. stored' = [g \in FieldNames |-> IF g \in F THEN stored'[g] ELSE Store!Base(g)]
    BY <2>2, <2>5 DEF Structs
  <2>7. Store!Next
    BY <2>1, <2>2, <2>6 DEF Store!Next, Store!SetFields, Store!Fields
  <2> QED BY <2>7
<1> QED BY <1>1, <1>2

LEMMA StepSetsFields ==
  ASSUME Inv, NothingUnasked(method), [Next]_vars
  PROVE  [Store!Next]_StoreVars
<1>1. ASSUME NEW c \in Callers, NEW asked, NEW said, NEW fate,
             Sends(c, asked, said, fate)
      PROVE  [Store!Next]_StoreVars
  <2>1. /\ method' = method
        /\ UNCHANGED <<stored, acted>> \/ Execute(Literal(said), DOMAIN said)
    BY <1>1 DEF Sends, Call
  <2>2. Literal(said) \in Structs /\ DOMAIN said \in SUBSET FieldNames
    BY <1>1, LiteralType DEF Sends
  <2>3. OnlyNames(Literal(said), DOMAIN said)
    BY <1>1, SendsOnlyNames
  <2> QED BY <2>1, <2>2, <2>3, ExecuteSetsFields DEF StoreVars
<1>2. ASSUME NEW c \in Callers, NEW asked, Declines(c, asked)
      PROVE  [Store!Next]_StoreVars
  <2>1. UNCHANGED <<method, stored, acted, late, faults>>
    BY <1>2, Zenon DEF Declines
  <2> QED BY <2>1 DEF StoreVars
<1>3. ASSUME NEW l \in late, Arrive(l)
      PROVE  [Store!Next]_StoreVars
  <2>1. /\ l.args \in Structs /\ l.named \in SUBSET FieldNames
        /\ OnlyNames(l.args, l.named)
    BY DEF Inv, TypeOK, LateInv
  <2> QED BY <1>3, <2>1, ExecuteSetsFields DEF Arrive
<1>4. CASE UNCHANGED vars
  BY <1>4 DEF vars, StoreVars
<1>5. ASSUME NEW c \in Callers, Program(c)
      PROVE  [Store!Next]_StoreVars
  BY <1>1, <1>2, <1>5, ProgramForms DEF Inv
<1> QED BY <1>3, <1>4, <1>5 DEF Next

(***************************************************************************)
(* Where no type puts a field into a message unasked, a request changes    *)
(* the fields that its caller named and leaves the rest, at once or late   *)
(* and whoever else is at work: users who write fields of their own never  *)
(* undo each other's work.                                                 *)
(***************************************************************************)
THEOREM StorePromised ==
  ASSUME \A m \in Methods : NothingUnasked(m)
  PROVE  Spec => StorePromise
<1>1. ASSUME Init PROVE Store!Init
  BY <1>1, UpdateAssumption DEF Init, Store!Init, Store!Fields, Untold, FieldNames
<1>2. ASSUME Inv, [Next]_vars
      PROVE  [Store!Next]_<<stored, method.updates, acted>>
  <2>1. NothingUnasked(method)
    BY <1>2 DEF Inv, MethodInv
  <2> QED BY <1>2, <2>1, StepSetsFields DEF StoreVars
<1>3. Spec => Store!Spec
  BY <1>1, <1>2, Invariant, PTL DEF Spec, Store!Spec
<1> QED BY <1>3 DEF StorePromise

(***************************************************************************)
(* The methods that the tenant client calls to change a volume and to make *)
(* and delete group snapshots, with the request types as                   *)
(* generated_model.go declares them.                                       *)
(***************************************************************************)
ModifyVolumeMethod ==
  MethodRecord("ModifyVolume", ModifyVolumeRequest, {"volumeID"}, {}, TRUE)
CreateGroupSnapshotMethod ==
  MethodRecord("CreateGroupSnapshot", CreateGroupSnapshotRequest, {"volumes"},
               {}, FALSE)
DeleteGroupSnapshotMethod ==
  MethodRecord("DeleteGroupSnapshot", DeleteGroupSnapshotRequest,
               {"groupSnapshotID"}, {"saveMembers"}, FALSE)

LEMMA ClientTags ==
  /\ NothingUnasked(ModifyVolumeMethod)
  /\ NothingUnasked(CreateGroupSnapshotMethod)
  /\ NothingUnasked(DeleteGroupSnapshotMethod)
<1> USE DEF NothingUnasked, Always, SentWhenZero, FieldsOf, MethodRecord, Fields
<1>1. NothingUnasked(ModifyVolumeMethod)
  <2>1. /\ ModifyVolumeMethod.request.required = {"volumeID"}
        /\ DOMAIN ModifyVolumeMethod.request.objects = {}
        /\ ModifyVolumeMethod.key = {"volumeID"}
    BY DEF ModifyVolumeMethod, ModifyVolumeRequest
  <2> QED BY <2>1
<1>2. NothingUnasked(CreateGroupSnapshotMethod)
  <2>1. /\ CreateGroupSnapshotMethod.request.required = {"volumes"}
        /\ DOMAIN CreateGroupSnapshotMethod.request.objects = {}
        /\ CreateGroupSnapshotMethod.key = {"volumes"}
    BY DEF CreateGroupSnapshotMethod, CreateGroupSnapshotRequest
  <2> QED BY <2>1
<1>3. NothingUnasked(DeleteGroupSnapshotMethod)
  <2>1. /\ DeleteGroupSnapshotMethod.request.required
              = {"groupSnapshotID", "saveMembers"}
        /\ DOMAIN DeleteGroupSnapshotMethod.request.objects = {}
        /\ DeleteGroupSnapshotMethod.key = {"groupSnapshotID"}
        /\ DeleteGroupSnapshotMethod.needed = {"saveMembers"}
    BY DEF DeleteGroupSnapshotMethod, DeleteGroupSnapshotRequest
  <2> QED BY <2>1
<1> QED BY <1>1, <1>2, <1>3

(***************************************************************************)
(* The tenant client keeps the promise: ExpandVolume, ModifyQoS and the    *)
(* operations on group snapshots touch the fields that their literals name *)
(* and no other.                                                           *)
(***************************************************************************)
THEOREM ClientPromised ==
  ASSUME Methods \subseteq {ModifyVolumeMethod, CreateGroupSnapshotMethod,
                            DeleteGroupSnapshotMethod}
  PROVE  Spec => StorePromise
<1>1. \A m \in Methods : NothingUnasked(m)
  BY ClientTags
<1> QED BY <1>1, StorePromised

(***************************************************************************)
(* A volume changes in one field at most in each step of any user:         *)
(* ExpandVolume, ModifyQoS and any other change of one field may overlap.  *)
(***************************************************************************)
OneFieldChanges ==
  [][\A f, g \in FieldNames :
       (stored'[f] # stored[f] /\ stored'[g] # stored[g]) => f = g]_vars

LEMMA StepNamesOne ==
  ASSUME Inv, Single(method), [Next]_vars
  PROVE  stored' = stored \/ OneNamed(acted')
<1>1. ASSUME NEW s, NEW F, OneNamed(F), Execute(s, F)
      PROVE  stored' = stored \/ OneNamed(acted')
  BY <1>1 DEF Execute
<1>2. ASSUME NEW c \in Callers, NEW asked, NEW said, NEW fate,
             Sends(c, asked, said, fate)
      PROVE  stored' = stored \/ OneNamed(acted')
  <2>1. stored' = stored \/ Execute(Literal(said), DOMAIN said)
    BY <1>2 DEF Sends, Call
  <2> QED BY <1>1, <1>2, <2>1 DEF Sends
<1>3. ASSUME NEW c \in Callers, NEW asked, Declines(c, asked)
      PROVE  stored' = stored
  BY <1>3, Zenon DEF Declines
<1>4. ASSUME NEW l \in late, Arrive(l)
      PROVE  stored' = stored \/ OneNamed(acted')
  BY <1>1, <1>4 DEF Inv, LateInv, OnlyNames, Arrive
<1>5. CASE UNCHANGED vars
  BY <1>5 DEF vars
<1>6. ASSUME NEW c \in Callers, Program(c)
      PROVE  stored' = stored \/ OneNamed(acted')
  BY <1>2, <1>3, <1>6, ProgramForms DEF Inv
<1> QED BY <1>4, <1>5, <1>6 DEF Next

(***************************************************************************)
(* Where requests name one field at most, and no type puts another into    *)
(* the message, a step changes at most one field: what another user wrote  *)
(* is lost only to a user who writes the same field.                       *)
(***************************************************************************)
THEOREM OneFieldAtATime ==
  ASSUME \A m \in Methods : m.updates /\ Single(m) /\ NothingUnasked(m)
  PROVE  Spec => OneFieldChanges
<1>1. ASSUME Inv, [Next]_vars
      PROVE  [\A f, g \in FieldNames :
                (stored'[f] # stored[f] /\ stored'[g] # stored[g]) => f = g]_vars
  <2>1. method.updates /\ Single(method) /\ NothingUnasked(method)
    BY <1>1 DEF Inv, MethodInv
  <2>2. [Store!Next]_StoreVars
    BY <1>1, <2>1, StepSetsFields
  <2>3. CASE stored' = stored
    BY <2>3
  <2>4. CASE stored' # stored
    <3>1. OneNamed(acted')
      BY <1>1, <2>1, <2>4, StepNamesOne
    <3>2. DOMAIN stored = FieldNames
      BY <1>1 DEF Inv, TypeOK, Structs
    <3>3. stored' = [g \in FieldNames |->
                       IF g \in acted' THEN stored'[g] ELSE Store!Base(g)]
      BY <2>2, <2>4, <3>2 DEF StoreVars, Store!Next, Store!SetFields, Store!Fields
    <3>4. \A g \in FieldNames : g \notin acted' => stored'[g] = stored[g]
      BY <2>1, <3>3 DEF Store!Base
    <3> QED BY <3>1, <3>4 DEF OneNamed
  <2> QED BY <2>3, <2>4
<1> QED BY <1>1, Invariant, PTL DEF Spec, OneFieldChanges

(***************************************************************************)
(* ModifyVolume is such a method, as ModifyVolumeRequest declares its      *)
(* fields: ExpandVolume, ModifyQoS and any other change of one field of a  *)
(* volume may overlap without undoing each other.                          *)
(***************************************************************************)
THEOREM VolumeUsersIndependent ==
  ASSUME Methods = {ModifyVolumeMethod}
  PROVE  Spec => OneFieldChanges
<1>1. ModifyVolumeMethod.updates /\ Single(ModifyVolumeMethod)
  BY DEF ModifyVolumeMethod, MethodRecord, Single
<1>2. \A m \in Methods : m.updates /\ Single(m) /\ NothingUnasked(m)
  BY <1>1, ClientTags
<1> QED BY <1>2, OneFieldAtATime
-----------------------------------------------------------------------------

(***************************************************************************)
(* What a caller knows from a call that returns no error.                  *)
(***************************************************************************)
LEMMA AnsweredSends ==
  ASSUME "cut" \notin Fates, Inv, NEW c \in Callers,
         NEW asked, NEW said, NEW fate, Sends(c, asked, said, fate), Answered(c)',
         NEW f \in ret'[c].named, Sayable(f, ret'[c].asked[f])
  PROVE  stored'[f] = ret'[c].asked[f]
<1> DEFINE s == Literal(said)
<1>1. /\ DOMAIN asked \subseteq FieldNames /\ DOMAIN said = DOMAIN asked
      /\ \A g \in DOMAIN asked : Fits(asked[g]) => said[g] = asked[g]
      /\ fate \in Fates
      /\ Call(c, asked, said, fate)
  BY DEF Sends
<1>2. ret'[c] = [named |-> DOMAIN asked, asked |-> Literal(asked),
                 err |-> SdkError(fate, Refusal(s)), call |-> calls + 1]
  BY <1>1 DEF Call, Told, Inv, TypeOK
<1>3. f \in DOMAIN asked /\ f \in FieldNames /\ ret'[c].asked[f] = asked[f]
  BY <1>1, <1>2 DEF Literal
<1>4. fate = "delivered" /\ Refusal(s) = None
  BY <1>1, <1>2, NoErrorHasResult DEF Answered
<1>5. stored' = Merged(s)
  BY <1>1, <1>4 DEF Call, Execute, Unanswered
<1>6. said[f] = asked[f] /\ (asked[f] # 0 \/ SentWhenZero(method, f))
  BY <1>1, <1>3 DEF Sayable
<1>7. s[f] = asked[f] /\ DOMAIN s = FieldNames
  BY <1>1, <1>3, <1>6 DEF Literal
<1>8. f \in InMessage(s)
  BY <1>3, <1>6, <1>7 DEF InMessage
<1>9. Merged(s)[f] = s[f]
  BY <1>3, <1>7, <1>8 DEF Merged
<1> QED BY <1>3, <1>5, <1>7, <1>9

(***************************************************************************)
(* Whatever else happens at the same time: the steps of other callers and  *)
(* late requests leave what a caller was told alone.                       *)
(***************************************************************************)
LEMMA ReturnsAnswered ==
  ASSUME "cut" \notin Fates, Inv, [Next]_vars, NEW d \in Callers,
         ret'[d] # ret[d], Answered(d)',
         NEW f \in ret'[d].named, Sayable(f, ret'[d].asked[f])
  PROVE  stored'[f] = ret'[d].asked[f]
<1>1. ASSUME NEW c \in Callers, NEW asked, NEW said, NEW fate,
             Sends(c, asked, said, fate)
      PROVE  stored'[f] = ret'[d].asked[f]
  <2>1. c = d
    BY <1>1 DEF Sends, Call, Told, Inv, TypeOK
  <2> QED BY <1>1, <2>1, AnsweredSends
<1>2. ASSUME NEW c \in Callers, NEW asked, Declines(c, asked) PROVE FALSE
  <2>1. c = d /\ ret'[d].err = "number of volumes"
    BY <1>2 DEF Declines, Told, Inv, TypeOK
  <2> QED BY <2>1 DEF Answered, None
<1>3. ASSUME NEW l \in late, Arrive(l) PROVE FALSE
  BY <1>3 DEF Arrive
<1>4. CASE UNCHANGED vars
  BY <1>4 DEF vars
<1>5. ASSUME NEW c \in Callers, Program(c)
      PROVE  stored'[f] = ret'[d].asked[f]
  BY <1>1, <1>2, <1>5, ProgramForms DEF Inv
<1> QED BY <1>3, <1>4, <1>5 DEF Next

(***************************************************************************)
(* Without cut replies, no error means that the cluster works with the     *)
(* value that was asked for, if the types of the SDK can say it.           *)
(***************************************************************************)
THEOREM ConfirmedAlways ==
  ASSUME "cut" \notin Fates
  PROVE  Spec => Confirmed
<1>1. ASSUME Inv, [Next]_vars
      PROVE  [\A c \in Callers :
                (ret'[c] # ret[c] /\ Answered(c)') =>
                  \A f \in ret'[c].named :
                    Sayable(f, ret'[c].asked[f])
                      => stored'[f] = ret'[c].asked[f]]_vars
  BY <1>1, ReturnsAnswered
<1> QED BY <1>1, Invariant, PTL DEF Spec, Confirmed
-----------------------------------------------------------------------------
(***************************************************************************)
(* A volume never gets smaller.                                            *)
(***************************************************************************)
LEMMA ExecuteGrows ==
  ASSUME Inv, method.name = "ModifyVolume",
         NEW s \in Structs, NEW F, Execute(s, F)
  PROVE  stored'["totalSize"] >= stored["totalSize"]
<1>1. method.updates /\ "totalSize" \in FieldNames
  BY UpdateAssumption DEF Inv, MethodInv, FieldNames
<1>2. stored["totalSize"] \in Int /\ s["totalSize"] \in Int
  BY <1>1 DEF Inv, TypeOK, Structs
<1>3. CASE Refusal(s) # None
  BY <1>2, <1>3 DEF Execute
<1>4. CASE Refusal(s) = None
  <2>1. "totalSize" \in InMessage(s) => s["totalSize"] >= stored["totalSize"]
    BY <1>1, <1>2, <1>4 DEF Refusal, None
  <2>2. Base = stored
    BY <1>1 DEF Base
  <2>3. stored'["totalSize"] = IF "totalSize" \in InMessage(s)
                                 THEN s["totalSize"] ELSE stored["totalSize"]
    BY <1>1, <1>4, <2>2 DEF Execute, Merged, Structs
  <2> QED BY <1>2, <2>1, <2>3
<1> QED BY <1>3, <1>4

LEMMA StepGrows ==
  ASSUME Inv, [Next]_vars, method.name = "ModifyVolume"
  PROVE  stored'["totalSize"] >= stored["totalSize"]
<1>1. stored["totalSize"] \in Int
  BY UpdateAssumption DEF Inv, MethodInv, TypeOK, FieldNames, Structs
<1>2. ASSUME NEW c \in Callers, NEW asked, NEW said, NEW fate,
             Sends(c, asked, said, fate)
      PROVE  stored'["totalSize"] >= stored["totalSize"]
  <2>1. Literal(said) \in Structs
    BY <1>2, LiteralType DEF Sends
  <2>2. stored' = stored \/ Execute(Literal(said), DOMAIN said)
    BY <1>2 DEF Sends, Call
  <2> QED BY <1>1, <2>1, <2>2, ExecuteGrows
<1>3. ASSUME NEW c \in Callers, NEW asked, Declines(c, asked)
      PROVE  stored'["totalSize"] >= stored["totalSize"]
  <2>1. UNCHANGED <<method, stored, acted, late, faults>>
    BY <1>3, Zenon DEF Declines
  <2> QED BY <1>1, <2>1
<1>4. ASSUME NEW l \in late, Arrive(l)
      PROVE  stored'["totalSize"] >= stored["totalSize"]
  BY <1>4, ExecuteGrows DEF Arrive, Inv, TypeOK
<1>5. CASE UNCHANGED vars
  BY <1>1, <1>5 DEF vars
<1>6. ASSUME NEW c \in Callers, Program(c)
      PROVE  stored'["totalSize"] >= stored["totalSize"]
  BY <1>2, <1>3, <1>6, ProgramForms DEF Inv
<1> QED BY <1>4, <1>5, <1>6 DEF Next

LEMMA StepKeepsExpansion ==
  ASSUME "cut" \notin Fates, Inv, Inv', ExpansionKept, [Next]_vars
  PROVE  ExpansionKept'
<1>1. method' = method
  BY ProgramForms DEF Inv, Next, Sends, Call, Declines, Arrive, vars
<1> SUFFICES ASSUME NEW c \in Callers, method.name = "ModifyVolume",
                    Answered(c)', "totalSize" \in ret'[c].named,
                    Sayable("totalSize", ret'[c].asked["totalSize"])
             PROVE  stored'["totalSize"] >= ret'[c].asked["totalSize"]
  BY <1>1 DEF ExpansionKept, Sayable, SentWhenZero
<1>2. FieldNames' = FieldNames /\ Structs' = Structs /\ Returns' = Returns
  BY <1>1 DEF FieldNames, Structs, Returns
<1>3. /\ "totalSize" \in FieldNames
      /\ stored["totalSize"] \in Int
      /\ stored'["totalSize"] \in Int
  BY <1>1, <1>2, UpdateAssumption DEF Inv, MethodInv, TypeOK, FieldNames, Structs
<1>4. ret'[c].asked["totalSize"] \in Int
  <2>1. ret'[c] \in Returns
    BY <1>2 DEF Inv, TypeOK, Answered
  <2> QED BY <1>3, <2>1 DEF Returns, Structs
<1>5. CASE ret'[c] # ret[c]
  <2>1. stored'["totalSize"] = ret'[c].asked["totalSize"]
    BY <1>5, ReturnsAnswered
  <2> QED BY <1>3, <1>4, <2>1
<1>6. CASE ret'[c] = ret[c]
  <2>1. stored["totalSize"] >= ret[c].asked["totalSize"]
    BY <1>6 DEF ExpansionKept, Answered
  <2> QED BY <1>3, <1>4, <1>6, <2>1, StepGrows
<1> QED BY <1>5, <1>6

(***************************************************************************)
(* Without cut replies, an expansion that was reported stays.              *)
(***************************************************************************)
THEOREM ExpansionAlwaysKept ==
  ASSUME "cut" \notin Fates
  PROVE  Spec => []ExpansionKept
<1>1. ASSUME Init PROVE ExpansionKept
  BY <1>1 DEF Init, ExpansionKept, Answered
<1>2. ASSUME Inv, Inv', ExpansionKept, [Next]_vars PROVE ExpansionKept'
  BY <1>2, StepKeepsExpansion
<1> QED BY <1>1, <1>2, Invariant, PTL DEF Spec
=============================================================================
