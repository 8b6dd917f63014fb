----------------------------- MODULE ApiUpdate ------------------------------
(***************************************************************************)
(* Calls with optional arguments, made by several users of the SDK at the  *)
(* same time.  A user fills in a request struct, in which every field that *)
(* it does not name holds the zero value; MakeSFCall encodes it; and the   *)
(* cluster works with the fields it finds in the message and with its own  *)
(* values for the rest.  The operations of methods/methods.go that consist *)
(* of one such call, ExpandVolume, ModifyQoS and those on group snapshots, *)
(* are actions of their own.                                               *)
(*                                                                         *)
(* Values are integers, and 0 stands for the zero value of every Go type:  *)
(* an empty string, false, nil, a struct of zeros.                         *)
(***************************************************************************)
EXTENDS SFCall, Integers

CONSTANTS
  Methods,      \* methods of the API: see MethodRecord
  Callers,      \* users of the SDK who work on one object
  Values,       \* what they write into a field
  Given,        \* what they write into a field that the method needs
  Sizes,        \* what they pass to ExpandVolume
  GiB,          \* bytes in a unit of Sizes
  Word,         \* number of values of an int64
  Day,          \* the retention "24:00:00"
  Default,      \* what the cluster takes for a field that it is not told
  MaxFaults,    \* bound: calls that do not end well
  MaxCalls      \* bound: calls made

(***************************************************************************)
(* A method with its name, the fields of its request, those among them     *)
(* that tell the object (its ID, which every caller fills in and alike),   *)
(* those that a caller cannot do without, and whether it changes something *)
(* that the cluster keeps.  What callers need is what they take the method *)
(* to ask of them; it is stated apart from the tags of the request.        *)
(***************************************************************************)
MethodRecord(name, request, key, needed, updates) ==
  [name |-> name, request |-> request, key |-> key, needed |-> needed,
   updates |-> updates]

FieldsOf(m) == (m.request.required \cup m.request.optional
                  \cup DOMAIN m.request.objects) \ m.key

(***************************************************************************)
(* encoding/json leaves out the optional fields that are zero, but never   *)
(* one that is a struct.  Of a struct of zeros it writes the fields that   *)
(* are required inside, which may be none at all: then the message says    *)
(* nothing about the field.                                                *)
(***************************************************************************)
SentWhenZero(m, f) ==
  \/ f \in m.request.required
  \/ /\ f \in DOMAIN m.request.objects
     /\ m.request.objects[f].required # {}

Always(m) == {f \in FieldsOf(m) : SentWhenZero(m, f)}

(***************************************************************************)
(* What CreateGroupSnapshot fills in beside the volumes.                   *)
(***************************************************************************)
SnapshotFields ==
  {"name", "enableRemoteReplication", "ensureSerialCreation", "retention"}

ASSUME UpdateAssumption ==
  /\ Values \subseteq Int
  /\ Given \subseteq Int
  /\ Sizes \subseteq Int
  /\ GiB \in Nat \ {0}
  /\ Word \in Nat \ {0}
  /\ Day \in Int \ {0}
  /\ Default \in Int
  /\ MaxFaults \in Nat
  /\ MaxCalls \in Nat
  /\ \A m \in Methods :
       /\ m.updates \in BOOLEAN
       /\ m.needed \subseteq FieldsOf(m)
       /\ m.name = "ModifyVolume" =>
            /\ m.updates
            /\ m.needed = {}
            /\ {"totalSize", "qos"} \subseteq FieldsOf(m)
       /\ m.name = "CreateGroupSnapshot" =>
            m.needed = {} /\ SnapshotFields \subseteq FieldsOf(m)
       /\ m.name = "DeleteGroupSnapshot" =>
            m.needed = {"saveMembers"} /\ "saveMembers" \in FieldsOf(m)

VARIABLES
  method,     \* the method under study; it never changes
  stored,     \* cluster: value of each field (see FieldStore)
  acted,      \* history: the fields named by the request carried out last
  late,       \* requests given up by their callers and not yet at the cluster
  faults,     \* number of calls that did not end well
  calls,      \* number of calls made
  ret         \* ret[c]: the fields that caller c named last, what it asked
              \*         for in them, and the error it got

vars == <<method, stored, acted, late, faults, calls, ret>>

FieldNames == FieldsOf(method)
Structs    == [FieldNames -> Int]
Untold     == [f \in FieldNames |-> Default]
Errors     == {None, "sfapi.unkown", "http.status", "sfapi.other", "shrinks",
               "number of volumes"}
Returns    == [named : SUBSET FieldNames, asked : Structs, err : Errors,
               call : 1 .. MaxCalls]
Nothing    == [call |-> 0]

Init ==
  /\ method \in Methods
  /\ stored = Untold
  /\ acted = {}
  /\ late = {}
  /\ faults = 0
  /\ calls = 0
  /\ ret = [c \in Callers |-> Nothing]
-----------------------------------------------------------------------------
(***************************************************************************)
(* The request of a caller: a composite literal that names some fields.    *)
(***************************************************************************)
Literal(values) ==
  [g \in FieldNames |-> IF g \in DOMAIN values THEN values[g] ELSE 0]

(***************************************************************************)
(* The fields that are in the message.                                     *)
(***************************************************************************)
InMessage(s) ==
  {g \in DOMAIN s : s[g] # 0 \/ SentWhenZero(method, g)}

(***************************************************************************)
(* The cluster.  A volume may only grow.                                   *)
(***************************************************************************)
Base == IF method.updates THEN stored ELSE Untold
Merged(s) ==
  LET told == InMessage(s)
      base == Base
  IN  [g \in DOMAIN s |-> IF g \in told THEN s[g] ELSE base[g]]

Refusal(s) ==
  IF /\ method.updates
     /\ "totalSize" \in InMessage(s)
     /\ s["totalSize"] < stored["totalSize"]
    THEN "shrinks" ELSE None

Execute(s, named) ==
  \/ /\ Refusal(s) = None
     /\ stored' = Merged(s)
     /\ acted' = named
  \/ /\ Refusal(s) # None
     /\ UNCHANGED <<stored, acted>>

(***************************************************************************)
(* One call, from the wrapper of generated_methods.go to the error that it *)
(* returns.  When no answer comes, the cluster may have acted on the       *)
(* request, may never see it, or may act on it later.  The caller asks for *)
(* `asked' and its request says `said' about the same fields.              *)
(***************************************************************************)
Told(c, asked, err) ==
  ret' = [ret EXCEPT ![c] = [named |-> DOMAIN asked, asked |-> Literal(asked),
                             err |-> err, call |-> calls + 1]]

Call(c, asked, said, fate) ==
  LET s == Literal(said) IN
  /\ calls' = calls + 1
  /\ fate = "delivered" \/ faults < MaxFaults
  /\ faults' = IF fate = "delivered" THEN faults ELSE faults + 1
  /\ \/ /\ fate # "refused"
        /\ Execute(s, DOMAIN said)
        /\ UNCHANGED late
     \/ /\ fate # "delivered"
        /\ UNCHANGED <<stored, acted, late>>
     \/ /\ fate \in Unanswered
        /\ late' = late \cup {[args |-> s, named |-> DOMAIN said, tag |-> faults + 1]}
        /\ UNCHANGED <<stored, acted>>
  /\ Told(c, asked, SdkError(fate, Refusal(s)))
  /\ UNCHANGED method

Arrive(l) ==
  /\ l \in late
  /\ Execute(l.args, l.named)
  /\ late' = late \ {l}
  /\ UNCHANGED <<method, faults, calls, ret>>
-----------------------------------------------------------------------------
(***************************************************************************)
(* Any user of the SDK names a field or none (F), and those that the       *)
(* method needs.                                                           *)
(***************************************************************************)
Choices == {{}} \cup {{f} : f \in FieldNames}

Invoke(c, F, v, w, fate) ==
  LET asked == [g \in method.needed \cup F |-> IF g \in F THEN v ELSE w]
  IN  Call(c, asked, asked, fate)

(***************************************************************************)
(* newSize * GiB in an int64.                                              *)
(***************************************************************************)
Int64(x) == ((x + Word \div 2) % Word) - Word \div 2

DecimalGB(n)   == n * (GiB - 1)                                   \* mutant
SizeInBytes(n) == Int64(n * GiB)

ExpandVolume(c, n, fate) ==
  /\ method.name = "ModifyVolume"
  /\ Call(c, [totalSize |-> n * GiB], [totalSize |-> SizeInBytes(n)], fate)

(***************************************************************************)
(* qos is a pointer; a nil one leaves everything as it is.                 *)
(***************************************************************************)
ModifyQoS(c, qos, fate) ==
  /\ method.name = "ModifyVolume"
  /\ Call(c, [qos |-> qos], [qos |-> qos], fate)

(***************************************************************************)
(* CreateGroupSnapshot refuses fewer than 2 and more than 32 volumes       *)
(* itself, and puts the default retention in place of an empty one.  A     *)
(* name that is empty and a flag that is false are not in the message.     *)
(***************************************************************************)
Retention(r) == IF r # 0 THEN r ELSE Day
Flags        == {0, 1}

CreateGroupSnapshot(c, volumes, name, remote, serial, r, fate) ==
  LET asked == [name                    |-> name,
                enableRemoteReplication |-> remote,
                ensureSerialCreation    |-> serial,
                retention               |-> Retention(r)]
  IN  /\ method.name = "CreateGroupSnapshot"
      /\ \/ /\ volumes \in 2 .. 32
            /\ Call(c, asked, asked, fate)
         \/ /\ volumes \notin 2 .. 32
            /\ calls' = calls + 1
            /\ Told(c, asked, "number of volumes")
            /\ UNCHANGED <<method, stored, acted, late, faults>>

DeleteGroupSnapshot(c, fate) ==
  /\ method.name = "DeleteGroupSnapshot"
  /\ Call(c, [saveMembers |-> 0], [saveMembers |-> 0], fate)
-----------------------------------------------------------------------------
Program(c) ==
  /\ calls < MaxCalls
  /\ \E fate \in Fates :
       \/ \E F \in Choices, v \in Values, w \in Given :
            Invoke(c, F, v, w, fate)
       \/ \E n \in Sizes : ExpandVolume(c, n, fate)
       \/ \E qos \in Values : ModifyQoS(c, qos, fate)
       \/ \E volumes \in {1, 2, 32, 33}, name \in Values, remote \in Flags,
             serial \in Flags, r \in Values :
            CreateGroupSnapshot(c, volumes, name, remote, serial, r, fate)
       \/ DeleteGroupSnapshot(c, fate)

Next == \/ \E c \in Callers : Program(c)
        \/ \E l \in late : Arrive(l)

Spec == Init /\ [][Next]_vars
-----------------------------------------------------------------------------
TypeOK ==
  /\ stored \in Structs
  /\ acted \in SUBSET FieldNames
  /\ late \subseteq [args : Structs, named : SUBSET FieldNames,
                      tag : 1 .. MaxFaults]
  /\ faults \in 0 .. MaxFaults
  /\ calls \in 0 .. MaxCalls
  /\ ret \in [Callers -> Returns \cup {Nothing}]

(***************************************************************************)
(* The promise of FieldStore: whatever a caller does, and however late its *)
(* request arrives, every field that the request does not name keeps its   *)
(* value.  What a request names is what its caller filled in, whatever the *)
(* tags of the request type are: this fails wherever an optional field     *)
(* lacks its `omitempty', or is a struct that encoding/json does not omit. *)
(* Users of one object who write fields of their own never undo each       *)
(* other's work: ExpandVolume and ModifyQoS may overlap.                   *)
(***************************************************************************)
Store == INSTANCE FieldStore WITH object <- stored,
                                  keeps  <- method.updates,
                                  named  <- acted
StorePromise == Store!Spec

(***************************************************************************)
(* What the types can say: a value that an int64 can hold, and not the     *)
(* zero value of an optional field.                                        *)
(***************************************************************************)
Fits(x)        == Int64(x) = x
Sayable(f, v)  == Fits(v) /\ (v # 0 \/ SentWhenZero(method, f))

(***************************************************************************)
(* When a call returns no error, the cluster works with the values that    *)
(* the caller asked for.  (Without cut replies: see SFCall.)               *)
(***************************************************************************)
Answered(c)   == ret[c] # Nothing /\ ret[c].err = None
Confirmed ==
  [][\A c \in Callers :
       (ret'[c] # ret[c] /\ Answered(c)') =>
         \A f \in ret'[c].named :
           Sayable(f, ret'[c].asked[f]) => stored'[f] = ret'[c].asked[f]]_vars

(***************************************************************************)
(* An expansion that was reported stays: no other caller, no earlier       *)
(* request that arrives late, and no later one makes the volume smaller    *)
(* than an ExpandVolume without error has promised.                        *)
(***************************************************************************)
ExpansionKept ==
  \A c \in Callers :
    (/\ method.name = "ModifyVolume"
     /\ Answered(c)
     /\ "totalSize" \in ret[c].named
     /\ Sayable("totalSize", ret[c].asked["totalSize"]))
       => stored["totalSize"] >= ret[c].asked["totalSize"]
-----------------------------------------------------------------------------
(***************************************************************************)
(* What the docs say and the code does not do.                             *)
(*                                                                         *)
(* sdk/generated_model.go:5725-5727: pausedManual "Specifies whether to    *)
(* pause or restart volume replication", with the values true and false.   *)
(* So every value that a caller asks for is taken, false included.         *)
(***************************************************************************)
EveryValueTaken ==
  [][\A c \in Callers :
       (ret'[c] # ret[c] /\ Answered(c)') =>
         \A f \in ret'[c].named : stored'[f] = ret'[c].asked[f]]_vars
=============================================================================
