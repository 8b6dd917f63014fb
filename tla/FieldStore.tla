----------------------------- MODULE FieldStore -----------------------------
(***************************************************************************)
(* What a caller of the API takes a request with optional fields to be: it *)
(* acts on the fields that it names and on no other.  The object is what a *)
(* method that changes something changes, and then keeps; for any other    *)
(* method it is the arguments that the last call was carried out with.     *)
(***************************************************************************)
EXTENDS Integers

CONSTANT Default    \* what the cluster takes for a field that it is not told

VARIABLES
  object,     \* object[f]: value of field f
  keeps,      \* whether a call starts from what the one before it left
  named       \* the fields named by the request carried out last

Fields == DOMAIN object

Init ==
  /\ object = [f \in Fields |-> Default]
  /\ keeps \in BOOLEAN
  /\ named = {}

Base(g) == IF keeps THEN object[g] ELSE Default

SetFields ==
  /\ named' \subseteq Fields
  /\ object' = [g \in Fields |-> IF g \in named' THEN object'[g] ELSE Base(g)]
  /\ UNCHANGED keeps

Next == SetFields

Spec == Init /\ [][Next]_<<object, keeps, named>>
=============================================================================
