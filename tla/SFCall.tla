------------------------------- MODULE SFCall -------------------------------
(***************************************************************************)
(* One JSON-RPC call of the SDK (sdk/base_methods.go, MakeSFCall), as the  *)
(* 438 generated wrappers of sdk/generated_methods.go make it: every one   *)
(* of them passes its own method name and returns &res together with the   *)
(* error.  A call is described by what became of it on the wire, its fate, *)
(* and by the reason for which the cluster refused it, if it did.          *)
(***************************************************************************)
EXTENDS Naturals

CONSTANT Fates      \* the fates that a call may meet in this system

(***************************************************************************)
(*  "delivered"  status 200, the whole body is read                        *)
(*  "refused"    the same, the body is an error unrelated to the request   *)
(*               (a busy service, a limit, a lacking permission)           *)
(*  "cut"        status 200, but the body ends early or does not parse     *)
(*  "http"       any other status                                          *)
(*  "lost"       client.Do fails: no connection, reset, end of file        *)
(***************************************************************************)
AllFates == {"delivered", "refused", "cut", "http", "lost"}

ASSUME FatesAssumption == /\ Fates \subseteq AllFates
                          /\ "delivered" \in Fates

None == "none"      \* nil: no refusal, no SdkError

(***************************************************************************)
(* Fates that leave it open whether the request reached the cluster.       *)
(***************************************************************************)
Unanswered == {"http", "lost"}

(***************************************************************************)
(* The error that MakeSFCall returns.  Both the error of reading the body  *)
(* and the error of parsing it are dropped, so a cut reply leaves the zero *)
(* BaseResponse behind, whose Error.Code is 0: no error is reported, even  *)
(* when the lost part of the body held one.                                *)
(***************************************************************************)
BareError(fate, refusal) ==                                       \* mutant
  IF fate = "delivered" THEN refusal ELSE fate

TransportError(fate, refusal) ==                                  \* mutant
  IF fate \in {"lost", "http"} THEN "http.status" ELSE None

SdkError(fate, refusal) ==
  CASE fate = "lost"      -> "sfapi.unkown"
    [] fate = "http"      -> "http.status"
    [] fate = "refused"   -> "sfapi.other"
    [] fate = "delivered" -> refusal
    [] OTHER              -> None

(***************************************************************************)
(* The result the caller finds behind the pointer the wrapper returns: the *)
(* cluster's value if a whole and good reply came, its zero value if not.  *)
(***************************************************************************)
ResultNotStored(fate, refusal, value, zero) == zero               \* mutant

SdkResult(fate, refusal, value, zero) ==
  IF fate = "delivered" /\ refusal = None THEN value ELSE zero
=============================================================================
