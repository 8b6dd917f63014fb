---------------------------- MODULE SFCallProofs ----------------------------
(***************************************************************************)
(* What a caller may conclude from the error and the result of a call, for *)
(* every fate, every refusal and every type of result.                     *)
(***************************************************************************)
EXTENDS SFCall, TLAPS

(***************************************************************************)
(* An error never comes with a result: whoever uses the result of a call   *)
(* that failed uses the zero one.                                          *)
(***************************************************************************)
THEOREM ErrorHasNoResult ==
  ASSUME NEW fate \in Fates, NEW refusal, NEW value, NEW zero,
         SdkError(fate, refusal) # None
  PROVE  SdkResult(fate, refusal, value, zero) = zero
BY DEF SdkError, SdkResult

(***************************************************************************)
(* No error leaves two fates.                                              *)
(***************************************************************************)
LEMMA NoErrorFates ==
  ASSUME NEW fate \in Fates, NEW refusal, SdkError(fate, refusal) = None
  PROVE  fate = "cut" \/ (fate = "delivered" /\ refusal = None)
BY FatesAssumption DEF SdkError, AllFates, None

(***************************************************************************)
(* sdk/base_methods.go:88, "Return nil SdkError explicitly if successful": *)
(* no error means that the cluster carried the request out and that the    *)
(* result is its answer, unless replies may be cut short.                  *)
(***************************************************************************)
THEOREM NoErrorHasResult ==
  ASSUME "cut" \notin Fates,
         NEW fate \in Fates, NEW refusal, SdkError(fate, refusal) = None
  PROVE  /\ fate = "delivered" /\ refusal = None
         /\ \A value, zero : SdkResult(fate, refusal, value, zero) = value
BY NoErrorFates DEF SdkResult

(***************************************************************************)
(* A reply that is cut short is the one call that fails without a sign of  *)
(* it: neither the refusal in the reply nor the value shows.               *)
(***************************************************************************)
THEOREM OnlyCutIsSilent ==
  ASSUME NEW fate \in Fates, NEW refusal
  PROVE  (/\ SdkError(fate, refusal) = None
          /\ \E value, zero : SdkResult(fate, refusal, value, zero) # value)
           <=> fate = "cut"
<1>1. ASSUME fate = "cut"
      PROVE  /\ SdkError(fate, refusal) = None
             /\ \E value, zero : SdkResult(fate, refusal, value, zero) # value
  <2>1. SdkError(fate, refusal) = None
    BY <1>1 DEF SdkError
  <2>2. SdkResult(fate, refusal, 1, 0) # 1
    BY <1>1 DEF SdkResult
  <2> QED BY <2>1, <2>2
<1>2. ASSUME SdkError(fate, refusal) = None, fate # "cut"
      PROVE  \A value, zero : SdkResult(fate, refusal, value, zero) = value
  BY <1>2, NoErrorFates DEF SdkResult
<1> QED BY <1>1, <1>2
=============================================================================
