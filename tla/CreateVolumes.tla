---------------------------- MODULE CreateVolumes ----------------------------
(***************************************************************************)
(* The program example/create-volumes/main.go, which carries an older copy *)
(* of the tenant client: it finds or adds the tenant's account and creates *)
(* ten volumes.  Someone who sees it fail runs it again.                   *)
(***************************************************************************)
EXTENDS SFCall

CONSTANTS
  Tenant,         \* the tenant's name, which stands for its AccountID
  UnknownAccount, \* the Detail of the refusal that names it as missing
  MaxFaults       \* bound: calls that do not end well

NoAccount == "account 0"
VolumeCount == 10

VARIABLES
  known,      \* cluster: whether the tenant has an account
  created,    \* cluster: the numbers of the volumes it was asked to make
  pc,         \* where the program is
  accountID,  \* Client.AccountID
  next,       \* number of the volume to create next
  faults      \* number of calls that did not end well

vars == <<known, created, pc, accountID, next, faults>>

Init ==
  /\ known \in BOOLEAN
  /\ created = {}
  /\ pc = "get"
  /\ accountID = NoAccount
  /\ next = 1
  /\ faults = 0

Meet(fate) ==
  /\ fate = "delivered" \/ faults < MaxFaults
  /\ faults' = IF fate = "delivered" THEN faults ELSE faults + 1

(***************************************************************************)
(* NewClient.  Whatever the error, the program takes the account out of    *)
(* the result of GetAccountByName.  The constant is compared with          *)
(* "500:xUnknownAccount" as a whole.                                       *)
(***************************************************************************)
GetAccountByName(fate) ==
  LET unknown == IF known THEN None ELSE UnknownAccount
  IN  /\ pc = "get"
      /\ Meet(fate)
      /\ accountID' = SdkResult(fate, unknown, Tenant, NoAccount)
      /\ pc' = IF SdkError(fate, unknown) = "500:xUnknownAccount"
                 THEN "add" ELSE "create"
      /\ UNCHANGED <<known, created, next>>

(***************************************************************************)
(* The account added is stored and then overwritten with that of the       *)
(* look-up, which the inner result hides: it stays the zero one.           *)
(***************************************************************************)
AddAccount(fate) ==
  LET refusal == IF known THEN "xDuplicateUsername" ELSE None
  IN  /\ pc = "add"
      /\ Meet(fate)
      /\ known' \in IF fate \in Unanswered THEN {known, TRUE}
                      ELSE {known \/ fate # "refused"}
      /\ pc' = IF SdkError(fate, refusal) = None THEN "create" ELSE "exit"
      /\ UNCHANGED <<created, accountID, next>>

CreateVolume(fate) ==
  LET refusal == IF known /\ accountID = Tenant THEN None
                                                ELSE UnknownAccount
      made    == IF refusal = None THEN created \cup {next} ELSE created
  IN  /\ pc = "create"
      /\ next <= VolumeCount
      /\ Meet(fate)
      /\ created' \in IF fate \in Unanswered THEN {created, made}
                        ELSE {IF fate = "refused" THEN created ELSE made}
      /\ \/ /\ SdkError(fate, refusal) = None
            /\ next' = next + 1
            /\ pc' = pc
         \/ /\ SdkError(fate, refusal) # None
            /\ pc' = "exit"
            /\ next' = next
      /\ UNCHANGED <<known, accountID>>

RunAgain ==
  /\ pc = "exit"
  /\ pc' = "get"
  /\ accountID' = NoAccount
  /\ next' = 1
  /\ UNCHANGED <<known, created, faults>>

Next == \/ \E fate \in Fates : \/ GetAccountByName(fate)
                               \/ AddAccount(fate)
                               \/ CreateVolume(fate)
        \/ RunAgain

Spec == Init /\ [][Next]_vars
-----------------------------------------------------------------------------
(***************************************************************************)
(* example/create-volumes/main.go:71-72: "Verify specified user            *)
(* tenant/account and ge it's ID, if it doesn't exist create it".  So when *)
(* no call goes wrong, the program creates its volumes for the tenant.     *)
(***************************************************************************)
AccountTaken == (pc = "create" /\ faults = 0) => accountID = Tenant
=============================================================================
