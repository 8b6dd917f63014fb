SPECIFICATION Spec
CONSTANTS
  Tenant         = "px-admin"
  UnknownAccount = "500:xUnknownAccount"
  Fates          = {"delivered", "refused", "http", "lost"}
  MaxFaults      = 1
INVARIANTS AccountTaken
CHECK_DEADLOCK FALSE
