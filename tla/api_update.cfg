SPECIFICATION Spec
CONSTANTS
  Methods   <- WithFields
  Fates     = {"delivered", "refused", "http", "lost"}
  Callers   = {p, q}
  Values    = {0, 1, 2}
  Given     = {1}
  Sizes     = {0, 3, 7, 8, 16, 19}
  GiB       = 4
  Word      = 64
  Day       = 24
  Default   = 9
  MaxFaults = 1
  MaxCalls  = 2
SYMMETRY UsersAlike
INVARIANTS TypeOK ExpansionKept
PROPERTIES  Confirmed
CHECK_DEADLOCK FALSE
