SPECIFICATION Spec
CONSTANTS
  Methods   <- VolumePair
  Fates     = {"delivered", "refused", "http", "lost"}
  Callers   = {p, q}
  Values    = {0, 1}
  Given     = {1}
  Sizes     = {}
  GiB       = 4
  Word      = 64
  Day       = 24
  Default   = 1
  MaxFaults = 1
  MaxCalls  = 2
PROPERTIES EveryValueTaken
CHECK_DEADLOCK FALSE
