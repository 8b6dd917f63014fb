SPECIFICATION FairSpec
CONSTANTS
  x = x
  y = y
  z = z
  n = n
  m = m
  NoNode = NoNode
  Fates = {"delivered", "http"}
  Volumes = {x}
  Nodes = {n}
  Cap = 3
  MaxFaults = 1
  MaxMoves = 0
PROPERTIES
  FallbackLocates
CHECK_DEADLOCK FALSE
