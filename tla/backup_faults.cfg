SPECIFICATION FairSpec
CONSTANTS
  x = x
  y = y
  z = z
  n = n
  m = m
  NoNode = NoNode
  Fates = {"delivered", "refused", "cut", "http", "lost"}
  Volumes = {x, y}
  Nodes = {n, m}
  Cap = 3
  MaxFaults = 2
  MaxMoves = 1
INVARIANTS
  TypeOK
  LoadCounts
  Conservation
  NodeLimit
  ReportTrue
  DoneMeansBackedUp
  BackupsCounted
  StuckJobsCounted
PROPERTIES
  KeepsPromise
  Terminates
CHECK_DEADLOCK FALSE
