SPECIFICATION FairSpec
CONSTANTS
  v = v
  w = w
  k = k
  Fates = {"delivered", "refused", "cut", "http", "lost"}
  Waiters = {v, w}
  Consumers = {k}
  MaxFaults = 2
INVARIANTS
  TypeOK
PROPERTIES
  FuturePromise
  FinishedReported
  CancelledReturns
CHECK_DEADLOCK FALSE
