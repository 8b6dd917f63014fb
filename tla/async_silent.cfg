SPECIFICATION SilentSpec
CONSTANTS
  v = v
  w = w
  k = k
  Fates = {"delivered"}
  Waiters = {v}
  Consumers = {}
  MaxFaults = 0
PROPERTIES
  CancelledReturns
CHECK_DEADLOCK FALSE
