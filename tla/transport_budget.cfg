CONSTANTS
  c1 = c1
  c2 = c2
  Calls = {c1, c2}
  Transports = {TRUE}
  MaxConcurrency = 1
  MaxRetries = 2
  Timeout = 4
  ConnectTimeout = 1
  BaseDelay = 2
  Trickles = 0
  LastEntry = 1

SPECIFICATION Spec

INVARIANTS
  TotalBudget
