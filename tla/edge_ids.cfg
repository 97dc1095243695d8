SPECIFICATION Spec
CONSTANTS
  r1 = r1
  r2 = r2
  s1 = s1
  None = None
  UnsafeId = UnsafeId
  SafeIds = {s1}
  Requests <- MCRequests
  Arrivals <- MCArrivals
  MaxBatchItems = 2
  MaxClaims = 3
  Providers = {"fake", "openai"}
INVARIANTS
  EveryFailureTraceable
CHECK_DEADLOCK FALSE
