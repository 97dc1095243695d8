SPECIFICATION Safety
CONSTANTS
  i1 = i1
  i2 = i2
  i3 = i3
  i4 = i4
  i5 = i5
  i6 = i6
  b1 = b1
  b2 = b2
  b3 = b3
  Items <- MCItems
  Batches <- MCBatches
  BatchOf <- MCBatchOf
  AllowLlm <- MCAllowSome
  BatchConcurrency = 1
  MaxBatchItems = 2
  MaxConcurrency = 1
  MaxAttempts = 2
  HasRater = TRUE
  HasExtractor = TRUE
  Cfg <- HybridCfg
  Readings <- MCReadings
  ProviderErrors <- MCErrors
INVARIANT
  RaterFailureDegrades
CHECK_DEADLOCK FALSE
