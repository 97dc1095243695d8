CONSTANTS
  s1 = s1
  s2 = s2
  s3 = s3
  v1 = v1
  v2 = v2
  Absent = Absent
  Torn = Torn
  Parent = Parent
  Versions = {v1, v2}
  Original = v1
  Touched = {"profile", "catalog", "dataset", "model"}
  MaxChanges = 2
  Samples <- MCSamples
  BatchSize = 2
  Concurrency = 1
  Programs = {"run_evaluation", "run_candidate"}
  Reused = {s2}
  MaxSetbacks = 1

SPECIFICATION FairSpec

INVARIANTS
  TypeOK
  IdentityBound
  CommittedInputs
  OrderedOnce
  ResumesUnlessChanged
  SummaryIsComplete

PROPERTIES
  KeepsLedger
  EventuallyReported
