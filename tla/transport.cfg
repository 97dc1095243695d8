CONSTANTS
  c1 = c1
  c2 = c2
  Calls = {c1, c2}
  Transports = {TRUE, FALSE}
  MaxConcurrency = 1
  MaxRetries = 2
  Timeout = 3
  ConnectTimeout = 1
  BaseDelay = 1
  Trickles = 1
  LastEntry = 1

SPECIFICATION FairSpec

INVARIANTS
  TypeOK
  PermitsAccounted
  NoLateAnswer
  PersistsWhileItMay
  OverrunBounded

PROPERTIES
  KeepsContract
  EveryCallEnds
