CONSTANTS
  c1 = c1
  c2 = c2
  c3 = c3
  k1 = k1
  k2 = k2
  Callers <- MCCallers
  FailureThreshold = 2
  HalfOpenMax = 2
  SuccessThreshold = 2
  RetryMax = 1
  Clients <- MCClients
  OpenAfter = 2
  TryMax = 1
  Requesters <- MCClients
  Keys <- MCKeys
  MaxRequests = 2
  Window = 3
  PruneEvery = 1
  MaxTime = 4
  Lag = 1
SPECIFICATION GuardsSpec
INVARIANTS
  GuardsTypeOK
  ClosedIsTolerant
  NeverWedged
  WindowKept
PROPERTIES
  BreakersRecover
  CallsEnd
