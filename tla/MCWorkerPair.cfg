CONSTANTS
  w1 = w1
  w2 = w2
  plain = plain
  demo = demo
  free = free
  broken = broken
  unknown = unknown
  NoMessage = NoMessage
  DeadLetterMax = 2
  Unknown <- MCUnknown
  RagTier <- MCRagTier
  Linked <- MCLinked
  Unreadable <- MCUnreadable
  Demo <- MCDemo
  Messages <- MCFour
  Workers <- MCTwoWorkers
  KindOf <- MCMixedKinds
  TenantOf <- MCAllDemo
  Tenants <- MCDemo
  Limit <- MCTwoRunsOneCall
  DemoCap = 1
  MaxRetries = 0
  MaxDay = 1
  MaxRestarts = 0
SPECIFICATION WorkerSpec
SYMMETRY MCWorkerSymmetry
INVARIANTS
  QuotaPerDay
  JobsArePaid
PROPERTIES
  SettledIsFinal
CHECK_DEADLOCK FALSE
