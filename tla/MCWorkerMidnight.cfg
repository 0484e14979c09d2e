CONSTANTS
  w1 = w1
  w2 = w2
  plain = plain
  demo = demo
  free = free
  broken = broken
  unknown = unknown
  NoMessage = NoMessage
  DeadLetterMax = 2
  Unknown <- MCUnknown
  RagTier <- MCRagTier
  Linked <- MCLinked
  Unreadable <- MCUnreadable
  Demo <- MCNone
  Messages <- MCThree
  Workers <- MCTwoWorkers
  KindOf <- MCRunKinds
  TenantOf <- MCAllPlain
  Tenants <- MCPlain
  Limit <- MCOneEach
  DemoCap = 1
  MaxRetries = 0
  MaxDay = 2
  MaxRestarts = 0
SPECIFICATION WorkerSpec
INVARIANTS
  WorkWithinQuota
CHECK_DEADLOCK FALSE
