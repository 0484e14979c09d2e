CONSTANTS
  w1 = w1
  w2 = w2
  plain = plain
  demo = demo
  free = free
  broken = broken
  unknown = unknown
  NoMessage = NoMessage
  DeadLetterMax = 2
  Unknown <- MCUnknown
  RagTier <- MCRagTier
  Linked <- MCLinked
  Unreadable <- MCUnreadable
  Demo <- MCNone
  Messages <- MCTwo
  Workers <- MCTwoWorkers
  KindOf <- MCLivingKinds
  TenantOf <- MCAllPlain
  Tenants <- MCPlain
  Limit <- MCOneEach
  DemoCap = 1
  MaxRetries = 1
  MaxDay = 1
  MaxRestarts = 1
SPECIFICATION FairWorkerSpec
PROPERTIES
  JobsSettle
  StopIsGraceful
CHECK_DEADLOCK FALSE
