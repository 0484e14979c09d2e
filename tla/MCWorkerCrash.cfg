CONSTANTS
  w1 = w1
  w2 = w2
  plain = plain
  demo = demo
  free = free
  broken = broken
  unknown = unknown
  NoMessage = NoMessage
  DeadLetterMax = 2
  Unknown <- MCUnknown
  RagTier <- MCRagTier
  Linked <- MCLinked
  Unreadable <- MCUnreadable
  Demo <- MCNone
  Messages <- MCFour
  Workers <- MCOneWorker
  KindOf <- MCCrashKinds
  TenantOf <- MCCrashTenants
  Tenants <- MCTenants
  Limit <- MCOneEach
  DemoCap = 1
  MaxRetries = 1
  MaxDay = 2
  MaxRestarts = 1
SPECIFICATION WorkerSpec
INVARIANTS
  NeverOvercharged
  ReportedJobsAreCharged
  ResultsAreTrue
PROPERTY QueueObeyed
CHECK_DEADLOCK FALSE
