CONSTANTS
  StoreUsers = {"u1", "u2"}
  StoreKeys = {"k1"}
  Documents = {"d1", "d2"}
  Inodes = {i1, i2, i3}
  Writes <- MCWrites
  Absent = Absent
  NoInode = NoInode
  Apis = {a1, a2}
  Sessions <- MCSessions
  MaxJobs = 3
  JobHistory = 2
  JobsEvicted = 1
  Servers = {p1, p2}
  People = {o, m}
  UserIds = {u1, u2}
  Invites = {i1}
  Homes = {h1}
  PlatformOwner = o
  TokenLife = 1
  LastTick = 2
  MaxChanges = 1
  Offices = {o1, o2}
  TenantIds = {t1}
  Subs = {"g1", "g2"}
  Layers = {"gold", "vault"}
  MaxOps = 3
  MaxEvents = 1
  Clerks = {"u1", "u2", "v"}
  ConnectionOf <- MCConnectionOf
  SchemaNames = {"bronze", "gold"}
  Roles = {"free"}
  MaxLineage = 1
  MaxRows = 1
  MaxCalls = 3
  RagThreads = {"u1", "u2"}
  RagTenants = {"t1", "t2"}
  DocIds = {"a", "b", "c"}
  MaxDocuments = 1
  MaxChunks = 2
  MaxIngests = 3
  Hosts = {"h1", "h2"}
  Entries <- MCEntries
  LinkEntries <- MCLinkEntries
  Retention = 1
  MaxAttempts = 2
  MaxWrites = 1
  MaxUploads = 3
  LastKey = 1
  LastStage = 3
  Threshold <- MCThreshold
  FailWindow <- MCFailWindow
  BanTime <- MCBanTime
  PermanentLast = TRUE
  Persisted = TRUE
  BanClockMax = 10
  MaxFailures = 5
  Loggers = {"g1", "g2", "g3"}
  ProcessOf <- MCProcessOf
  SegmentSize = 2
  LastDay = 2
  MaxEntries = 3
SPECIFICATION RecordsSpec
INVARIANTS
  RecordsTypeOK
  RecentJobsKnown
  AccountsAreGrounded
  AccessEnds
  SealedForOwner
  ReturnedIsDurable
  QuotaSlack
  BackupsSurvive
  BansAreServed
  OneChainEach
PROPERTY StorageIsAtomic
CHECK_DEADLOCK FALSE
