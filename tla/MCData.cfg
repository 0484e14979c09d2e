CONSTANTS
  Runners = {"api", "worker"}
  Routes = {"api"}
  Feeds <- MCFeeds
  RunQuota = 1
  MaxRuns = 2
  LastSecond = 1
  SampleTexts <- MCTexts
  SampleIds = {1, 2}
  MaxRecords = 3
  SqlTenants = {"t", "s"}
  RecordIds = {"x"}
  Places = {0, 1, 2}
  Blank = 0
  MaxBatches = 2
  ChunkSize = 6
  ChunkOverlap = 3
  MaxLength = 8
  MaxSentences = 5
  SampleTasks <- MCPlannerTasks
  Bookings <- MCBookings
  MaxTasks = 4
  TopLimit = 3
  OverdueLimit = 1
  WeekendLimit = 2
  CapacityHours = 2
  DefaultMinutes = 45
  BoardTasks <- MCBoardTasks
  Columns <- MCColumns
  ReadOnly = FALSE
  LastDate = 1
  MaxEdits = 1
  Syncers = {s1, s2}
  TodoIds = {t1, t2}
  PageIds = {1, 2, 3}
  Texts = {"x", "y"}
  Extras = {"notes"}
  Wordings <- MCWordings
  MaxSyncs = 2
  MaxChanges = 1
  MaxSetups = 3
  MaxRebuilds = 2
  BriefTasks = {b1, b2, b3}
  FilterLimit = 2
  DueDays <- MCDueDays
  WeekendDays <- MCWeekendDays
  SampleSettings <- MCSampleSettings
  MaxReschedules = 1
  t1 = t1
  t2 = t2
  Tenants <- MCTwo
  Configs <- MCConfigs
  Moments <- MCMoments
  Flaky = TRUE
SYMMETRY MCSymmetry
SPECIFICATION DataSpec
INVARIANTS
  DataTypeOK
  LoneRunIsCoherent
  SilverIsClean
  SilverIsLatest
  ChunksCoverText
  PlansAreConsistent
  LeavesItTidy
  BoardMirrors
  DashboardIsWhole
  BriefingHoldsTheDay
  SubmittedOnce
CHECK_DEADLOCK FALSE
