CONSTANTS
  t1 = t1
  t2 = t2
  Tenants <- MCOne
  Configs <- MCConfigs
  Moments <- MCMoments
  Flaky = FALSE
SPECIFICATION SchedulerSpec
PROPERTY TickServesTheSchedule
