CONSTANTS
  Callers = {c1, c2}
  FailureThreshold = 2
  HalfOpenMax = 1
  SuccessThreshold = 2
  RetryMax = 1
SPECIFICATION FairBreakerSpec
PROPERTY Recovers
