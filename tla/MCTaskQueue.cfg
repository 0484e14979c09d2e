CONSTANTS
  m1 = m1
  m2 = m2
  m3 = m3
  w1 = w1
  w2 = w2
  NoMessage = NoMessage
  Messages <- MCMessages
  Workers <- MCWorkers
  MaxRetries = 2
  DeadLetterMax = 1
SPECIFICATION FairQueueSpec
INVARIANTS
  OnePlace
  CountersExact
PROPERTIES
  LifecycleRefined
