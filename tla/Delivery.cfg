SPECIFICATION FairSpec
CONSTANTS
  retried = retried
  once = once
  None = None
  Notifications = {retried, once}
  Instances = {i1, i2}
  Attempts <- QueueAttempts
  MaxStalled = 1
INVARIANTS
  TypeOK
  SentWasMailed
  CompletedWasSent
  DuplicatesAreRetries
PROPERTIES
  SentIsFinal
  EveryJobEnds
CHECK_DEADLOCK FALSE
