SPECIFICATION FairSpec
CONSTANTS
  None = None
  orders = orders
  Files = {orders}
  Uploads = {u1, u2}
  Instances = {i1, i2}
  FileOf <- SameFile
  Attempts = 2
  MaxStalled = 1
  MaxFaults = 2
INVARIANTS
  TypeOK
  SuccessWasReconciled
  CompletedMeansSuccess
PROPERTIES
  ImportedIsFinal
  EveryJobSettles
CHECK_DEADLOCK FALSE
