SPECIFICATION FairSpec
CONSTANTS
  b1 = b1
  t1 = t1
  t2 = t2
  s1 = s1
  s2 = s2
  None = None
  Devices = {d1, d2}
  Tokens = {k1, k2, k3, k4, k5, k6}
  Browsers = {b1}
  Tabs = {t1}
  Requests = {s1, s2}
  TabOf <- TwoRequests
  BrowserOf <- OneTab
  Reloading = {t1}
  MaxVersion = 1
INVARIANTS
  TypeOK
  SoleTabInSync
  AcceptedHasSession
PROPERTIES
  ImplementsLifecycle
  EveryRequestEnds
CHECK_DEADLOCK FALSE
