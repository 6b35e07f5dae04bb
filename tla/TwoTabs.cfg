SPECIFICATION Spec
CONSTANTS
  b1 = b1
  t1 = t1
  t2 = t2
  s1 = s1
  s2 = s2
  None = None
  Devices = {d1, d2}
  Tokens = {k1, k2, k3, k4, k5, k6}
  Browsers = {b1}
  Tabs = {t1, t2}
  Requests = {s1, s2}
  TabOf <- RequestEach
  BrowserOf <- TwoTabs
  Reloading = {}
  MaxVersion = 0
INVARIANTS
  CookieInSync
CHECK_DEADLOCK FALSE
