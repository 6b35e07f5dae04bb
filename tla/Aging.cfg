SPECIFICATION FairSpec
CONSTANTS
  None = None
  aging = aging
  ageless = ageless
  wide = wide
  own = own
  Lines = {aging, ageless}
  Duids = {d1, d2}
  Orders = {o1, o2}
  TopProjects = 1
  Dates = {0, 1}
  Allowances = {0, 4}
  Dashboards = {wide, own}
  Scope <- ScopeOf
  Limit = 1
  AllowedDays <- AllowedOf
  FirstDay = 3
  MaxDay = 5
  MaxEdits = 1
  MaxFaults = 1
INVARIANTS
  TypeOK
  AnswersAgree
  MarkedWasTold
  ToldOncePerDashboard
PROPERTIES
  MarkedIsFinal
  FlagsFollow
  RedIsMarked
