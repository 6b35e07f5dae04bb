SPECIFICATION ImportSpec
CONSTANTS
  pm = pm
  admin = admin
  other = other
  None = None
  Importers = {job1}
  Lines = {l1}
  Requests = {r1}
  Sessions = {pm, admin}
  Operations <- OneAdmin
  Amounts = {1}
  Overrides = {}
  Contracts = {1}
  MaxAmendments = 0
INVARIANT
  TotalsSynced
CHECK_DEADLOCK FALSE
