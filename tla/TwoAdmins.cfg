SPECIFICATION Spec
CONSTANTS
  pm = pm
  admin = admin
  other = other
  None = None
  Lines = {l1}
  Requests = {r1, r2}
  Sessions = {pm, admin, other}
  Operations <- TwoAdmins
  Amounts = {1}
  Overrides = {0}
  Contracts = {1, 2}
  MaxAmendments = 1
INVARIANTS
  TypeOK
  TotalsAgree
PROPERTIES
  CreateWithinContract
  AmendmentCoversApproved
CHECK_DEADLOCK FALSE
