SPECIFICATION Spec
CONSTANTS
  pm = pm
  admin = admin
  other = other
  None = None
  Lines = {l1}
  Requests = {r1}
  Sessions = {pm, admin, other}
  Operations <- ApproverAndAmender
  Amounts = {2}
  Overrides = {}
  Contracts = {1, 2}
  MaxAmendments = 1
INVARIANT
  ApprovedWithinContract
CHECK_DEADLOCK FALSE
