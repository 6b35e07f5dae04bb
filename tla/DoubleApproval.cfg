SPECIFICATION Spec
CONSTANTS
  pm = pm
  admin = admin
  other = other
  None = None
  Lines = {l1}
  Requests = {r1}
  Sessions = {pm, admin, other}
  Operations <- TwoDeciders
  Amounts = {1}
  Overrides = {}
  Contracts = {1}
  MaxAmendments = 0
PROPERTY
  DecisionsFinal
CHECK_DEADLOCK FALSE
