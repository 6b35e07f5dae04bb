SPECIFICATION Spec
CONSTANTS
  pm = pm
  admin = admin
  other = other
  None = None
  Lines = {l1, l2}
  Requests = {r1, r2}
  Sessions = {pm, admin}
  Operations <- OneAdmin
  Amounts = {1, 2}
  Overrides = {0, 2}
  Contracts = {1, 3}
  MaxAmendments = 2
INVARIANT
  ApprovedWithinContract
PROPERTIES
  DecisionsFinal
  ContractAudited
  ImplementsFundApproval
CHECK_DEADLOCK FALSE
