SPECIFICATION FairSpec
CONSTANTS
  pm = pm
  admin = admin
  other = other
  None = None
  Lines = {l1}
  Requests = {r1, r2, r3}
  Sessions = {pm, admin, other}
  Operations <- TwoApprovers
  Amounts = {1, 2}
  Overrides = {}
  Contracts = {2}
  MaxAmendments = 0
INVARIANT
  ApprovedWithinContract
PROPERTY
  EveryTransactionEnds
CHECK_DEADLOCK FALSE
