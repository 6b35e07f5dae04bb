SPECIFICATION FairImportSpec
CONSTANTS
  pm = pm
  admin = admin
  other = other
  None = None
  Importers = {job1}
  Lines = {l1}
  Requests = {r1, r2}
  Sessions = {pm, admin}
  Operations <- Approver
  Amounts = {1}
  Overrides = {}
  Contracts = {1, 2}
  MaxAmendments = 1
INVARIANTS
  ImportTypeOK
  ApprovedWithinContract
PROPERTIES
  CreateWithinContract
  OperationsReconcile
  EveryImportEnds
  EveryTransactionEnds
CHECK_DEADLOCK FALSE
