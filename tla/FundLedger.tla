----------------------------- MODULE FundLedger -----------------------------
(***************************************************************************)
(* The operations on the fund ledger as fund-requests.service.ts and       *)
(* contract-amendments.service.ts run them: interactive PostgreSQL         *)
(* transactions whose statements interleave.                               *)
(*                                                                         *)
(* approveOrRejectFundRequest runs at the default level, Read Committed:   *)
(* every statement reads the latest committed rows and the transaction's   *)
(* own writes; an UPDATE waits for the row lock and then evaluates its     *)
(* WHERE on the latest committed row.  createFundRequest and               *)
(* createAmendment run Serializable: all reads come from the snapshot of   *)
(* the first statement, and updating a row that another transaction has    *)
(* committed since then fails.  Row locks are held until the end of the    *)
(* transaction.  Locks and tx are what PostgreSQL and the Node process     *)
(* keep; they are lost with the connection.                                *)
(*                                                                         *)
(* "Fault:" introduces plausible bugs, as in PoLedger.                     *)
(***************************************************************************)
EXTENDS PoLedger

CONSTANT Operations  \* [Sessions -> the operations that session performs]

AdminOperations == {"approve", "reject", "setup", "amend"}

ASSUME OperationsAssumption ==
  Operations \in [Sessions -> SUBSET (AdminOperations \cup {"create"})]

VARIABLES
  requestLock,  \* the session that holds the row lock of a fund_request
  lineLock,     \* the session that holds the row lock of a purchase_order_line
  tx            \* what each session's open transaction has done and read

vars == <<ledger, requestLock, lineLock, tx>>

Steps == {"idle", "requestRead", "lineRead", "checked", "requestWritten",
          "lineWritten", "contractRead", "reconciled", "snapshot"}

Kinds == {"none", "create"} \cup AdminOperations

\* The purchase_order_line columns a transaction has read and still uses.
LineViews == [contract : Nat, approved : Nat, version : Nat]

Transactions ==
  [step : Steps, kind : Kinds, request : Requests \cup {None}, line : Lines \cup {None},
   amount : Nat, seen : LineViews, result : Financials, stale : BOOLEAN]

NoTx == [step |-> "idle", kind |-> "none", request |-> None, line |-> None, amount |-> 0,
         seen |-> [contract |-> 0, approved |-> 0, version |-> 0],
         result |-> ZeroTotals, stale |-> FALSE]

\* Every variable keeps its type; sums are natural numbers, so no cached
\* total of any line ever becomes negative.
TypeOK ==
  /\ LedgerTypeOK
  /\ requestLock \in [Requests -> Sessions \cup {None}]
  /\ lineLock \in [Lines -> Sessions \cup {None}]
  /\ tx \in [Sessions -> Transactions]

Init ==
  /\ LedgerInit
  /\ requestLock = [r \in Requests |-> None]
  /\ lineLock = [l \in Lines |-> None]
  /\ tx = [s \in Sessions |-> NoTx]

-----------------------------------------------------------------------------
(* What a transaction sees and how it moves on.                            *)

At(s, step, kinds) == tx[s].step = step /\ tx[s].kind \in kinds

\* The line's columns as a read outside any write of the session returns them.
LineRow(l) == [contract |-> contractAmount[l],
               approved |-> totals[l].totalApprovedAmount,
               version |-> Len(amendments[l])]

\* The fund_request table as a statement of session s reads it: the committed
\* rows and the one the transaction has written itself.
RowsSeenBy(s) ==
  LET t == tx[s] IN
  CASE t.kind = "create"  -> Inserted(fundRequest, t.request, t.line, t.amount)
    [] t.kind = "approve" -> Approved(fundRequest, t.request, t.amount, s)
    [] t.kind = "reject"  -> Rejected(fundRequest, t.request, s)
    [] OTHER              -> fundRequest

\* The contract of the line as the transaction reads it after its own write.
ContractSeenBy(s) ==
  IF tx[s].kind \in {"setup", "amend"} THEN tx[s].amount ELSE contractAmount[tx[s].line]

GoTo(s, step) == tx' = [tx EXCEPT ![s].step = step]

\* An UPDATE of the line row gets its lock, which lasts until the end.
LockLine(s, step) ==
  /\ lineLock[tx[s].line] = None
  /\ lineLock' = [lineLock EXCEPT ![tx[s].line] = s]
  /\ GoTo(s, step)
  /\ UNCHANGED <<ledger, requestLock>>

-----------------------------------------------------------------------------
(* approveOrRejectFundRequest, Read Committed.                             *)

\* Fault: the status of the request is not checked.
ReadAnyRequest(s, kind, r, amount) ==
  /\ tx[s].step = "idle"
  /\ kind \in Operations[s]
  /\ fundRequest[r].status # "NONE"
  /\ tx' = [tx EXCEPT ![s] = [NoTx EXCEPT !.step = "requestRead", !.kind = kind,
                                          !.request = r, !.line = fundRequest[r].line,
                                          !.amount = amount]]
  /\ UNCHANGED <<ledger, requestLock, lineLock>>

\* findUnique reads the request, which must be pending; the line is a
\* second query of the same include.
ReadRequest(s, kind, r, amount) ==
  /\ tx[s].step = "idle"
  /\ kind \in Operations[s]
  /\ fundRequest[r].status = "PENDING"
  /\ tx' = [tx EXCEPT ![s] = [NoTx EXCEPT !.step = "requestRead", !.kind = kind,
                                          !.request = r, !.line = fundRequest[r].line,
                                          !.amount = amount]]
  /\ UNCHANGED <<ledger, requestLock, lineLock>>

ReadLine(s) ==
  /\ tx[s].step = "requestRead"
  /\ tx' = [tx EXCEPT ![s].step = "lineRead", ![s].seen = LineRow(tx[s].line)]
  /\ UNCHANGED <<ledger, requestLock, lineLock>>

\* Fault: the request alone is compared with the contract.
ApprovalFitsAlone(s) == tx[s].seen.contract # 0 /\ tx[s].amount <= tx[s].seen.contract

\* Fault: the cached total is trusted instead of the aggregate.
ApprovalFitsCached(s) ==
  /\ tx[s].seen.contract # 0
  /\ totals[tx[s].line].totalApprovedAmount + tx[s].amount <= tx[s].seen.contract

\* handleApproval up to the check against the contract it has read.
ApprovalFits(s) ==
  /\ tx[s].seen.contract # 0
  /\ getApprovedAggregate(fundRequest, tx[s].line, tx[s].request) + tx[s].amount
       <= tx[s].seen.contract

CheckApproval(s) ==
  /\ At(s, "lineRead", {"approve"})
  /\ ApprovalFits(s)
  /\ GoTo(s, "checked")
  /\ UNCHANGED <<ledger, requestLock, lineLock>>

\* approveFundRequest and rejectFundRequest: an UPDATE by id alone.
WriteRequest(s) ==
  /\ At(s, "checked", {"approve"}) \/ At(s, "lineRead", {"reject"})
  /\ requestLock[tx[s].request] = None
  /\ requestLock' = [requestLock EXCEPT ![tx[s].request] = s]
  /\ GoTo(s, "requestWritten")
  /\ UNCHANGED <<ledger, lineLock>>

\* Fault: the UPDATE matches by id alone.
ApprovedIgnored(s) == TRUE

\* updatePOLineBalances: the UPDATE matches only if the approved total is
\* still the one read at the start.
ApprovedUnchanged(s) == totals[tx[s].line].totalApprovedAmount = tx[s].seen.approved

WriteLineApproved(s) ==
  /\ At(s, "requestWritten", {"approve"})
  /\ ApprovedUnchanged(s)
  /\ LockLine(s, "lineWritten")

\* Fault: a rejection does not touch the line before it reconciles it.
WriteLineRejectedUnlocked(s) ==
  /\ At(s, "requestWritten", {"reject"})
  /\ GoTo(s, "lineWritten")
  /\ UNCHANGED <<ledger, requestLock, lineLock>>

\* updatePOLineRejectedAmountIncrement.
WriteLineRejected(s) ==
  /\ At(s, "requestWritten", {"reject"})
  /\ LockLine(s, "lineWritten")

\* Fault: a line that already has a contract is accepted.
SetupAgain(s) == tx[s].amount > 0

\* handleContractSetup: the checks on the row as read, then the UPDATE by id.
SetupAllowed(s) == tx[s].seen.contract = 0 /\ tx[s].amount > 0

WriteLineContract(s) ==
  /\ At(s, "lineRead", {"setup"})
  /\ SetupAllowed(s)
  /\ LockLine(s, "lineWritten")

\* Fault: the reconciliation does not see the contract written before it.
ReadContractCommitted(s) ==
  /\ tx[s].step = "lineWritten"
  /\ tx' = [tx EXCEPT ![s].step = "contractRead",
                      ![s].seen.contract = contractAmount[tx[s].line]]
  /\ UNCHANGED <<ledger, requestLock, lineLock>>

\* reconcilePoLineFinancials: the contract, then the sums of the requests.
ReadContract(s) ==
  /\ tx[s].step = "lineWritten"
  /\ tx' = [tx EXCEPT ![s].step = "contractRead", ![s].seen.contract = ContractSeenBy(s)]
  /\ UNCHANGED <<ledger, requestLock, lineLock>>

ReadSums(s) ==
  /\ tx[s].step = "contractRead"
  /\ tx' = [tx EXCEPT ![s].step = "reconciled",
                      ![s].result = computeFinancials(RowsSeenBy(s), tx[s].line,
                                                      tx[s].seen.contract)]
  /\ UNCHANGED <<ledger, requestLock, lineLock>>

-----------------------------------------------------------------------------
(* createFundRequest and createAmendment, Serializable.                    *)

\* Every read, those of the reconciliation included, comes from this state.
\* The new row is inserted before the line is written; nobody else sees it.
BeginCreate(s, r, l, amount) ==
  /\ tx[s].step = "idle"
  /\ "create" \in Operations[s]
  /\ fundRequest[r].status = "NONE" /\ requestLock[r] = None
  /\ amount > 0
  /\ FitsContract(fundRequest, l, contractAmount[l], amount)
  /\ requestLock' = [requestLock EXCEPT ![r] = s]
  /\ tx' = [tx EXCEPT ![s] =
              [NoTx EXCEPT !.step = "snapshot", !.kind = "create",
                           !.request = r, !.line = l, !.amount = amount,
                           !.seen = LineRow(l),
                           !.result = computeFinancials(Inserted(fundRequest, r, l, amount),
                                                        l, contractAmount[l])]]
  /\ UNCHANGED <<ledger, lineLock>>

BeginAmend(s, l, amount) ==
  /\ tx[s].step = "idle"
  /\ "amend" \in Operations[s]
  /\ amount > 0
  /\ contractAmount[l] # 0
  /\ Len(amendments[l]) < MaxAmendments
  /\ tx' = [tx EXCEPT ![s] =
              [NoTx EXCEPT !.step = "snapshot", !.kind = "amend",
                           !.line = l, !.amount = amount, !.seen = LineRow(l),
                           !.result = computeFinancials(fundRequest, l, amount)]]
  /\ UNCHANGED <<ledger, requestLock, lineLock>>

\* Fault: the isolation level of createFundRequest lets it update a newer row.
WriteLineCreatedBlind(s) ==
  /\ At(s, "snapshot", {"create"})
  /\ LockLine(s, "reconciled")

\* The line row must not have been updated since the snapshot.
WriteLineCreated(s) ==
  /\ At(s, "snapshot", {"create"})
  /\ ~ tx[s].stale
  /\ LockLine(s, "reconciled")

\* Fault: an amendment below the approved total is accepted.
AmendmentOfAnyAmount(s) == tx[s].seen.version = Len(amendments[tx[s].line])

\* The new contract must cover the approved total, and the version must match.
AmendmentAllowed(s) ==
  /\ tx[s].result.totalApprovedAmount <= tx[s].amount
  /\ tx[s].seen.version = Len(amendments[tx[s].line])

WriteLineAmended(s) ==
  /\ At(s, "snapshot", {"amend"})
  /\ ~ tx[s].stale
  /\ AmendmentAllowed(s)
  /\ LockLine(s, "reconciled")

-----------------------------------------------------------------------------
(* The end of a transaction.                                               *)

\* Once s has committed a new version of line l, the snapshots others hold
\* of that line are too old to update it.
Outdate(s, l) ==
  [u \in Sessions |->
     IF u = s THEN NoTx
     ELSE IF tx[u].step = "snapshot" /\ tx[u].line = l THEN [tx[u] EXCEPT !.stale = TRUE]
     ELSE tx[u]]

Unlocked(lock, s) == [x \in DOMAIN lock |-> IF lock[x] = s THEN None ELSE lock[x]]

Commit(s) ==
  LET l == tx[s].line IN
  /\ tx[s].step = "reconciled"
  /\ fundRequest' = RowsSeenBy(s)
  /\ contractAmount' = [contractAmount EXCEPT ![l] = ContractSeenBy(s)]
  /\ totals' = [totals EXCEPT ![l] = tx[s].result]
  /\ amendments' = IF tx[s].kind = "amend"
                   THEN [amendments EXCEPT ![l] =
                           Append(@, [oldAmount |-> tx[s].seen.contract,
                                      newAmount |-> tx[s].amount])]
                   ELSE amendments
  /\ tx' = Outdate(s, l)
  /\ requestLock' = Unlocked(requestLock, s)
  /\ lineLock' = Unlocked(lineLock, s)

Rollback(s) ==
  /\ tx' = [tx EXCEPT ![s] = NoTx]
  /\ requestLock' = Unlocked(requestLock, s)
  /\ lineLock' = Unlocked(lineLock, s)
  /\ UNCHANGED ledger

\* Fault: a serialization failure is not reported to the transaction.
ThrowChecks(s) ==
  /\ \/ At(s, "lineRead", {"approve"}) /\ ~ ApprovalFits(s)
     \/ At(s, "lineRead", {"setup"}) /\ ~ SetupAllowed(s)
     \/ At(s, "requestWritten", {"approve"}) /\ ~ ApprovedUnchanged(s)
     \/ At(s, "snapshot", {"amend"}) /\ ~ AmendmentAllowed(s)
  /\ Rollback(s)

\* A check of the service or of PostgreSQL fails and the exception rolls back.
Throw(s) ==
  /\ \/ At(s, "lineRead", {"approve"}) /\ ~ ApprovalFits(s)
     \/ At(s, "lineRead", {"setup"}) /\ ~ SetupAllowed(s)
     \/ At(s, "requestWritten", {"approve"}) /\ ~ ApprovedUnchanged(s)
     \/ tx[s].step = "snapshot" /\ tx[s].stale
     \/ At(s, "snapshot", {"amend"}) /\ ~ AmendmentAllowed(s)
  /\ Rollback(s)

\* The transaction times out, its connection or the process is lost, or
\* PostgreSQL cancels it: possible at any statement.
Abort(s) == tx[s].step # "idle" /\ Rollback(s)

-----------------------------------------------------------------------------
Begin(s) ==
  \/ \E r \in Requests :
       \/ \E amount \in Overrides \cup {fundRequest[r].amount} :
            ReadRequest(s, "approve", r, amount)
       \/ ReadRequest(s, "reject", r, fundRequest[r].amount)
       \/ \E amount \in Contracts : ReadRequest(s, "setup", r, amount)
       \/ \E l \in Lines, amount \in Amounts : BeginCreate(s, r, l, amount)
  \/ \E l \in Lines, amount \in Contracts : BeginAmend(s, l, amount)

LockSteps(s) ==
  \/ WriteRequest(s)
  \/ WriteLineApproved(s)
  \/ WriteLineRejected(s)
  \/ WriteLineContract(s)
  \/ WriteLineCreated(s)
  \/ WriteLineAmended(s)

ReadSteps(s) ==
  \/ ReadLine(s)
  \/ CheckApproval(s)
  \/ ReadContract(s)
  \/ ReadSums(s)

Next ==
  \E s \in Sessions : Begin(s) \/ ReadSteps(s) \/ LockSteps(s) \/ Commit(s) \/ Throw(s) \/ Abort(s)

Spec == Init /\ [][Next]_vars

\* The Node process runs every pending continuation, and PostgreSQL queues
\* the waiters of a row, so a lock that keeps becoming free is granted.
\* Nothing obliges a user to begin, or a failure to happen.
Fairness ==
  \A s \in Sessions : /\ WF_vars(ReadSteps(s) \/ Commit(s) \/ Throw(s))
                      /\ SF_vars(LockSteps(s))

FairSpec == Spec /\ Fairness

\* Row locks never leave two operations waiting for each other: every
\* transaction that is begun ends, without the help of a timeout.
EveryTransactionEnds ==
  \A s \in Sessions : tx[s].step # "idle" ~> tx[s].step = "idle"

\* With one admin session the transactions implement the atomic operations.
Atomic == INSTANCE FundApproval
ImplementsFundApproval == Atomic!Spec
=============================================================================
