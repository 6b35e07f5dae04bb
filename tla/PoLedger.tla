------------------------------ MODULE PoLedger ------------------------------
(***************************************************************************)
(* The committed content of the fund ledger: the fund_request,             *)
(* purchase_order_line and contract_amendment tables as every transaction  *)
(* that begins now would read them, the arithmetic the services apply to   *)
(* them, and the properties the ledger owes its users.  The module has no  *)
(* actions: FundApproval states what each operation does as one atomic     *)
(* step, FundLedger how the services do it statement by statement.         *)
(*                                                                         *)
(* Only the columns the approval rules read or write are kept.  Money is a *)
(* natural number (Decimal(15,2) in the schema, no rounding occurs).  A    *)
(* contractAmount of 0 stands for NULL: both code paths that set a         *)
(* contract refuse amounts <= 0.  A line row that nobody has created is    *)
(* the same as a line with no request and no contract.                     *)
(*                                                                         *)
(* A definition introduced by "Fault:" is a plausible bug.  It takes no    *)
(* part in the specification; put in the place of the definition it is a   *)
(* variant of, it makes a property below fail.                             *)
(***************************************************************************)
EXTENDS Integers, Sequences, FiniteSets, Functions

CONSTANTS
  Lines,         \* purchase order lines
  Requests,      \* identities of fund requests, used or not
  Sessions,      \* HTTP requests in progress; each acts for one user
  Amounts,       \* requestedAmount of a new request
  Overrides,     \* updatedRequestedAmount an approver may pass
  Contracts,     \* contract amounts an admin may set or amend to
  MaxAmendments, \* bound: amendments explored per line
  None           \* "no line", "no request", "nobody"

ASSUME LedgerAssumption ==
  /\ IsFiniteSet(Requests)
  /\ None \notin Lines \cup Requests \cup Sessions
  /\ Amounts \subseteq Nat
  /\ Overrides \subseteq Nat
  /\ Contracts \subseteq Nat
  /\ MaxAmendments \in Nat

VARIABLES
  fundRequest,     \* [Requests -> row], "NONE" until the row is inserted
  contractAmount,  \* purchase_order_line.contractAmount, 0 for NULL
  totals,          \* the cached columns of purchase_order_line
  amendments       \* contract_amendment rows of a line, oldest first

ledger == <<fundRequest, contractAmount, totals, amendments>>

Statuses == {"NONE", "PENDING", "APPROVED", "REJECTED"}

RequestRows == [status : Statuses, amount : Nat,
                line : Lines \cup {None}, decidedBy : Sessions \cup {None}]

NoRow == [status |-> "NONE", amount |-> 0, line |-> None, decidedBy |-> None]

Financials == [totalApprovedAmount : Nat, totalRequestedAmount : Nat,
               totalRejectedAmount : Nat, remainingBalance : Int]

AmendmentRows == [oldAmount : Nat, newAmount : Nat]

LedgerTypeOK ==
  /\ fundRequest \in [Requests -> RequestRows]
  /\ contractAmount \in [Lines -> Nat]
  /\ totals \in [Lines -> Financials]
  /\ amendments \in [Lines -> Seq(AmendmentRows)]

ZeroTotals == [totalApprovedAmount |-> 0, totalRequestedAmount |-> 0,
               totalRejectedAmount |-> 0, remainingBalance |-> 0]

LedgerInit ==
  /\ fundRequest = [r \in Requests |-> NoRow]
  /\ contractAmount = [l \in Lines |-> 0]
  /\ totals = [l \in Lines |-> ZeroTotals]
  /\ amendments = [l \in Lines |-> << >>]

-----------------------------------------------------------------------------
(* Aggregates over the fund_request table `rows`.                          *)

\* What each request contributes to an aggregate over line l.
Counted(rows, l, statuses, skipped) ==
  [r \in Requests |->
     IF /\ rows[r].line = l
        /\ rows[r].status \in statuses
        /\ r \notin skipped
     THEN rows[r].amount ELSE 0]

\* SUM(requestedAmount) WHERE line = l AND status IN statuses AND id NOT IN skipped.
SumRequested(rows, l, statuses, skipped) ==
  SumFunction(Counted(rows, l, statuses, skipped))

\* The approved total the approval check compares with the contract.
getApprovedAggregate(rows, l, r) == SumRequested(rows, l, {"APPROVED"}, {r})

\* Fault: the approved sum is subtracted from the pending one, not added.
computeFinancialsNet(rows, l, contract) ==
  LET approved == SumRequested(rows, l, {"APPROVED"}, {}) IN
  [totalApprovedAmount  |-> approved,
   totalRequestedAmount |-> SumRequested(rows, l, {"PENDING"}, {}) - approved,
   totalRejectedAmount  |-> SumRequested(rows, l, {"REJECTED"}, {}),
   remainingBalance     |-> contract - approved]

\* The one reconciliation formula, from the four group-by sums of a line.
computeFinancials(rows, l, contract) ==
  LET approved == SumRequested(rows, l, {"APPROVED"}, {}) IN
  [totalApprovedAmount  |-> approved,
   totalRequestedAmount |-> SumRequested(rows, l, {"PENDING"}, {}) + approved,
   totalRejectedAmount  |-> SumRequested(rows, l, {"REJECTED"}, {}),
   remainingBalance     |-> contract - approved]

\* Step 3 of createFundRequest: without a contract anything may be asked for.
FitsContract(rows, l, contract, amount) ==
  \/ contract = 0
  \/ SumRequested(rows, l, {"PENDING", "APPROVED"}, {}) + amount <= contract

\* The fund_request table after each kind of write.
Inserted(rows, r, l, amount) ==
  [rows EXCEPT ![r] = [status |-> "PENDING", amount |-> amount,
                       line |-> l, decidedBy |-> None]]

Approved(rows, r, amount, s) ==
  [rows EXCEPT ![r] = [@ EXCEPT !.status = "APPROVED", !.amount = amount, !.decidedBy = s]]

Rejected(rows, r, s) ==
  [rows EXCEPT ![r] = [@ EXCEPT !.status = "REJECTED", !.decidedBy = s]]

-----------------------------------------------------------------------------
(* What the ledger owes its users.                                         *)

\* The cached columns a page reads are the aggregates of the requests and
\* the contract of the same database state (po-line-financial.service.ts).
TotalsAgree ==
  \A l \in Lines : totals[l] = computeFinancials(fundRequest, l, contractAmount[l])

\* The money approved on a line never exceeds the line's contract, whatever
\* approvals, amendments and set-ups were in progress together.
ApprovedWithinContract ==
  \A l \in Lines : SumRequested(fundRequest, l, {"APPROVED"}, {}) <= contractAmount[l]

\* "Enforces one-way irreversible state transitions": a decided request
\* keeps its status, its amount and the admin who decided it for ever.
DecisionsFinal ==
  [][\A r \in Requests : fundRequest[r].status \in {"APPROVED", "REJECTED"}
                           => fundRequest'[r] = fundRequest[r]]_ledger

\* A contract, once set, changes only together with an amendment row that
\* records the amount it replaced and the amount it became.
ContractAudited ==
  [][\A l \in Lines :
       contractAmount[l] # 0 /\ contractAmount'[l] # contractAmount[l]
         => amendments'[l] = Append(amendments[l], [oldAmount |-> contractAmount[l],
                                                    newAmount |-> contractAmount'[l]])]_ledger

\* A request enters a line with a contract only if, with every request
\* pending or approved at the moment it becomes visible, it still fits.
CreateWithinContract ==
  [][\A r \in Requests :
       fundRequest[r].status = "NONE" /\ fundRequest'[r].status # "NONE"
         => LET l == fundRequest'[r].line IN
            FitsContract(fundRequest, l, contractAmount[l], fundRequest'[r].amount)]_ledger

\* No amendment takes the contract below what is approved on the line when
\* the amendment becomes visible ("Safety Violation" otherwise).
AmendmentCoversApproved ==
  [][\A l \in Lines :
       amendments'[l] # amendments[l]
         => SumRequested(fundRequest, l, {"APPROVED"}, {}) <= contractAmount'[l]]_ledger
=============================================================================
