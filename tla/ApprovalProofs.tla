--------------------------- MODULE ApprovalProofs ---------------------------
(***************************************************************************)
(* What FundLedger guarantees of approvals, by who acts as an admin.       *)
(*                                                                         *)
(* With one session at a time, whatever the other sessions create          *)
(* meanwhile: the rules that the runs of MCFundLedger show broken by two   *)
(* admins, and that the interleaved transactions implement the atomic      *)
(* operations of FundApproval: the commit of a transaction is the one step *)
(* the operation promises, every other step leaves the ledger alone.       *)
(*                                                                         *)
(* With any number of them: the contract is kept as long as nobody amends  *)
(* it, one session sets it up, and no approval is taken back or replaced.  *)
(***************************************************************************)
EXTENDS FundLedgerProofs

SoleAdmin ==
  \A s, u \in Sessions :
    Operations[s] \cap AdminOperations # {} /\ Operations[u] \cap AdminOperations # {} => s = u

\* The approval session s is about to write still satisfies its check.
Admissible(s) ==
  LET t == tx[s] IN
  /\ contractAmount[t.line] # 0
  /\ getApprovedAggregate(fundRequest, t.line, t.request) + t.amount <= contractAmount[t.line]

\* Everything an admin session has read or checked is still true.
AdminKnows(s) ==
  LET t == tx[s] IN
  /\ t.kind \in {"approve", "reject", "setup"} => fundRequest[t.request].status = "PENDING"
  /\ t.step = "lineRead" => t.seen.contract = contractAmount[t.line]
  /\ t.kind = "approve" => t.step \in {"requestRead", "lineRead"} \/ Admissible(s)
  /\ t.kind = "setup" => \/ t.step \in {"requestRead", "lineRead"}
                         \/ contractAmount[t.line] = 0 /\ t.amount > 0

Sole ==
  /\ Consistent
  /\ ApprovedWithinContract
  /\ \A s \in Sessions : AdminKnows(s)

\* Before anything has happened nothing is approved.
LEMMA InitSole == Init => Sole
<1>. SUFFICES ASSUME Init PROVE Sole
  OBVIOUS
<1>1. Consistent
  BY InitConsistent
<1>2. ApprovedWithinContract
  <2>. SUFFICES ASSUME NEW l \in Lines
                PROVE  SumRequested(fundRequest, l, {"APPROVED"}, {}) <= contractAmount[l]
    BY DEF ApprovedWithinContract
  <2>1. computeFinancials(fundRequest, l, 0) = ZeroTotals /\ contractAmount[l] = 0
    BY EmptyFinancials DEF Init, LedgerInit
  <2>. QED BY <2>1 DEF computeFinancials, ZeroTotals
<1>3. \A s \in Sessions : AdminKnows(s)
  BY DEF Init, AdminKnows, NoTx
<1>. QED BY <1>1, <1>2, <1>3 DEF Sole

\* A step inside a transaction leaves what the others know untouched.
LEMMA LocalStepKnows ==
  ASSUME Sole, NEW s \in Sessions, UNCHANGED ledger,
         NEW t, tx' = [tx EXCEPT ![s] = t], AdminKnows(s)'
  PROVE  ApprovedWithinContract' /\ \A u \in Sessions : AdminKnows(u)'
<1>1. fundRequest' = fundRequest /\ contractAmount' = contractAmount
  BY DEF ledger
<1>2. ApprovedWithinContract'
  BY <1>1 DEF Sole, ApprovedWithinContract
<1>3. ASSUME NEW u \in Sessions, u # s
      PROVE  AdminKnows(u)'
  <2>1. tx'[u] = tx[u]
    BY <1>3 DEF Sole, Consistent, Shape, Typed
  <2>. QED BY <1>1, <2>1 DEF Sole, AdminKnows, Admissible
<1>. QED BY <1>2, <1>3

\* The reads that begin an operation are true when they are made.
LEMMA BeginKnows ==
  ASSUME Sole, NEW s \in Sessions, Begin(s)
  PROVE  ApprovedWithinContract' /\ \A u \in Sessions : AdminKnows(u)'
<1>. USE DEF Sole, Consistent, Shape, Typed
<1>1. ASSUME NEW r \in Requests, NEW kind, NEW amount, ReadRequest(s, kind, r, amount)
      PROVE  ApprovedWithinContract' /\ \A u \in Sessions : AdminKnows(u)'
  <2>1. tx'[s].step = "requestRead" /\ tx'[s].request = r /\ fundRequest'[r].status = "PENDING"
    BY <1>1 DEF ReadRequest, NoTx, ledger
  <2>2. AdminKnows(s)'
    BY <2>1 DEF AdminKnows
  <2>. QED BY <1>1, <2>2, LocalStepKnows DEF ReadRequest
<1>2. ASSUME NEW r \in Requests, NEW l \in Lines, NEW amount \in Amounts,
             BeginCreate(s, r, l, amount)
      PROVE  ApprovedWithinContract' /\ \A u \in Sessions : AdminKnows(u)'
  <2>1. tx'[s].step = "snapshot" /\ tx'[s].kind = "create"
    BY <1>2 DEF BeginCreate, NoTx
  <2>2. AdminKnows(s)'
    BY <2>1 DEF AdminKnows
  <2>. QED BY <1>2, <2>2, LocalStepKnows DEF BeginCreate
<1>3. ASSUME NEW l \in Lines, NEW amount \in Contracts, BeginAmend(s, l, amount)
      PROVE  ApprovedWithinContract' /\ \A u \in Sessions : AdminKnows(u)'
  <2>1. tx'[s].step = "snapshot" /\ tx'[s].kind = "amend"
    BY <1>3 DEF BeginAmend, NoTx
  <2>2. AdminKnows(s)'
    BY <2>1 DEF AdminKnows
  <2>. QED BY <1>3, <2>2, LocalStepKnows DEF BeginAmend
<1>. QED BY <1>1, <1>2, <1>3 DEF Begin

\* A check of the service turns what was read into what the write relies on.
LEMMA InnerStepKnows ==
  ASSUME Sole, NEW s \in Sessions, ReadSteps(s) \/ LockSteps(s)
  PROVE  ApprovedWithinContract' /\ \A u \in Sessions : AdminKnows(u)'
<1>. USE DEF Sole, Consistent, Shape, Typed
<1>. DEFINE moved(step) == /\ tx'[s].step = step /\ tx'[s].kind = tx[s].kind
                           /\ tx'[s].request = tx[s].request /\ tx'[s].line = tx[s].line
                           /\ tx'[s].amount = tx[s].amount
<1>1. tx[s] \in Transactions /\ TxWellFormed(s) /\ AdminKnows(s)
  OBVIOUS
<1>2. ASSUME NEW step, GoTo(s, step), UNCHANGED ledger
      PROVE  moved(step) /\ fundRequest' = fundRequest /\ contractAmount' = contractAmount
  BY <1>1, <1>2 DEF GoTo, Transactions, ledger
<1>3. ASSUME UNCHANGED ledger, NEW t, tx' = [tx EXCEPT ![s] = t], AdminKnows(s)'
      PROVE  ApprovedWithinContract' /\ \A u \in Sessions : AdminKnows(u)'
  BY <1>3, LocalStepKnows
<1>4. CASE ReadLine(s)
  <2>1. /\ moved("lineRead") /\ fundRequest' = fundRequest /\ contractAmount' = contractAmount
        /\ tx'[s].seen.contract = contractAmount[tx[s].line]
    BY <1>1, <1>4 DEF ReadLine, Transactions, LineRow, ledger
  <2>2. AdminKnows(s)'
    BY <1>1, <2>1 DEF AdminKnows
  <2>. QED BY <1>3, <1>4, <2>2 DEF ReadLine
<1>5. CASE CheckApproval(s)
  <2>1. moved("checked") /\ fundRequest' = fundRequest /\ contractAmount' = contractAmount
    BY <1>2, <1>5 DEF CheckApproval
  <2>2. tx[s].seen.contract = contractAmount[tx[s].line] /\ tx[s].kind = "approve"
    BY <1>1, <1>5 DEF CheckApproval, At, AdminKnows
  <2>3. Admissible(s)
    BY <1>5, <2>2 DEF CheckApproval, ApprovalFits, Admissible
  <2>4. AdminKnows(s)'
    BY <1>1, <2>1, <2>2, <2>3 DEF AdminKnows, Admissible
  <2>. QED BY <1>3, <1>5, <2>4 DEF CheckApproval, GoTo
<1>6. CASE ReadContract(s) \/ ReadSums(s)
  <2>1. \E step \in {"contractRead", "reconciled"} : moved(step)
    BY <1>1, <1>6 DEF ReadContract, ReadSums, Transactions
  <2>2. /\ fundRequest' = fundRequest /\ contractAmount' = contractAmount
        /\ tx[s].step \in {"lineWritten", "contractRead"}
    BY <1>6 DEF ReadContract, ReadSums, ledger
  <2>3. AdminKnows(s)'
    BY <1>1, <2>1, <2>2 DEF AdminKnows, Admissible
  <2>. QED BY <1>3, <1>6, <2>3 DEF ReadContract, ReadSums
<1>7. CASE WriteRequest(s)
  <2>1. /\ moved("requestWritten") /\ fundRequest' = fundRequest /\ contractAmount' = contractAmount
        /\ (tx[s].kind = "approve" /\ tx[s].step = "checked") \/ tx[s].kind = "reject"
    BY <1>2, <1>7 DEF WriteRequest, At
  <2>2. AdminKnows(s)'
    BY <1>1, <2>1 DEF AdminKnows, Admissible
  <2>. QED BY <1>3, <1>7, <2>2 DEF WriteRequest, GoTo
<1>8. CASE WriteLineApproved(s) \/ WriteLineRejected(s)
  <2>1. /\ moved("lineWritten") /\ fundRequest' = fundRequest /\ contractAmount' = contractAmount
        /\ tx[s].step = "requestWritten" /\ tx[s].kind \in {"approve", "reject"}
    BY <1>2, <1>8 DEF WriteLineApproved, WriteLineRejected, LockLine, At
  <2>2. AdminKnows(s)'
    BY <1>1, <2>1 DEF AdminKnows, Admissible
  <2>. QED BY <1>3, <1>8, <2>2 DEF WriteLineApproved, WriteLineRejected, LockLine, GoTo
<1>9. CASE WriteLineContract(s)
  <2>1. /\ moved("lineWritten") /\ fundRequest' = fundRequest /\ contractAmount' = contractAmount
        /\ tx[s].step = "lineRead" /\ tx[s].kind = "setup" /\ SetupAllowed(s)
    BY <1>2, <1>9 DEF WriteLineContract, LockLine, At
  <2>2. AdminKnows(s)'
    BY <1>1, <2>1 DEF AdminKnows, SetupAllowed
  <2>. QED BY <1>3, <1>9, <2>2 DEF WriteLineContract, LockLine, GoTo
<1>10. CASE WriteLineCreated(s) \/ WriteLineAmended(s)
  <2>1. /\ moved("reconciled") /\ fundRequest' = fundRequest /\ contractAmount' = contractAmount
        /\ tx[s].kind \in {"create", "amend"}
    BY <1>2, <1>10 DEF WriteLineCreated, WriteLineAmended, LockLine, At
  <2>2. AdminKnows(s)'
    BY <1>1, <2>1 DEF AdminKnows
  <2>. QED BY <1>3, <1>10, <2>2 DEF WriteLineCreated, WriteLineAmended, LockLine, GoTo
<1>. QED BY <1>4, <1>5, <1>6, <1>7, <1>8, <1>9, <1>10 DEF ReadSteps, LockSteps

\* An abandoned transaction leaves no trace.
LEMMA RollbackKnows ==
  ASSUME Sole, NEW s \in Sessions, Rollback(s)
  PROVE  ApprovedWithinContract' /\ \A u \in Sessions : AdminKnows(u)'
<1>1. AdminKnows(s)'
  BY DEF Sole, Consistent, Shape, Typed, Rollback, NoTx, AdminKnows
<1>. QED BY <1>1, LocalStepKnows DEF Rollback

-----------------------------------------------------------------------------
(* The commit of each operation.                                           *)

\* Approving a request adds its amount to what the others have approved.
LEMMA ApprovedSum ==
  ASSUME NEW rows \in [Requests -> RequestRows], NEW r \in Requests, NEW amount \in Nat, NEW s,
         Approved(rows, r, amount, s) \in [Requests -> RequestRows]
  PROVE  SumRequested(Approved(rows, r, amount, s), rows[r].line, {"APPROVED"}, {})
           = getApprovedAggregate(rows, rows[r].line, r) + amount
<1>. DEFINE l == rows[r].line
            new == Approved(rows, r, amount, s)
            f == Counted(rows, l, {"APPROVED"}, {r})
            g == Counted(new, l, {"APPROVED"}, {})
<1>1. new[r] = [rows[r] EXCEPT !.status = "APPROVED", !.amount = amount, !.decidedBy = s]
  BY DEF Approved
<1>2. \A q \in Requests \ {r} : new[q] = rows[q]
  BY DEF Approved
<1>3. new[r].status = "APPROVED" /\ new[r].amount = amount /\ new[r].line = l
  BY <1>1 DEF RequestRows
<1>. HIDE DEF new
<1>4. f \in [Requests -> Nat] /\ g \in [Requests -> Nat]
  BY DEF Counted, RequestRows, new
<1>5. f[r] = 0 /\ g[r] = amount
  BY <1>3 DEF Counted
<1>6. \A q \in Requests \ {r} : g[q] = f[q]
  BY <1>2 DEF Counted
<1>7. /\ SumFunction(g) + f[r] = SumFunction(f) + g[r]
      /\ SumFunction(f) \in Nat /\ SumFunction(g) \in Nat
  <2>. HIDE DEF f, g
  <2>. QED BY <1>4, <1>6, SumChange, LedgerAssumption
<1>8. SumFunction(g) = SumFunction(f) + amount
  <2>. HIDE DEF f, g
  <2>. QED BY <1>5, <1>7
<1>. QED BY <1>8 DEF SumRequested, getApprovedAggregate, new

\* The tables differ only in requests that are approved in neither.
SameApprovals(rows, rows2) ==
  \A q \in Requests : \/ rows2[q] = rows[q]
                      \/ rows[q].status # "APPROVED" /\ rows2[q].status # "APPROVED"

\* Such tables have the same approved totals.
LEMMA SameApproved ==
  ASSUME NEW rows, NEW rows2, NEW l, NEW skipped, SameApprovals(rows, rows2)
  PROVE  SumRequested(rows2, l, {"APPROVED"}, skipped) = SumRequested(rows, l, {"APPROVED"}, skipped)
<1>1. Counted(rows2, l, {"APPROVED"}, skipped) = Counted(rows, l, {"APPROVED"}, skipped)
  BY DEF Counted, SameApprovals
<1>. QED BY <1>1 DEF SumRequested

\* What a session that is about to commit has to know of its line.
Justified(s) ==
  LET t == tx[s] IN
  /\ t.kind = "approve" => Admissible(s)
  /\ t.kind = "reject" => fundRequest[t.request].status # "APPROVED"
  /\ t.kind = "setup" => contractAmount[t.line] = 0 /\ t.amount > 0

\* A sole admin knows it.
LEMMA KnownIsJustified ==
  ASSUME Sole, NEW s \in Sessions, Commit(s)
  PROVE  Justified(s)
BY DEF Sole, AdminKnows, Justified, Commit

\* A commit that approves nothing keeps the approved total of every line.
LEMMA NothingApproved ==
  ASSUME Consistent, NEW s \in Sessions, Commit(s), Justified(s), tx[s].kind # "approve"
  PROVE  /\ SameApprovals(fundRequest, fundRequest')
         /\ \A l \in Lines : SumRequested(fundRequest', l, {"APPROVED"}, {})
                              = SumRequested(fundRequest, l, {"APPROVED"}, {})
<1>. USE DEF Consistent, Shape, Typed, LedgerTypeOK
<1>1. fundRequest' = RowsSeenBy(s) /\ TxWellFormed(s) /\ Justified(s)
  BY DEF Commit
<1>2. ASSUME NEW q \in Requests, fundRequest'[q] # fundRequest[q]
      PROVE  fundRequest[q].status # "APPROVED" /\ fundRequest'[q].status # "APPROVED"
  <2>1. q = tx[s].request /\ tx[s].kind \in {"create", "reject"}
    BY <1>2, CommitChangesOneLine DEF OneLineChanged, HoldsRequest
  <2>2. CASE tx[s].kind = "create"
    BY <1>1, <2>1, <2>2 DEF RowsSeenBy, Inserted, TxWellFormed
  <2>3. CASE tx[s].kind = "reject"
    <3>1. fundRequest' = Rejected(fundRequest, q, s) /\ fundRequest[q].status # "APPROVED"
      BY <1>1, <2>1, <2>3 DEF RowsSeenBy, Justified
    <3>2. fundRequest'[q].status = "REJECTED"
      BY <3>1 DEF Rejected, RequestRows
    <3>. QED BY <3>1, <3>2
  <2>. QED BY <2>1, <2>2, <2>3
<1>3. SameApprovals(fundRequest, fundRequest')
  BY <1>2 DEF SameApprovals
<1>4. \A l \in Lines : SumRequested(fundRequest', l, {"APPROVED"}, {})
                     = SumRequested(fundRequest, l, {"APPROVED"}, {})
  BY <1>3, SameApproved
<1>. QED BY <1>3, <1>4

\* The approved total of every line stays within its contract.
LEMMA CommitWithinContract ==
  ASSUME Consistent, ApprovedWithinContract, NEW s \in Sessions, Commit(s), Justified(s)
  PROVE  ApprovedWithinContract'
<1>. USE DEF Consistent, Shape
<1>. DEFINE line == tx[s].line
<1>1. /\ OneLineChanged(s) /\ TxWellFormed(s)
      /\ fundRequest' = RowsSeenBy(s) /\ contractAmount'[line] = ContractSeenBy(s)
      /\ tx[s].step = "reconciled" /\ tx[s].kind \in Kinds \ {"none"} /\ tx[s].amount \in Nat
      /\ contractAmount \in [Lines -> Nat] /\ fundRequest \in [Requests -> RequestRows]
  BY CommitChangesOneLine DEF Commit, TxWellFormed, OneLineChanged, Typed, LedgerTypeOK, Transactions
<1>2. ASSUME NEW l \in Lines, l # line
      PROVE  SumRequested(fundRequest', l, {"APPROVED"}, {}) <= contractAmount'[l]
  <2>1. \A q \in Requests : \/ fundRequest'[q] = fundRequest[q]
                            \/ fundRequest[q].line # l /\ fundRequest'[q].line # l
    BY <1>1, <1>2, LedgerAssumption DEF OneLineChanged
  <2>2. SumRequested(fundRequest', l, {"APPROVED"}, {}) = SumRequested(fundRequest, l, {"APPROVED"}, {})
    BY <2>1, SameLineSameSum
  <2>3. contractAmount'[l] = contractAmount[l]
    BY <1>1, <1>2 DEF OneLineChanged
  <2>. QED BY <2>2, <2>3 DEF ApprovedWithinContract
<1>3. SumRequested(fundRequest', line, {"APPROVED"}, {}) <= contractAmount'[line]
  <2>1. CASE tx[s].kind = "approve"
    <3>. DEFINE r == tx[s].request
    <3>1. /\ r \in Requests /\ fundRequest[r].line = line
          /\ fundRequest' = Approved(fundRequest, r, tx[s].amount, s)
          /\ contractAmount'[line] = contractAmount[line] /\ Admissible(s)
      BY <1>1, <2>1 DEF TxWellFormed, RowsSeenBy, ContractSeenBy, Justified
    <3>2. fundRequest' \in [Requests -> RequestRows]
      BY CommitShape DEF Typed, LedgerTypeOK
    <3>3. SumRequested(fundRequest', line, {"APPROVED"}, {})
            = getApprovedAggregate(fundRequest, line, r) + tx[s].amount
      BY <1>1, <3>1, <3>2, ApprovedSum
    <3>. QED BY <3>1, <3>3 DEF Admissible
  <2>2. CASE tx[s].kind # "approve"
    <3>1. SumRequested(fundRequest', line, {"APPROVED"}, {})
            = SumRequested(fundRequest, line, {"APPROVED"}, {})
      BY <1>1, <2>2, NothingApproved DEF OneLineChanged
    <3>2. SumRequested(fundRequest, line, {"APPROVED"}, {}) \in Nat
      BY <1>1, SumRequestedNat
    <3>3. CASE tx[s].kind \in {"create", "reject"}
      BY <1>1, <3>1, <3>3 DEF ContractSeenBy, ApprovedWithinContract, OneLineChanged
    <3>4. CASE tx[s].kind = "setup"
      <4>1. contractAmount[line] = 0 /\ contractAmount'[line] > 0
        BY <1>1, <3>4 DEF Justified, ContractSeenBy
      <4>2. SumRequested(fundRequest, line, {"APPROVED"}, {}) <= 0
        BY <1>1, <4>1 DEF ApprovedWithinContract, OneLineChanged
      <4>. QED BY <1>1, <3>1, <3>2, <3>4, <4>1, <4>2 DEF ContractSeenBy
    <3>5. CASE tx[s].kind = "amend"
      <4>1. /\ tx[s].result = computeFinancials(RowsSeenBy(s), line, ContractSeenBy(s))
            /\ tx[s].result.totalApprovedAmount <= tx[s].amount
            /\ ContractSeenBy(s) = tx[s].amount
        BY <1>1, <3>5 DEF Fresh, ContractSeenBy
      <4>2. tx[s].result.totalApprovedAmount = SumRequested(fundRequest', line, {"APPROVED"}, {})
        BY <1>1, <4>1 DEF computeFinancials
      <4>. QED BY <1>1, <4>1, <4>2
    <3>. QED BY <1>1, <2>2, <3>3, <3>4, <3>5 DEF Kinds, AdminOperations
  <2>. QED BY <2>1, <2>2
<1>. QED BY <1>2, <1>3 DEF ApprovedWithinContract

\* Only a create can commit while another session acts as the admin.
LEMMA CommitKnows ==
  ASSUME SoleAdmin, Sole, NEW s \in Sessions, Commit(s)
  PROVE  \A u \in Sessions : AdminKnows(u)'
<1>. USE DEF Sole, Consistent, Shape
<1>1. tx'[s] = NoTx /\ \A u \in Sessions \ {s} : OutdatedBy(s, u)
  BY CommitTransactions
<1>2. AdminKnows(s)'
  BY <1>1 DEF AdminKnows, NoTx
<1>3. ASSUME NEW u \in Sessions \ {s}
      PROVE  AdminKnows(u)'
  <2>1. OutdatedBy(s, u) /\ TxWellFormed(u) /\ TxWellFormed(s) /\ AdminKnows(u)
    BY <1>1
  <2>2. CASE tx[u].kind \notin {"approve", "reject", "setup"}
    BY <2>1, <2>2 DEF OutdatedBy, AdminKnows, TxWellFormed
  <2>3. CASE tx[u].kind \in {"approve", "reject", "setup"}
    <3>. DEFINE r == tx[u].request
                l == tx[u].line
    <3>1. tx[s].kind = "create"
      <4>1. tx[u].kind \in Operations[u] /\ tx[u].kind \in AdminOperations
        BY <2>1, <2>3 DEF TxWellFormed, AdminOperations
      <4>2. tx[s].kind \notin AdminOperations
        <5>. SUFFICES ASSUME tx[s].kind \in AdminOperations PROVE FALSE
          OBVIOUS
        <5>1. tx[s].kind \in Operations[s]
          BY <2>1 DEF TxWellFormed, AdminOperations
        <5>. QED BY <4>1, <5>1 DEF SoleAdmin
      <4>. QED BY <2>1, <4>2 DEF Commit, TxWellFormed, Typed, Transactions, Kinds
    <3>2. contractAmount' = contractAmount
      BY <3>1 DEF Commit, ContractSeenBy, Typed, LedgerTypeOK
    <3>3. fundRequest'[r] = fundRequest[r]
      <4>1. tx[s].request \in Requests /\ fundRequest[tx[s].request].status = "NONE"
        BY <2>1, <3>1 DEF TxWellFormed
      <4>2. r \in Requests /\ fundRequest[r].status = "PENDING"
        BY <2>1, <2>3 DEF TxWellFormed, AdminKnows
      <4>. QED BY <4>1, <4>2, CommitChangesOneLine DEF OneLineChanged
    <3>4. getApprovedAggregate(fundRequest', l, r) = getApprovedAggregate(fundRequest, l, r)
      <4>1. SameApprovals(fundRequest, fundRequest')
        BY <3>1, NothingApproved, KnownIsJustified
      <4>2. SumRequested(fundRequest', l, {"APPROVED"}, {r}) = SumRequested(fundRequest, l, {"APPROVED"}, {r})
        <5>. HIDE DEF l, r
        <5>. QED BY <4>1, SameApproved
      <4>. QED BY <4>2 DEF getApprovedAggregate
    <3>. QED BY <2>1, <3>2, <3>3, <3>4 DEF OutdatedBy, AdminKnows, Admissible
  <2>. QED BY <2>2, <2>3
<1>. QED BY <1>2, <1>3

\* The invariant is inductive as long as one session at a time is an admin.
LEMMA NextSole ==
  ASSUME SoleAdmin
  PROVE  Sole /\ [Next]_vars => Sole'
<1>. SUFFICES ASSUME Sole, [Next]_vars PROVE Sole'
  OBVIOUS
<1>1. Consistent'
  BY NextConsistent DEF Sole
<1>2. CASE UNCHANGED vars
  <2>1. ApprovedWithinContract' /\ \A s \in Sessions : AdminKnows(s)'
    BY <1>2 DEF vars, ledger, Sole, ApprovedWithinContract, AdminKnows, Admissible
  <2>. QED BY <1>1, <2>1 DEF Sole
<1>3. ASSUME NEW s \in Sessions,
             Begin(s) \/ ReadSteps(s) \/ LockSteps(s) \/ Commit(s) \/ Throw(s) \/ Abort(s)
      PROVE  ApprovedWithinContract' /\ \A u \in Sessions : AdminKnows(u)'
  <2>1. CASE Commit(s)
    BY <2>1, CommitWithinContract, KnownIsJustified, CommitKnows DEF Sole
  <2>. QED BY <1>3, <2>1, BeginKnows, InnerStepKnows, RollbackKnows DEF Throw, Abort
<1>. QED BY <1>1, <1>2, <1>3 DEF Next, Sole

-----------------------------------------------------------------------------
(* The guarantees one admin at a time can rely on.                         *)

\* No line is ever approved beyond its contract.
THEOREM SoleAdminWithinContract ==
  ASSUME SoleAdmin
  PROVE  Spec => []ApprovedWithinContract
<1>1. Init => Sole
  BY InitSole
<1>2. Sole /\ [Next]_vars => Sole'
  BY NextSole
<1>3. Sole => ApprovedWithinContract
  BY DEF Sole
<1>. QED BY <1>1, <1>2, <1>3, PTL DEF Spec

\* A decided request never changes again.
THEOREM SoleAdminDecisionsFinal ==
  ASSUME SoleAdmin
  PROVE  Spec => DecisionsFinal
<1>. DEFINE Final == \A r \in Requests : fundRequest[r].status \in {"APPROVED", "REJECTED"}
                                        => fundRequest'[r] = fundRequest[r]
<1>1. Init => Sole
  BY InitSole
<1>2. Sole /\ [Next]_vars => Sole'
  BY NextSole
<1>3. Sole /\ [Next]_vars => [Final]_ledger
  <2>. SUFFICES ASSUME Sole, [Next]_vars, ~ UNCHANGED ledger,
                       NEW r \in Requests, fundRequest'[r] # fundRequest[r]
                PROVE  fundRequest[r].status \notin {"APPROVED", "REJECTED"}
    OBVIOUS
  <2>. USE DEF Sole, Consistent, Shape
  <2>1. PICK s \in Sessions : Commit(s)
    BY OnlyCommitsChangeTheLedger
  <2>2. r = tx[s].request /\ HoldsRequest(s)
    BY <2>1, CommitChangesOneLine DEF OneLineChanged
  <2>. QED BY <2>2 DEF HoldsRequest, TxWellFormed, AdminKnows
<1>. QED BY <1>1, <1>2, <1>3, PTL DEF Spec, DecisionsFinal

\* A contract that has been set changes only with an amendment row that
\* records both amounts.
THEOREM SoleAdminContractAudited ==
  ASSUME SoleAdmin
  PROVE  Spec => ContractAudited
<1>. DEFINE Audited == \A l \in Lines :
       contractAmount[l] # 0 /\ contractAmount'[l] # contractAmount[l]
         => amendments'[l] = Append(amendments[l], [oldAmount |-> contractAmount[l],
                                                    newAmount |-> contractAmount'[l]])
<1>1. Init => Sole
  BY InitSole
<1>2. Sole /\ [Next]_vars => Sole'
  BY NextSole
<1>3. Sole /\ [Next]_vars => [Audited]_ledger
  <2>. SUFFICES ASSUME Sole, [Next]_vars, ~ UNCHANGED ledger, NEW l \in Lines,
                       contractAmount[l] # 0, contractAmount'[l] # contractAmount[l]
                PROVE  amendments'[l] = Append(amendments[l],
                                               [oldAmount |-> contractAmount[l],
                                                newAmount |-> contractAmount'[l]])
    OBVIOUS
  <2>. USE DEF Sole, Consistent, Shape, Typed, LedgerTypeOK
  <2>1. PICK s \in Sessions : Commit(s)
    BY OnlyCommitsChangeTheLedger
  <2>2. tx[s].line = l /\ tx[s].step = "reconciled" /\ contractAmount'[l] = ContractSeenBy(s)
    BY <2>1, CommitChangesOneLine DEF OneLineChanged, Commit
  <2>3. tx[s].kind = "amend" /\ contractAmount'[l] = tx[s].amount
    BY <2>2 DEF ContractSeenBy, AdminKnows
  <2>4. tx[s].seen.contract = contractAmount[l]
    BY <2>2, <2>3 DEF Fresh
  <2>. QED BY <2>1, <2>2, <2>3, <2>4 DEF Commit
<1>. QED BY <1>1, <1>2, <1>3, PTL DEF Spec, ContractAudited

-----------------------------------------------------------------------------
(* The refinement.                                                         *)

\* A transaction keeps the input it was begun with, and the bound of the
\* model on amendments still allows the one it makes.
InputKept(s) ==
  LET t == tx[s] IN
  /\ t.kind = "create" => t.amount \in Amounts
  /\ t.kind = "approve" => t.amount \in Overrides \cup {fundRequest[t.request].amount}
  /\ t.kind \in {"setup", "amend"} => t.amount \in Contracts
  /\ t.kind = "amend" => Len(amendments[t.line]) < MaxAmendments

Serial == Sole /\ \A s \in Sessions : InputKept(s)

\* A step that begins, continues or abandons a transaction keeps every input.
LEMMA LocalStepKeeps ==
  ASSUME Serial, NEW s \in Sessions, UNCHANGED ledger,
         NEW t, tx' = [tx EXCEPT ![s] = t], InputKept(s)'
  PROVE  \A u \in Sessions : InputKept(u)'
<1>. SUFFICES ASSUME NEW u \in Sessions, u # s PROVE InputKept(u)'
  OBVIOUS
<1>1. tx'[u] = tx[u] /\ fundRequest' = fundRequest /\ amendments' = amendments
  BY DEF Serial, Sole, Consistent, Shape, Typed, ledger
<1>. QED BY <1>1 DEF Serial, InputKept

\* The input of an operation is chosen when it begins.
LEMMA BeginKeeps ==
  ASSUME Serial, NEW s \in Sessions, Begin(s)
  PROVE  \A u \in Sessions : InputKept(u)'
<1>. USE DEF Serial, Sole, Consistent, Shape, Typed
<1>1. ASSUME NEW r \in Requests, NEW kind, NEW amount, ReadRequest(s, kind, r, amount),
             \/ kind = "approve" /\ amount \in Overrides \cup {fundRequest[r].amount}
             \/ kind = "reject"
             \/ kind = "setup" /\ amount \in Contracts
      PROVE  \A u \in Sessions : InputKept(u)'
  <2>1. /\ tx'[s].kind = kind /\ tx'[s].request = r /\ tx'[s].amount = amount
        /\ fundRequest' = fundRequest
    BY <1>1 DEF ReadRequest, NoTx, ledger
  <2>2. InputKept(s)'
    BY <1>1, <2>1 DEF InputKept
  <2>. QED BY <1>1, <2>2, LocalStepKeeps DEF ReadRequest
<1>2. ASSUME NEW r \in Requests, NEW l \in Lines, NEW amount \in Amounts,
             BeginCreate(s, r, l, amount)
      PROVE  \A u \in Sessions : InputKept(u)'
  <2>1. tx'[s].kind = "create" /\ tx'[s].amount = amount
    BY <1>2 DEF BeginCreate, NoTx
  <2>2. InputKept(s)'
    BY <2>1 DEF InputKept
  <2>. QED BY <1>2, <2>2, LocalStepKeeps DEF BeginCreate
<1>3. ASSUME NEW l \in Lines, NEW amount \in Contracts, BeginAmend(s, l, amount)
      PROVE  \A u \in Sessions : InputKept(u)'
  <2>1. /\ tx'[s].kind = "amend" /\ tx'[s].amount = amount /\ tx'[s].line = l
        /\ amendments' = amendments /\ Len(amendments[l]) < MaxAmendments
    BY <1>3 DEF BeginAmend, NoTx, ledger
  <2>2. InputKept(s)'
    BY <2>1 DEF InputKept
  <2>. QED BY <1>3, <2>2, LocalStepKeeps DEF BeginAmend
<1>. QED BY <1>1, <1>2, <1>3 DEF Begin

\* No later statement changes it.
LEMMA InnerStepKeeps ==
  ASSUME Serial, NEW s \in Sessions, ReadSteps(s) \/ LockSteps(s)
  PROVE  \A u \in Sessions : InputKept(u)'
<1>. USE DEF Serial, Sole, Consistent, Shape, Typed
<1>1. /\ UNCHANGED ledger
      /\ \E t : /\ tx' = [tx EXCEPT ![s] = t]
                /\ t.kind = tx[s].kind /\ t.request = tx[s].request
                /\ t.line = tx[s].line /\ t.amount = tx[s].amount
  <2>. DEFINE moves(t) == /\ tx' = [tx EXCEPT ![s] = t]
                          /\ t.kind = tx[s].kind /\ t.request = tx[s].request
                          /\ t.line = tx[s].line /\ t.amount = tx[s].amount
  <2>1. CASE ReadSteps(s)
    <3>. DEFINE t1 == [tx[s] EXCEPT !.step = "lineRead", !.seen = LineRow(tx[s].line)]
                t2 == [tx[s] EXCEPT !.step = "checked"]
                t3 == [tx[s] EXCEPT !.step = "contractRead", !.seen.contract = ContractSeenBy(s)]
                t4 == [tx[s] EXCEPT !.step = "reconciled",
                          !.result = computeFinancials(RowsSeenBy(s), tx[s].line,
                                                       tx[s].seen.contract)]
    <3>1. CASE ReadLine(s)
      <4>1. moves(t1) /\ UNCHANGED ledger
        BY <3>1 DEF ReadLine, Transactions
      <4>. QED BY <4>1
    <3>2. CASE CheckApproval(s)
      <4>1. moves(t2) /\ UNCHANGED ledger
        BY <3>2 DEF CheckApproval, GoTo, Transactions
      <4>. QED BY <4>1
    <3>3. CASE ReadContract(s)
      <4>1. moves(t3) /\ UNCHANGED ledger
        BY <3>3 DEF ReadContract, Transactions
      <4>. QED BY <4>1
    <3>4. CASE ReadSums(s)
      <4>1. moves(t4) /\ UNCHANGED ledger
        BY <3>4 DEF ReadSums, Transactions
      <4>. QED BY <4>1
    <3>. QED BY <2>1, <3>1, <3>2, <3>3, <3>4 DEF ReadSteps
  <2>2. CASE LockSteps(s)
    <3>1. UNCHANGED ledger /\ \E step \in Steps : GoTo(s, step)
      BY <2>2 DEF LockSteps, WriteRequest, WriteLineApproved, WriteLineRejected,
         WriteLineContract, WriteLineCreated, WriteLineAmended, LockLine, Steps
    <3>2. PICK step \in Steps : GoTo(s, step)
      BY <3>1
    <3>. DEFINE t == [tx[s] EXCEPT !.step = step]
    <3>3. moves(t)
      BY <3>2 DEF GoTo, Transactions
    <3>. QED BY <3>1, <3>3
  <2>. QED BY <2>1, <2>2
<1>2. PICK t : /\ tx' = [tx EXCEPT ![s] = t]
               /\ t.kind = tx[s].kind /\ t.request = tx[s].request
               /\ t.line = tx[s].line /\ t.amount = tx[s].amount
  BY <1>1
<1>3. InputKept(s)'
  <2>1. tx'[s] = t /\ fundRequest' = fundRequest /\ amendments' = amendments
    BY <1>1, <1>2 DEF ledger
  <2>. QED BY <1>2, <2>1 DEF InputKept
<1>. QED BY <1>1, <1>2, <1>3, LocalStepKeeps

\* A rolled back transaction has no input any more.
LEMMA RollbackKeeps ==
  ASSUME Serial, NEW s \in Sessions, Rollback(s)
  PROVE  \A u \in Sessions : InputKept(u)'
<1>1. InputKept(s)'
  BY DEF Serial, Sole, Consistent, Shape, Typed, Rollback, NoTx, InputKept
<1>. QED BY <1>1, LocalStepKeeps DEF Rollback

\* A commit changes neither the request nor the amendments that another
\* session's operation is about.
LEMMA CommitKeeps ==
  ASSUME SoleAdmin, Serial, NEW s \in Sessions, Commit(s)
  PROVE  \A u \in Sessions : InputKept(u)'
<1>. USE DEF Serial, Sole, Consistent, Shape
<1>1. tx'[s] = NoTx /\ \A u \in Sessions \ {s} : OutdatedBy(s, u)
  BY CommitTransactions
<1>2. InputKept(s)'
  BY <1>1 DEF InputKept, NoTx
<1>3. ASSUME NEW u \in Sessions \ {s}
      PROVE  InputKept(u)'
  <2>1. OutdatedBy(s, u) /\ TxWellFormed(u) /\ TxWellFormed(s) /\ InputKept(u) /\ AdminKnows(u)
    BY <1>1
  <2>2. CASE tx[u].kind \notin {"approve", "amend"}
    BY <2>1, <2>2 DEF OutdatedBy, InputKept
  <2>3. CASE tx[u].kind \in {"approve", "amend"}
    <3>1. tx[s].kind = "create"
      <4>1. tx[u].kind \in Operations[u] /\ tx[u].kind \in AdminOperations
        BY <2>1, <2>3 DEF TxWellFormed, AdminOperations
      <4>2. tx[s].kind \notin AdminOperations
        <5>. SUFFICES ASSUME tx[s].kind \in AdminOperations PROVE FALSE
          OBVIOUS
        <5>1. tx[s].kind \in Operations[s]
          BY <2>1 DEF TxWellFormed, AdminOperations
        <5>. QED BY <4>1, <5>1 DEF SoleAdmin
      <4>. QED BY <2>1, <4>2 DEF Commit, TxWellFormed, Typed, Transactions, Kinds
    <3>2. amendments' = amendments
      BY <3>1 DEF Commit
    <3>3. tx[u].kind = "approve" => fundRequest'[tx[u].request] = fundRequest[tx[u].request]
      <4>1. tx[s].request \in Requests /\ fundRequest[tx[s].request].status = "NONE"
        BY <2>1, <3>1 DEF TxWellFormed
      <4>2. tx[u].kind = "approve" => /\ tx[u].request \in Requests
                                      /\ fundRequest[tx[u].request].status = "PENDING"
        BY <2>1 DEF TxWellFormed, AdminKnows
      <4>. QED BY <4>1, <4>2, CommitChangesOneLine DEF OneLineChanged
    <3>. QED BY <2>1, <3>2, <3>3 DEF OutdatedBy, InputKept
  <2>. QED BY <2>2, <2>3
<1>. QED BY <1>2, <1>3

\* Together: the invariant of the refinement is inductive.
LEMMA NextSerial ==
  ASSUME SoleAdmin
  PROVE  Serial /\ [Next]_vars => Serial'
<1>. SUFFICES ASSUME Serial, [Next]_vars PROVE Serial'
  OBVIOUS
<1>1. Sole'
  BY NextSole DEF Serial
<1>2. CASE UNCHANGED vars
  <2>1. \A s \in Sessions : InputKept(s)'
    BY <1>2 DEF vars, ledger, Serial, InputKept
  <2>. QED BY <1>1, <2>1 DEF Serial
<1>3. ASSUME NEW s \in Sessions,
             Begin(s) \/ ReadSteps(s) \/ LockSteps(s) \/ Commit(s) \/ Throw(s) \/ Abort(s)
      PROVE  \A u \in Sessions : InputKept(u)'
  BY <1>3, BeginKeeps, InnerStepKeeps, CommitKeeps, RollbackKeeps DEF Throw, Abort
<1>. QED BY <1>1, <1>2, <1>3 DEF Next, Serial

-----------------------------------------------------------------------------
(* The two specifications share their arithmetic.                          *)

\* The instance's operators are those of this module.
LEMMA SameOperators ==
  /\ \A rows, l, statuses, skipped :
       Atomic!SumRequested(rows, l, statuses, skipped) = SumRequested(rows, l, statuses, skipped)
  /\ \A rows, l, contract :
       Atomic!computeFinancials(rows, l, contract) = computeFinancials(rows, l, contract)
  /\ \A rows, l, r : Atomic!getApprovedAggregate(rows, l, r) = getApprovedAggregate(rows, l, r)
  /\ \A rows, l, contract, amount :
       Atomic!FitsContract(rows, l, contract, amount) <=> FitsContract(rows, l, contract, amount)
  /\ \A rows, r, l, amount : Atomic!Inserted(rows, r, l, amount) = Inserted(rows, r, l, amount)
  /\ \A rows, r, amount, s : Atomic!Approved(rows, r, amount, s) = Approved(rows, r, amount, s)
  /\ \A rows, r, s : Atomic!Rejected(rows, r, s) = Rejected(rows, r, s)
<1>1. \A rows, l, statuses, skipped :
        Atomic!SumRequested(rows, l, statuses, skipped) = SumRequested(rows, l, statuses, skipped)
  <2>1. ASSUME NEW f
        PROVE  Atomic!SumFunction(f) = SumFunction(f)
    BY DEF Atomic!SumFunction, SumFunction, Atomic!SumFunctionOnSet, SumFunctionOnSet,
       Atomic!FoldFunctionOnSet, FoldFunctionOnSet, Atomic!MapThenFoldSet, MapThenFoldSet
  <2>. QED BY <2>1 DEF Atomic!SumRequested, SumRequested, Atomic!Counted, Counted
<1>2. \A rows, l, contract :
        Atomic!computeFinancials(rows, l, contract) = computeFinancials(rows, l, contract)
  BY <1>1 DEF Atomic!computeFinancials, computeFinancials
<1>3. \A rows, l, r : Atomic!getApprovedAggregate(rows, l, r) = getApprovedAggregate(rows, l, r)
  BY <1>1 DEF Atomic!getApprovedAggregate, getApprovedAggregate
<1>4. \A rows, l, contract, amount :
        Atomic!FitsContract(rows, l, contract, amount) <=> FitsContract(rows, l, contract, amount)
  BY <1>1 DEF Atomic!FitsContract, FitsContract
<1>5. \A rows, r, l, amount : Atomic!Inserted(rows, r, l, amount) = Inserted(rows, r, l, amount)
  BY DEF Atomic!Inserted, Inserted
<1>6. \A rows, r, amount, s : Atomic!Approved(rows, r, amount, s) = Approved(rows, r, amount, s)
  BY DEF Atomic!Approved, Approved
<1>7. \A rows, r, s : Atomic!Rejected(rows, r, s) = Rejected(rows, r, s)
  BY DEF Atomic!Rejected, Rejected
<1>. QED BY <1>1, <1>2, <1>3, <1>4, <1>5, <1>6, <1>7

-----------------------------------------------------------------------------
(* The commit of each operation is the atomic operation.                   *)

\* What every commit does, in the words of the atomic specification.
LEMMA CommitReconciles ==
  ASSUME Serial, NEW s \in Sessions, Commit(s)
  PROVE  /\ Atomic!Reconcile(tx[s].line)
         /\ tx[s].line \in Lines /\ tx[s].kind \in Kinds \ {"none"}
         /\ TxWellFormed(s) /\ AdminKnows(s) /\ InputKept(s)
         /\ fundRequest' = RowsSeenBy(s)
         /\ contractAmount' = [contractAmount EXCEPT ![tx[s].line] = ContractSeenBy(s)]
         /\ tx[s].step = "reconciled" /\ tx[s].amount \in Nat
<1>. USE DEF Serial, Sole, Consistent, Shape
<1>. DEFINE l == tx[s].line
<1>1. /\ TxWellFormed(s) /\ AdminKnows(s) /\ InputKept(s)
      /\ fundRequest' = RowsSeenBy(s)
      /\ contractAmount' = [contractAmount EXCEPT ![l] = ContractSeenBy(s)]
      /\ totals' = [totals EXCEPT ![l] = tx[s].result]
      /\ tx[s].step = "reconciled"
  BY DEF Commit
<1>2. l \in Lines /\ tx[s].kind \in Kinds \ {"none"} /\ tx[s].amount \in Nat
  BY <1>1 DEF TxWellFormed, Typed, Transactions
<1>3. contractAmount'[l] = ContractSeenBy(s)
  BY <1>1, <1>2 DEF Typed, LedgerTypeOK
<1>4. tx[s].result = computeFinancials(fundRequest', l, contractAmount'[l])
  BY <1>1, <1>3 DEF Fresh
<1>5. Atomic!computeFinancials(fundRequest', l, contractAmount'[l])
        = computeFinancials(fundRequest', l, contractAmount'[l])
  BY SameOperators
<1>6. Atomic!Reconcile(l)
  BY <1>1, <1>4, <1>5 DEF Atomic!Reconcile
<1>. QED BY <1>1, <1>2, <1>6

\* The commit of a create inserts a request that fits the contract.
LEMMA CommitOfCreate ==
  ASSUME Serial, NEW s \in Sessions, Commit(s), tx[s].kind = "create"
  PROVE  Atomic!Next
<1>. DEFINE r == tx[s].request
            l == tx[s].line
            a == tx[s].amount
<1>1. /\ r \in Requests /\ l \in Lines /\ a \in Amounts /\ a > 0
      /\ fundRequest[r].status = "NONE"
      /\ fundRequest' = Inserted(fundRequest, r, l, a)
      /\ Atomic!Reconcile(l)
  BY CommitReconciles DEF TxWellFormed, InputKept, RowsSeenBy
<1>2. UNCHANGED <<contractAmount, amendments>>
  BY CommitReconciles DEF Commit, ContractSeenBy, Serial, Sole, Consistent, Shape, Typed, LedgerTypeOK
<1>3. FitsContract(fundRequest, l, contractAmount[l], a)
  BY CommitReconciles DEF Serial, Sole, Consistent, Fresh
<1>4. Atomic!CreateRequest(r, l, a)
  <2>. HIDE DEF r, l, a
  <2>. QED BY <1>1, <1>2, <1>3, SameOperators DEF Atomic!CreateRequest
<1>. QED BY <1>1, <1>4 DEF Atomic!Next

\* The commit of an approval decides a request that is still pending, for an
\* amount that still fits.
LEMMA CommitOfApprove ==
  ASSUME Serial, NEW s \in Sessions, Commit(s), tx[s].kind = "approve"
  PROVE  Atomic!Next
<1>. DEFINE r == tx[s].request
            a == tx[s].amount
<1>1. /\ r \in Requests /\ fundRequest[r].line = tx[s].line
      /\ a \in Overrides \cup {fundRequest[r].amount}
      /\ fundRequest[r].status = "PENDING" /\ Admissible(s)
      /\ fundRequest' = Approved(fundRequest, r, a, s)
      /\ Atomic!Reconcile(tx[s].line)
  BY CommitReconciles DEF TxWellFormed, InputKept, AdminKnows, RowsSeenBy
<1>2. UNCHANGED <<contractAmount, amendments>>
  BY CommitReconciles DEF Commit, ContractSeenBy, Serial, Sole, Consistent, Shape, Typed, LedgerTypeOK
<1>3. Atomic!ApproveRequest(r, a, s)
  <2>1. /\ contractAmount[fundRequest[r].line] # 0
        /\ getApprovedAggregate(fundRequest, fundRequest[r].line, r) + a
             <= contractAmount[fundRequest[r].line]
    BY <1>1 DEF Admissible
  <2>. HIDE DEF r, a
  <2>. QED BY <1>1, <1>2, <2>1, SameOperators DEF Atomic!ApproveRequest
<1>. QED BY <1>1, <1>3 DEF Atomic!Next

\* The commit of a rejection decides a request that is still pending.
LEMMA CommitOfReject ==
  ASSUME Serial, NEW s \in Sessions, Commit(s), tx[s].kind = "reject"
  PROVE  Atomic!Next
<1>. DEFINE r == tx[s].request
<1>1. /\ r \in Requests /\ fundRequest[r].line = tx[s].line
      /\ fundRequest[r].status = "PENDING"
      /\ fundRequest' = Rejected(fundRequest, r, s)
      /\ Atomic!Reconcile(tx[s].line)
  BY CommitReconciles DEF TxWellFormed, AdminKnows, RowsSeenBy
<1>2. UNCHANGED <<contractAmount, amendments>>
  BY CommitReconciles DEF Commit, ContractSeenBy, Serial, Sole, Consistent, Shape, Typed, LedgerTypeOK
<1>3. Atomic!RejectRequest(r, s)
  <2>. HIDE DEF r
  <2>. QED BY <1>1, <1>2, SameOperators DEF Atomic!RejectRequest
<1>. QED BY <1>1, <1>3 DEF Atomic!Next

\* The commit of a set-up gives a contract to a line that still has none.
LEMMA CommitOfSetup ==
  ASSUME Serial, NEW s \in Sessions, Commit(s), tx[s].kind = "setup"
  PROVE  Atomic!Next
<1>. DEFINE r == tx[s].request
            l == tx[s].line
            a == tx[s].amount
<1>1. /\ r \in Requests /\ fundRequest[r].line = l /\ a \in Contracts
      /\ fundRequest[r].status = "PENDING"
      /\ contractAmount[l] = 0 /\ a > 0
      /\ contractAmount' = [contractAmount EXCEPT ![l] = a]
      /\ Atomic!Reconcile(l)
  BY CommitReconciles DEF TxWellFormed, AdminKnows, InputKept, ContractSeenBy
<1>2. UNCHANGED <<fundRequest, amendments>>
  BY CommitReconciles DEF Commit, RowsSeenBy
<1>3. Atomic!SetUpContract(r, a)
  <2>. HIDE DEF r, l, a
  <2>. QED BY <1>1, <1>2 DEF Atomic!SetUpContract
<1>. QED BY <1>1, <1>3 DEF Atomic!Next

\* The commit of an amendment replaces the contract it has read.
LEMMA CommitOfAmend ==
  ASSUME Serial, NEW s \in Sessions, Commit(s), tx[s].kind = "amend"
  PROVE  Atomic!Next
<1>. USE DEF Serial, Sole, Consistent
<1>. DEFINE l == tx[s].line
            a == tx[s].amount
<1>1. /\ l \in Lines /\ a \in Contracts /\ a > 0 /\ Len(amendments[l]) < MaxAmendments
      /\ contractAmount' = [contractAmount EXCEPT ![l] = a]
      /\ Atomic!Reconcile(l)
  BY CommitReconciles DEF TxWellFormed, InputKept, ContractSeenBy
<1>2. /\ UNCHANGED fundRequest
      /\ amendments' = [amendments EXCEPT ![l] =
                          Append(@, [oldAmount |-> tx[s].seen.contract, newAmount |-> a])]
  BY CommitReconciles DEF Commit, RowsSeenBy
<1>3. /\ tx[s].seen.contract = contractAmount[l] /\ contractAmount[l] # 0
      /\ tx[s].result = computeFinancials(fundRequest, l, a)
      /\ tx[s].result.totalApprovedAmount <= a
  BY CommitReconciles DEF Fresh, RowsSeenBy, ContractSeenBy
<1>4. SumRequested(fundRequest, l, {"APPROVED"}, {}) <= a
  BY <1>3 DEF computeFinancials
<1>5. Atomic!AmendContract(l, a)
  <2>. HIDE DEF l, a
  <2>. QED BY <1>1, <1>2, <1>3, <1>4, SameOperators DEF Atomic!AmendContract
<1>. QED BY <1>1, <1>5 DEF Atomic!Next

\* With one admin session at a time, every behaviour of the transactions is
\* a behaviour of the atomic operations.
THEOREM SoleAdminImplements ==
  ASSUME SoleAdmin
  PROVE  Spec => ImplementsFundApproval
<1>1. Init => Serial /\ Atomic!LedgerInit
  <2>. SUFFICES ASSUME Init PROVE Serial /\ Atomic!LedgerInit
    OBVIOUS
  <2>1. Atomic!LedgerInit
    BY DEF Init, LedgerInit, Atomic!LedgerInit, NoRow, Atomic!NoRow, ZeroTotals, Atomic!ZeroTotals
  <2>2. \A s \in Sessions : InputKept(s)
    BY DEF Init, InputKept, NoTx
  <2>. QED BY <2>1, <2>2, InitSole DEF Serial
<1>2. Serial /\ [Next]_vars => Serial'
  BY NextSerial
<1>3. Serial /\ [Next]_vars => [Atomic!Next]_(Atomic!ledger)
  <2>. SUFFICES ASSUME Serial, [Next]_vars, ~ UNCHANGED ledger PROVE Atomic!Next
    BY DEF Atomic!ledger, ledger
  <2>1. PICK s \in Sessions : Commit(s)
    BY OnlyCommitsChangeTheLedger
  <2>2. tx[s].kind \in {"create", "approve", "reject", "setup", "amend"}
    BY <2>1, CommitReconciles DEF Kinds, AdminOperations
  <2>. QED BY <2>1, <2>2, CommitOfCreate, CommitOfApprove, CommitOfReject, CommitOfSetup, CommitOfAmend
<1>. QED BY <1>1, <1>2, <1>3, PTL DEF Spec, ImplementsFundApproval, Atomic!Spec

-----------------------------------------------------------------------------
(* Any number of approvers.                                                *)

\* Nobody amends a contract, and one session at most gives the first one.
FirstContractsOnly ==
  /\ \A s \in Sessions : "amend" \notin Operations[s]
  /\ \A s, u \in Sessions : "setup" \in Operations[s] /\ "setup" \in Operations[u] => s = u

\* No step takes an approval back or changes its amount.
Stands ==
  \A r \in Requests : fundRequest[r].status = "APPROVED" =>
    fundRequest'[r].status = "APPROVED" /\ fundRequest'[r].amount = fundRequest[r].amount

ApprovalsStand == [][Stands]_ledger

ApprovedOn(rows, l) == SumRequested(rows, l, {"APPROVED"}, {})

\* Between its reads and its compare-and-set an approver knows that the line's
\* approved total has not fallen, and that its check still holds if the total
\* is the one it has read; from then on the check holds.
ApproverKnows(s) ==
  LET t == tx[s] IN
  /\ t.kind = "setup" =>
       /\ t.step = "lineRead" => t.seen.contract = contractAmount[t.line]
       /\ HoldsLine(s) => contractAmount[t.line] = 0 /\ t.amount > 0
  /\ t.kind = "approve" =>
       /\ t.step = "lineRead" /\ t.seen.contract # 0 => t.seen.contract = contractAmount[t.line]
       /\ t.step \in {"lineRead", "checked", "requestWritten"} =>
            t.seen.approved <= ApprovedOn(fundRequest, t.line)
       /\ t.step \in {"checked", "requestWritten"} =>
            (t.seen.approved = ApprovedOn(fundRequest, t.line) => Admissible(s))
       /\ HoldsLine(s) => Admissible(s)

Several ==
  /\ Consistent
  /\ TotalsAgree
  /\ ApprovedWithinContract
  /\ \A s \in Sessions : ApproverKnows(s)

\* While approvals stand, a write of one request only adds to the approved
\* total of a line, and if it adds nothing the others' part is the same too.
LEMMA StandingTotals ==
  ASSUME NEW rows \in [Requests -> RequestRows], NEW rows2 \in [Requests -> RequestRows],
         NEW q \in Requests, \A p \in Requests \ {q} : rows2[p] = rows[p],
         rows[q].status = "APPROVED" => /\ rows2[q].status = "APPROVED"
                                        /\ rows2[q].amount = rows[q].amount
                                        /\ rows2[q].line = rows[q].line,
         NEW l, NEW r
  PROVE  /\ ApprovedOn(rows, l) <= ApprovedOn(rows2, l)
         /\ ApprovedOn(rows, l) = ApprovedOn(rows2, l)
              => getApprovedAggregate(rows2, l, r) = getApprovedAggregate(rows, l, r)
<1>. DEFINE f(skipped) == Counted(rows, l, {"APPROVED"}, skipped)
            g(skipped) == Counted(rows2, l, {"APPROVED"}, skipped)
<1>1. ASSUME NEW skipped
      PROVE  /\ f(skipped) \in [Requests -> Nat] /\ g(skipped) \in [Requests -> Nat]
             /\ \A p \in Requests \ {q} : g(skipped)[p] = f(skipped)[p]
  BY DEF Counted, RequestRows
<1>2. f({})[q] = g({})[q] \/ f({})[q] = 0
  BY DEF Counted
<1>3. \/ f({r})[q] = f({})[q] /\ g({r})[q] = g({})[q]
      \/ f({r})[q] = 0 /\ g({r})[q] = 0
  BY DEF Counted
<1>. HIDE DEF f, g
<1>4. ASSUME NEW skipped
      PROVE  /\ SumFunction(g(skipped)) + f(skipped)[q] = SumFunction(f(skipped)) + g(skipped)[q]
             /\ SumFunction(f(skipped)) \in Nat /\ SumFunction(g(skipped)) \in Nat
             /\ f(skipped)[q] \in Nat /\ g(skipped)[q] \in Nat
  BY <1>1, SumChange, LedgerAssumption
<1>5. SumFunction(f({})) <= SumFunction(g({}))
  BY <1>2, <1>4
<1>6. SumFunction(f({})) = SumFunction(g({})) => SumFunction(g({r})) = SumFunction(f({r}))
  BY <1>3, <1>4
<1>. QED BY <1>5, <1>6 DEF ApprovedOn, SumRequested, getApprovedAggregate, f, g

\* Before anything has happened there is nothing to know.
LEMMA InitSeveral == Init => Several
<1>. SUFFICES ASSUME Init PROVE Several
  OBVIOUS
<1>1. TotalsAgree
  BY EmptyFinancials DEF Init, LedgerInit, TotalsAgree
<1>2. \A s \in Sessions : ApproverKnows(s)
  BY DEF Init, ApproverKnows, NoTx
<1>. QED BY <1>1, <1>2, InitSole DEF Sole, Several

\* A step inside a transaction leaves what the others know untouched.
LEMMA LocalStepSeveral ==
  ASSUME Several, NEW s \in Sessions, UNCHANGED ledger,
         NEW t, tx' = [tx EXCEPT ![s] = t], ApproverKnows(s)'
  PROVE  \A u \in Sessions : ApproverKnows(u)'
<1>1. fundRequest' = fundRequest /\ contractAmount' = contractAmount
  BY DEF ledger
<1>2. ASSUME NEW u \in Sessions, u # s
      PROVE  ApproverKnows(u)'
  <2>1. tx'[u] = tx[u]
    BY <1>2 DEF Several, Consistent, Shape, Typed
  <2>. QED BY <1>1, <2>1 DEF Several, ApproverKnows, Admissible, ApprovedOn, HoldsLine
<1>. QED BY <1>2

\* A transaction that begins has nothing to know yet, and neither has one
\* that has been rolled back.
LEMMA BeginSeveral ==
  ASSUME Several, NEW s \in Sessions, Begin(s) \/ Rollback(s)
  PROVE  \A u \in Sessions : ApproverKnows(u)'
<1>. USE DEF Several, Consistent, Shape, Typed
<1>1. ASSUME tx'[s].step = "requestRead" \/ tx'[s].kind \in {"none", "create", "amend"}
      PROVE  ApproverKnows(s)'
  BY <1>1 DEF ApproverKnows, HoldsLine
<1>2. ASSUME NEW r \in Requests, NEW kind, NEW amount, ReadRequest(s, kind, r, amount)
      PROVE  \A u \in Sessions : ApproverKnows(u)'
  <2>1. tx'[s].step = "requestRead"
    BY <1>2 DEF ReadRequest, NoTx
  <2>. QED BY <1>1, <1>2, <2>1, LocalStepSeveral DEF ReadRequest
<1>3. ASSUME NEW r \in Requests, NEW l \in Lines, NEW amount, BeginCreate(s, r, l, amount)
      PROVE  \A u \in Sessions : ApproverKnows(u)'
  <2>1. tx'[s].kind = "create"
    BY <1>3 DEF BeginCreate, NoTx
  <2>. QED BY <1>1, <1>3, <2>1, LocalStepSeveral DEF BeginCreate
<1>4. ASSUME NEW l \in Lines, NEW amount, BeginAmend(s, l, amount)
      PROVE  \A u \in Sessions : ApproverKnows(u)'
  <2>1. tx'[s].kind = "amend"
    BY <1>4 DEF BeginAmend, NoTx
  <2>. QED BY <1>1, <1>4, <2>1, LocalStepSeveral DEF BeginAmend
<1>5. CASE Rollback(s)
  <2>1. tx'[s].kind = "none"
    BY <1>5 DEF Rollback, NoTx
  <2>. QED BY <1>1, <1>5, <2>1, LocalStepSeveral DEF Rollback
<1>. QED BY <1>2, <1>3, <1>4, <1>5 DEF Begin

\* The line's cached total, as a session reads it, is the approved total.
LEMMA CachedApproved ==
  ASSUME Several, NEW l \in Lines
  PROVE  totals[l].totalApprovedAmount = ApprovedOn(fundRequest, l) /\ ApprovedOn(fundRequest, l) \in Nat
<1>1. totals[l] = computeFinancials(fundRequest, l, contractAmount[l])
  BY DEF Several, TotalsAgree
<1>2. ApprovedOn(fundRequest, l) \in Nat
  BY SumRequestedNat DEF Several, Consistent, Shape, Typed, LedgerTypeOK, ApprovedOn
<1>. QED BY <1>1, <1>2 DEF computeFinancials, ApprovedOn

\* Each check of an approver turns what it has read into what it relies on.
LEMMA InnerStepSeveral ==
  ASSUME Several, NEW s \in Sessions, ReadSteps(s) \/ LockSteps(s)
  PROVE  \A u \in Sessions : ApproverKnows(u)'
<1>. USE DEF Several, Consistent, Shape, Typed
<1>. DEFINE moved(step) == /\ tx'[s].step = step /\ tx'[s].kind = tx[s].kind
                           /\ tx'[s].request = tx[s].request /\ tx'[s].line = tx[s].line
                           /\ tx'[s].amount = tx[s].amount
            same == fundRequest' = fundRequest /\ contractAmount' = contractAmount
<1>1. tx[s] \in Transactions /\ TxWellFormed(s) /\ ApproverKnows(s)
  OBVIOUS
<1>2. ASSUME NEW step, GoTo(s, step), UNCHANGED ledger
      PROVE  moved(step) /\ tx'[s].seen = tx[s].seen /\ same
  BY <1>1, <1>2 DEF GoTo, Transactions, ledger
<1>3. ASSUME UNCHANGED ledger, NEW t, tx' = [tx EXCEPT ![s] = t], ApproverKnows(s)'
      PROVE  \A u \in Sessions : ApproverKnows(u)'
  BY <1>3, LocalStepSeveral
<1>4. CASE ReadLine(s)
  <2>1. moved("lineRead") /\ same /\ tx'[s].seen = LineRow(tx[s].line) /\ tx[s].line \in Lines
    BY <1>1, <1>4 DEF ReadLine, Transactions, ledger, TxWellFormed
  <2>2. /\ tx'[s].seen.contract = contractAmount[tx[s].line]
        /\ tx'[s].seen.approved = ApprovedOn(fundRequest, tx[s].line)
        /\ ApprovedOn(fundRequest, tx[s].line) \in Nat
    BY <2>1, CachedApproved DEF LineRow
  <2>3. ApproverKnows(s)'
    BY <2>1, <2>2 DEF ApproverKnows, ApprovedOn, HoldsLine
  <2>. QED BY <1>3, <1>4, <2>3 DEF ReadLine
<1>5. CASE CheckApproval(s)
  <2>1. /\ moved("checked") /\ tx'[s].seen = tx[s].seen /\ same
        /\ tx[s].kind = "approve" /\ tx[s].step = "lineRead"
    BY <1>2, <1>5 DEF CheckApproval, At
  <2>2. Admissible(s)
    BY <1>1, <1>5, <2>1 DEF CheckApproval, ApprovalFits, Admissible, ApproverKnows
  <2>3. ApproverKnows(s)'
    BY <1>1, <2>1, <2>2 DEF ApproverKnows, Admissible, ApprovedOn, HoldsLine
  <2>. QED BY <1>3, <1>5, <2>3 DEF CheckApproval, GoTo
<1>6. CASE ReadContract(s) \/ ReadSums(s)
  <2>1. /\ \E step \in {"contractRead", "reconciled"} : moved(step)
        /\ same /\ HoldsLine(s)
    BY <1>1, <1>6 DEF ReadContract, ReadSums, Transactions, ledger, HoldsLine
  <2>2. ApproverKnows(s)'
    BY <1>1, <2>1 DEF ApproverKnows, Admissible, HoldsLine
  <2>. QED BY <1>3, <1>6, <2>2 DEF ReadContract, ReadSums
<1>7. CASE WriteRequest(s)
  <2>1. /\ moved("requestWritten") /\ tx'[s].seen = tx[s].seen /\ same
        /\ (tx[s].kind = "approve" /\ tx[s].step = "checked") \/ tx[s].kind = "reject"
    BY <1>2, <1>7 DEF WriteRequest, At
  <2>2. ApproverKnows(s)'
    BY <1>1, <2>1 DEF ApproverKnows, Admissible, ApprovedOn, HoldsLine
  <2>. QED BY <1>3, <1>7, <2>2 DEF WriteRequest, GoTo
<1>8. CASE WriteLineApproved(s)
  <2>1. /\ moved("lineWritten") /\ same /\ tx[s].line \in Lines
        /\ tx[s].step = "requestWritten" /\ tx[s].kind = "approve"
    BY <1>1, <1>2, <1>8 DEF WriteLineApproved, LockLine, At, TxWellFormed
  <2>2. tx[s].seen.approved = ApprovedOn(fundRequest, tx[s].line)
    BY <1>8, <2>1, CachedApproved DEF WriteLineApproved, ApprovedUnchanged
  <2>3. ApproverKnows(s)'
    BY <1>1, <2>1, <2>2 DEF ApproverKnows, Admissible
  <2>. QED BY <1>3, <1>8, <2>3 DEF WriteLineApproved, LockLine, GoTo
<1>9. CASE WriteLineContract(s)
  <2>1. /\ moved("lineWritten") /\ same
        /\ tx[s].step = "lineRead" /\ tx[s].kind = "setup" /\ SetupAllowed(s)
    BY <1>2, <1>9 DEF WriteLineContract, LockLine, At
  <2>2. ApproverKnows(s)'
    BY <1>1, <2>1 DEF ApproverKnows, SetupAllowed
  <2>. QED BY <1>3, <1>9, <2>2 DEF WriteLineContract, LockLine, GoTo
<1>10. CASE WriteLineRejected(s) \/ WriteLineCreated(s) \/ WriteLineAmended(s)
  <2>1. /\ \E step \in Steps : moved(step)
        /\ tx[s].kind \in {"reject", "create", "amend"}
    BY <1>2, <1>10 DEF WriteLineRejected, WriteLineCreated, WriteLineAmended, LockLine, At, Steps
  <2>2. ApproverKnows(s)'
    BY <2>1 DEF ApproverKnows
  <2>. QED BY <1>3, <1>10, <2>2
           DEF WriteLineRejected, WriteLineCreated, WriteLineAmended, LockLine, GoTo
<1>. QED BY <1>4, <1>5, <1>6, <1>7, <1>8, <1>9, <1>10 DEF ReadSteps, LockSteps

\* What a commit does to the line and the requests another session relies on.
LEMMA CommitStands ==
  ASSUME FirstContractsOnly, Several, Stands, NEW s \in Sessions, Commit(s)
  PROVE  /\ Justified(s)
         /\ \A l \in Lines : contractAmount[l] # 0 => contractAmount'[l] = contractAmount[l]
         /\ \A l \in Lines, r \in Requests :
              /\ ApprovedOn(fundRequest, l) <= ApprovedOn(fundRequest', l)
              /\ ApprovedOn(fundRequest, l) = ApprovedOn(fundRequest', l)
                   => getApprovedAggregate(fundRequest', l, r) = getApprovedAggregate(fundRequest, l, r)
<1>. USE DEF Several, Consistent, Shape, Typed, LedgerTypeOK
<1>. DEFINE q == tx[s].request
<1>1. /\ TxWellFormed(s) /\ ApproverKnows(s) /\ OneLineChanged(s)
      /\ tx[s].step = "reconciled" /\ tx[s].kind \in Kinds \ {"none"} /\ HoldsLine(s)
      /\ tx[s].amount \in Nat
      /\ fundRequest' = RowsSeenBy(s)
      /\ contractAmount' = [contractAmount EXCEPT ![tx[s].line] = ContractSeenBy(s)]
  BY CommitChangesOneLine DEF Commit, TxWellFormed, Transactions, HoldsLine
<1>2. tx[s].kind # "amend" /\ q \in Requests
  BY <1>1 DEF FirstContractsOnly, TxWellFormed, Kinds, AdminOperations
<1>3. tx[s].kind = "reject" => fundRequest[q].status # "APPROVED"
  <2>. SUFFICES ASSUME tx[s].kind = "reject" PROVE fundRequest[q].status # "APPROVED"
    OBVIOUS
  <2>1. fundRequest'[q].status = "REJECTED"
    BY <1>1, <1>2 DEF RowsSeenBy, Rejected, RequestRows
  <2>. QED BY <1>2, <2>1 DEF Stands
<1>4. Justified(s)
  BY <1>1, <1>3 DEF Justified, ApproverKnows
<1>5. \A l \in Lines : contractAmount[l] # 0 => contractAmount'[l] = contractAmount[l]
  BY <1>1, <1>2, <1>4 DEF ContractSeenBy, Justified
<1>6. /\ fundRequest' \in [Requests -> RequestRows]
      /\ \A p \in Requests \ {q} : fundRequest'[p] = fundRequest[p]
  BY <1>1, CommitShape DEF OneLineChanged
<1>7. fundRequest[q].status = "APPROVED" => /\ fundRequest'[q].status = "APPROVED"
                                            /\ fundRequest'[q].amount = fundRequest[q].amount
                                            /\ fundRequest'[q].line = fundRequest[q].line
  <2>1. ASSUME fundRequest[q].status = "APPROVED"
        PROVE  fundRequest'[q].line = fundRequest[q].line
    <3>1. fundRequest[q].line # None
      BY <1>2, <2>1, LedgerAssumption DEF RowsWellFormed
    <3>. QED BY <1>1, <1>2, <3>1 DEF OneLineChanged
  <2>. QED BY <1>2, <2>1 DEF Stands
<1>8. ASSUME NEW l \in Lines, NEW r \in Requests
      PROVE  /\ ApprovedOn(fundRequest, l) <= ApprovedOn(fundRequest', l)
             /\ ApprovedOn(fundRequest, l) = ApprovedOn(fundRequest', l)
                  => getApprovedAggregate(fundRequest', l, r) = getApprovedAggregate(fundRequest, l, r)
  <2>1. fundRequest \in [Requests -> RequestRows]
    OBVIOUS
  <2>. HIDE DEF q
  <2>. QED BY <1>2, <1>6, <1>7, <2>1, StandingTotals
<1>. QED BY <1>4, <1>5, <1>8

\* What the others know survives a commit: one that changes the total they
\* have read makes their compare-and-set fail.
LEMMA CommitSeveral ==
  ASSUME FirstContractsOnly, Several, Stands, NEW s \in Sessions, Commit(s)
  PROVE  \A u \in Sessions : ApproverKnows(u)'
<1>. USE DEF Several, Consistent, Shape, Typed
<1>1. /\ tx'[s] = NoTx /\ \A u \in Sessions \ {s} : OutdatedBy(s, u)
      /\ OneLineChanged(s) /\ TxWellFormed(s)
  BY CommitTransactions, CommitChangesOneLine
<1>2. ApproverKnows(s)'
  BY <1>1 DEF ApproverKnows, NoTx, HoldsLine
<1>3. ASSUME NEW u \in Sessions \ {s}
      PROVE  ApproverKnows(u)'
  <2>. DEFINE l == tx[u].line
              r == tx[u].request
  <2>1. OutdatedBy(s, u) /\ TxWellFormed(u) /\ ApproverKnows(u)
    BY <1>1
  <2>2. CASE tx[u].kind \notin {"approve", "setup"}
    BY <2>1, <2>2 DEF OutdatedBy, ApproverKnows
  <2>3. CASE tx[u].kind = "setup"
    <3>1. tx[s].kind \notin {"setup", "amend"}
      <4>1. tx[u].kind \in Operations[u] /\ (tx[s].kind # "none" => tx[s].kind \in Operations[s])
        BY <1>1, <2>1, <2>3 DEF TxWellFormed
      <4>. QED BY <2>3, <4>1 DEF FirstContractsOnly
    <3>2. contractAmount' = contractAmount
      BY <3>1 DEF Commit, ContractSeenBy, LedgerTypeOK
    <3>. QED BY <2>1, <2>3, <3>2 DEF OutdatedBy, ApproverKnows, HoldsLine
  <2>4. CASE tx[u].kind = "approve"
    <3>1. /\ l \in Lines /\ r \in Requests
          /\ contractAmount[l] # 0 => contractAmount'[l] = contractAmount[l]
          /\ ApprovedOn(fundRequest, l) <= ApprovedOn(fundRequest', l)
          /\ ApprovedOn(fundRequest, l) = ApprovedOn(fundRequest', l)
               => getApprovedAggregate(fundRequest', l, r) = getApprovedAggregate(fundRequest, l, r)
      BY <2>1, <2>4, CommitStands DEF TxWellFormed
    <3>2. ApprovedOn(fundRequest, l) \in Nat /\ ApprovedOn(fundRequest', l) \in Nat /\ tx[u].seen.approved \in Nat
      <4>1. fundRequest \in [Requests -> RequestRows] /\ fundRequest' \in [Requests -> RequestRows]
        BY CommitShape DEF LedgerTypeOK
      <4>2. tx[u].seen.approved \in Nat
        BY DEF Transactions, LineViews
      <4>. QED BY <4>1, <4>2, SumRequestedNat DEF ApprovedOn
    <3>3. CASE ~ HoldsLine(u)
      BY <2>1, <2>4, <3>1, <3>2, <3>3 DEF OutdatedBy, ApproverKnows, Admissible, HoldsLine
    <3>4. CASE HoldsLine(u)
      <4>1. l # tx[s].line
        BY <3>4 DEF LocksHeld, HoldsLine, Commit
      <4>2. \A q \in Requests : \/ fundRequest'[q] = fundRequest[q]
                                \/ fundRequest[q].line # l /\ fundRequest'[q].line # l
        BY <1>1, <3>1, <4>1, LedgerAssumption DEF OneLineChanged
      <4>3. getApprovedAggregate(fundRequest', l, r) = getApprovedAggregate(fundRequest, l, r)
        <5>. HIDE DEF l, r
        <5>. QED BY <4>2, SameLineSameSum DEF getApprovedAggregate
      <4>4. contractAmount'[l] = contractAmount[l]
        BY <1>1, <3>1, <4>1 DEF OneLineChanged
      <4>. QED BY <2>1, <2>4, <3>4, <4>3, <4>4 DEF OutdatedBy, ApproverKnows, Admissible, HoldsLine
    <3>. QED BY <3>3, <3>4
  <2>. QED BY <2>2, <2>3, <2>4
<1>. QED BY <1>2, <1>3

\* The invariant is inductive as long as approvals stand.
LEMMA NextSeveral ==
  ASSUME FirstContractsOnly
  PROVE  Several /\ [Next]_vars /\ [Stands]_ledger => Several'
<1>. SUFFICES ASSUME Several, [Next]_vars, [Stands]_ledger PROVE Several'
  OBVIOUS
<1>1. Consistent'
  BY NextConsistent DEF Several
<1>2. CASE UNCHANGED vars
  <2>1. TotalsAgree' /\ ApprovedWithinContract' /\ \A s \in Sessions : ApproverKnows(s)'
    BY <1>2 DEF vars, ledger, Several, TotalsAgree, ApprovedWithinContract, ApproverKnows,
                Admissible, ApprovedOn, HoldsLine
  <2>. QED BY <1>1, <2>1 DEF Several
<1>3. CASE UNCHANGED ledger
  <2>1. TotalsAgree' /\ ApprovedWithinContract'
    BY <1>3 DEF ledger, Several, TotalsAgree, ApprovedWithinContract
  <2>2. ASSUME NEW s \in Sessions,
               Begin(s) \/ ReadSteps(s) \/ LockSteps(s) \/ Throw(s) \/ Abort(s)
        PROVE  \A u \in Sessions : ApproverKnows(u)'
    BY <2>2, BeginSeveral, InnerStepSeveral DEF Throw, Abort
  <2>3. ASSUME NEW s \in Sessions, Commit(s)
        PROVE  \A u \in Sessions : ApproverKnows(u)'
    <3>1. Stands
      BY <1>3 DEF Stands, ledger
    <3>. QED BY <2>3, <3>1, CommitSeveral
  <2>. QED BY <1>1, <1>2, <2>1, <2>2, <2>3 DEF Next, Several
<1>4. CASE ~ UNCHANGED ledger
  <2>1. PICK s \in Sessions : Commit(s)
    BY <1>4, OnlyCommitsChangeTheLedger
  <2>2. Stands
    BY <1>4
  <2>3. TotalsAgree'
    BY <2>1, CommitAgrees DEF Several
  <2>4. ApprovedWithinContract'
    BY <2>1, <2>2, CommitStands, CommitWithinContract DEF Several
  <2>5. \A u \in Sessions : ApproverKnows(u)'
    BY <2>1, <2>2, CommitSeveral
  <2>. QED BY <1>1, <2>3, <2>4, <2>5 DEF Several
<1>. QED BY <1>3, <1>4

\* However many approve at once, nothing is approved beyond a contract as long
\* as approvals stand and the contract does: the compare-and-set needs both.
THEOREM StandingApprovalsWithinContract ==
  ASSUME FirstContractsOnly
  PROVE  Spec /\ ApprovalsStand => []ApprovedWithinContract
<1>1. Init => Several
  BY InitSeveral
<1>2. Several /\ [Next]_vars /\ [Stands]_ledger => Several'
  BY NextSeveral
<1>3. Several => ApprovedWithinContract
  BY DEF Several
<1>. QED BY <1>1, <1>2, <1>3, PTL DEF Spec, ApprovalsStand

\* Nobody rejects a request, and nobody approves another amount than asked.
NothingTakenBack ==
  /\ \A s \in Sessions : "reject" \notin Operations[s]
  /\ Overrides = {}

\* Then an approval, the second one of a request too, is for what was asked.
AsAsked ==
  /\ Consistent
  /\ \A s \in Sessions : tx[s].kind = "approve" => tx[s].amount = fundRequest[tx[s].request].amount

\* The request a commit writes keeps its amount, and its approval.
LEMMA CommitAsAsked ==
  ASSUME NothingTakenBack, AsAsked, NEW s \in Sessions, Commit(s), NEW r \in Requests,
         fundRequest[r].status # "NONE"
  PROVE  /\ fundRequest'[r].amount = fundRequest[r].amount
         /\ fundRequest[r].status = "APPROVED" => fundRequest'[r].status = "APPROVED"
<1>. USE DEF AsAsked, Consistent, Shape, Typed, LedgerTypeOK
<1>. SUFFICES ASSUME fundRequest'[r] # fundRequest[r]
              PROVE  /\ fundRequest'[r].amount = fundRequest[r].amount
                     /\ fundRequest[r].status = "APPROVED" => fundRequest'[r].status = "APPROVED"
  OBVIOUS
<1>1. /\ r = tx[s].request /\ HoldsRequest(s) /\ TxWellFormed(s)
      /\ tx[s].step = "reconciled" /\ fundRequest' = RowsSeenBy(s)
  BY CommitChangesOneLine DEF OneLineChanged, Commit
<1>2. tx[s].kind = "approve"
  BY <1>1 DEF HoldsRequest, TxWellFormed, NothingTakenBack
<1>3. fundRequest' = Approved(fundRequest, r, tx[s].amount, s) /\ tx[s].amount = fundRequest[r].amount
  BY <1>1, <1>2 DEF RowsSeenBy
<1>. QED BY <1>3 DEF Approved, RequestRows

\* An approver keeps the amount it has read.
LEMMA NextAsAsked ==
  ASSUME NothingTakenBack
  PROVE  AsAsked /\ [Next]_vars => AsAsked'
<1>. SUFFICES ASSUME AsAsked, [Next]_vars PROVE AsAsked'
  OBVIOUS
<1>. USE DEF AsAsked, Consistent, Shape, Typed
<1>. DEFINE asked(u) == tx[u].kind = "approve" => tx[u].amount = fundRequest[tx[u].request].amount
<1>1. Consistent'
  BY NextConsistent
<1>2. CASE UNCHANGED vars
  BY <1>1, <1>2 DEF vars, ledger, Fresh
<1>3. ASSUME NEW s \in Sessions, UNCHANGED ledger, NEW t, tx' = [tx EXCEPT ![s] = t], asked(s)'
      PROVE  AsAsked'
  <2>1. \A u \in Sessions \ {s} : tx'[u] = tx[u]
    BY <1>3
  <2>. QED BY <1>1, <1>3, <2>1 DEF ledger
<1>4. ASSUME NEW s \in Sessions, NEW r \in Requests, NEW kind, NEW amount,
             ReadRequest(s, kind, r, amount), kind = "approve" => amount = fundRequest[r].amount
      PROVE  AsAsked'
  <2>1. asked(s)'
    BY <1>4 DEF ReadRequest, NoTx, ledger
  <2>. QED BY <1>3, <1>4, <2>1 DEF ReadRequest
<1>5. ASSUME NEW s \in Sessions, NEW r \in Requests, NEW l \in Lines, NEW amount,
             BeginCreate(s, r, l, amount)
      PROVE  AsAsked'
  <2>1. asked(s)'
    BY <1>5 DEF BeginCreate, NoTx
  <2>. QED BY <1>3, <1>5, <2>1 DEF BeginCreate
<1>6. ASSUME NEW s \in Sessions, NEW l \in Lines, NEW amount, BeginAmend(s, l, amount)
      PROVE  AsAsked'
  <2>1. asked(s)'
    BY <1>6 DEF BeginAmend, NoTx
  <2>. QED BY <1>3, <1>6, <2>1 DEF BeginAmend
<1>7. ASSUME NEW s \in Sessions, Rollback(s)
      PROVE  AsAsked'
  <2>1. asked(s)'
    BY <1>7 DEF Rollback, NoTx
  <2>. QED BY <1>3, <1>7, <2>1 DEF Rollback
<1>8. ASSUME NEW s \in Sessions, ReadSteps(s) \/ LockSteps(s)
      PROVE  AsAsked'
  <2>1. PICK t : /\ tx' = [tx EXCEPT ![s] = t] /\ UNCHANGED ledger
                 /\ t.kind = tx[s].kind /\ t.request = tx[s].request /\ t.amount = tx[s].amount
    BY <1>8 DEF ReadSteps, LockSteps, ReadLine, CheckApproval, ReadContract, ReadSums, GoTo,
                WriteRequest, WriteLineApproved, WriteLineRejected, WriteLineContract,
                WriteLineCreated, WriteLineAmended, LockLine, Transactions
  <2>2. asked(s)'
    BY <2>1 DEF ledger
  <2>. QED BY <1>3, <2>1, <2>2
<1>9. ASSUME NEW s \in Sessions, Commit(s)
      PROVE  AsAsked'
  <2>1. tx'[s] = NoTx /\ \A u \in Sessions \ {s} : OutdatedBy(s, u)
    BY <1>9, CommitTransactions
  <2>2. ASSUME NEW u \in Sessions, tx'[u].kind = "approve"
        PROVE  tx'[u].amount = fundRequest'[tx'[u].request].amount
    <3>1. u # s /\ OutdatedBy(s, u) /\ TxWellFormed(u)
      BY <2>1, <2>2 DEF NoTx
    <3>2. tx[u].request \in Requests /\ fundRequest[tx[u].request].status # "NONE"
      BY <2>2, <3>1 DEF OutdatedBy, TxWellFormed
    <3>3. fundRequest'[tx[u].request].amount = fundRequest[tx[u].request].amount
      BY <1>9, <3>2, CommitAsAsked
    <3>. QED BY <2>2, <3>1, <3>3 DEF OutdatedBy
  <2>. QED BY <1>1, <2>2
<1>. QED BY <1>2, <1>4, <1>5, <1>6, <1>7, <1>8, <1>9 DEF Next, Begin, Throw, Abort, NothingTakenBack

\* Approvers who neither reject nor override never take an approval back,
\* although nothing stops two of them from approving the same request.
THEOREM ApproversLetApprovalsStand ==
  ASSUME NothingTakenBack
  PROVE  Spec => ApprovalsStand
<1>1. Init => AsAsked
  BY InitConsistent DEF Init, AsAsked, NoTx
<1>2. AsAsked /\ [Next]_vars => AsAsked'
  BY NextAsAsked
<1>3. AsAsked /\ [Next]_vars => [Stands]_ledger
  <2>. SUFFICES ASSUME AsAsked, [Next]_vars, ~ UNCHANGED ledger PROVE Stands
    OBVIOUS
  <2>1. PICK s \in Sessions : Commit(s)
    BY OnlyCommitsChangeTheLedger
  <2>. QED BY <2>1, CommitAsAsked DEF Stands
<1>. QED BY <1>1, <1>2, <1>3, PTL DEF Spec, ApprovalsStand

\* So any number of them together keep within a contract nobody amends.
THEOREM ApproversWithinContract ==
  ASSUME FirstContractsOnly, NothingTakenBack
  PROVE  Spec => []ApprovedWithinContract
BY ApproversLetApprovalsStand, StandingApprovalsWithinContract, PTL

\* And so do deciders of any kind, once a decision is final: what they lack is
\* the check of the status where the decision is written.
THEOREM FinalDecisionsWithinContract ==
  ASSUME FirstContractsOnly
  PROVE  Spec /\ DecisionsFinal => []ApprovedWithinContract
<1>. DEFINE Final == \A r \in Requests : fundRequest[r].status \in {"APPROVED", "REJECTED"}
                                        => fundRequest'[r] = fundRequest[r]
<1>1. [Final]_ledger => [Stands]_ledger
  BY DEF Stands
<1>2. DecisionsFinal => ApprovalsStand
  BY <1>1, PTL DEF DecisionsFinal, ApprovalsStand
<1>. QED BY <1>2, StandingApprovalsWithinContract, PTL
=============================================================================
