-------------------------- MODULE FundLedgerProofs --------------------------
(***************************************************************************)
(* Theorems about FundLedger, for any number of lines, requests, sessions  *)
(* and amounts.                                                            *)
(***************************************************************************)
EXTENDS FundLedger, SumLemmas

-----------------------------------------------------------------------------
(* Aggregates.                                                             *)

\* An aggregate of a well-typed table is a natural number.
LEMMA SumRequestedNat ==
  ASSUME NEW rows \in [Requests -> RequestRows], NEW l, NEW statuses, NEW skipped
  PROVE  SumRequested(rows, l, statuses, skipped) \in Nat
<1>1. Counted(rows, l, statuses, skipped) \in [Requests -> Nat]
  BY DEF Counted, RequestRows
<1>. QED BY <1>1, SumNat, LedgerAssumption DEF SumRequested

\* The reconciliation formula yields well-typed columns.
LEMMA FinancialsType ==
  ASSUME NEW rows \in [Requests -> RequestRows], NEW l, NEW contract \in Nat
  PROVE  computeFinancials(rows, l, contract) \in Financials
<1>. DEFINE sum(statuses) == SumRequested(rows, l, statuses, {})
<1>1. /\ sum({"APPROVED"}) \in Nat
      /\ sum({"PENDING"}) \in Nat
      /\ sum({"REJECTED"}) \in Nat
  BY SumRequestedNat
<1>. HIDE DEF sum
<1>2. computeFinancials(rows, l, contract) =
        [totalApprovedAmount  |-> sum({"APPROVED"}),
         totalRequestedAmount |-> sum({"PENDING"}) + sum({"APPROVED"}),
         totalRejectedAmount  |-> sum({"REJECTED"}),
         remainingBalance     |-> contract - sum({"APPROVED"})]
  BY DEF computeFinancials, sum
<1>. QED BY <1>1, <1>2 DEF Financials

\* Two tables that agree on the rows of a line give the same aggregates of it.
LEMMA SameLineSameSum ==
  ASSUME NEW rows, NEW rows2, NEW l, NEW statuses, NEW skipped,
         \A q \in Requests : rows2[q] = rows[q] \/ (rows[q].line # l /\ rows2[q].line # l)
  PROVE  SumRequested(rows2, l, statuses, skipped) = SumRequested(rows, l, statuses, skipped)
<1>1. Counted(rows2, l, statuses, skipped) = Counted(rows, l, statuses, skipped)
  BY DEF Counted
<1>. QED BY <1>1 DEF SumRequested

\* Nor do they differ in the reconciled columns of the line.
LEMMA SameLineSameFinancials ==
  ASSUME NEW rows, NEW rows2, NEW l, NEW contract,
         \A q \in Requests : rows2[q] = rows[q] \/ (rows[q].line # l /\ rows2[q].line # l)
  PROVE  computeFinancials(rows2, l, contract) = computeFinancials(rows, l, contract)
BY SameLineSameSum DEF computeFinancials

\* The totals of a line nobody has asked money for are zero.
LEMMA EmptyFinancials ==
  ASSUME NEW l \in Lines
  PROVE  computeFinancials([r \in Requests |-> NoRow], l, 0) = ZeroTotals
<1>1. ASSUME NEW statuses
      PROVE  SumRequested([r \in Requests |-> NoRow], l, statuses, {}) = 0
  <2>. DEFINE f == Counted([r \in Requests |-> NoRow], l, statuses, {})
  <2>1. f \in [Requests -> Nat] /\ \A r \in Requests : f[r] = 0
    BY DEF Counted, NoRow
  <2>. HIDE DEF f
  <2>2. SumFunction(f) = 0
    BY <2>1, SumZero, LedgerAssumption
  <2>. QED BY <2>2 DEF SumRequested, f
<1>. QED BY <1>1 DEF computeFinancials, ZeroTotals

-----------------------------------------------------------------------------
(* Types.                                                                  *)

\* A transaction's record belongs to the operation it runs, and the row of
\* the request it handles exists exactly if the operation did not insert it.
TxWellFormed(s) ==
  LET t == tx[s] IN
  /\ t.step = "idle" => t.kind = "none"
  /\ t.step \in {"requestRead", "lineRead"} => t.kind \in {"approve", "reject", "setup"}
  /\ t.step = "checked" => t.kind = "approve"
  /\ t.step = "requestWritten" => t.kind \in {"approve", "reject"}
  /\ t.step \in {"lineWritten", "contractRead"} => t.kind \in {"approve", "reject", "setup"}
  /\ t.step = "snapshot" => t.kind \in {"create", "amend"}
  /\ t.step = "reconciled" => t.kind # "none"
  /\ t.kind # "none" => t.line \in Lines /\ t.kind \in Operations[s]
  /\ t.kind \in {"approve", "reject", "setup"} =>
       /\ t.request \in Requests
       /\ fundRequest[t.request].status # "NONE"
       /\ fundRequest[t.request].line = t.line
  /\ t.kind = "create" => t.request \in Requests /\ fundRequest[t.request].status = "NONE"
  /\ t.kind \in {"create", "amend"} => t.amount > 0

RowsWellFormed ==
  \A r \in Requests :
    /\ fundRequest[r].status = "NONE" => fundRequest[r].line = None
    /\ fundRequest[r].status # "NONE" => fundRequest[r].line \in Lines

\* A session holds the row lock of the line from its update on, and that of
\* the request it has inserted or updated.
HoldsLine(s) == tx[s].step \in {"lineWritten", "contractRead", "reconciled"}

HoldsRequest(s) ==
  \/ tx[s].kind = "create"
  \/ /\ tx[s].kind \in {"approve", "reject"}
     /\ tx[s].step \in {"requestWritten", "lineWritten", "contractRead", "reconciled"}

LocksHeld ==
  \A s \in Sessions : /\ HoldsLine(s) => lineLock[tx[s].line] = s
                      /\ HoldsRequest(s) => requestLock[tx[s].request] = s

\* TypeOK without who may hold a line's lock: beside the sessions there may
\* be others that lock lines.
Typed ==
  /\ LedgerTypeOK
  /\ requestLock \in [Requests -> Sessions \cup {None}]
  /\ lineLock = [l \in Lines |-> lineLock[l]]
  /\ tx \in [Sessions -> Transactions]

Shape ==
  /\ Typed
  /\ RowsWellFormed
  /\ \A s \in Sessions : TxWellFormed(s)
  /\ LocksHeld

\* The empty tables, free locks and idle sessions have the shape.
LEMMA InitShape == Init => Shape
<1>. SUFFICES ASSUME Init PROVE Shape
  OBVIOUS
<1>. USE DEF Init, LedgerInit
<1>1. Typed
  BY LedgerAssumption DEF Typed, LedgerTypeOK, NoRow, RequestRows, Statuses, ZeroTotals, Financials,
     NoTx, Transactions, Steps, Kinds, AdminOperations, LineViews, AmendmentRows
<1>2. RowsWellFormed
  BY DEF RowsWellFormed, NoRow
<1>3. \A s \in Sessions : TxWellFormed(s)
  BY DEF TxWellFormed, NoTx
<1>4. LocksHeld
  BY DEF LocksHeld, HoldsLine, HoldsRequest, NoTx
<1>. QED BY <1>1, <1>2, <1>3, <1>4 DEF Shape

\* A step of session s that only moves its transaction on keeps the shape.
LEMMA LocalStepShape ==
  ASSUME Shape, NEW s \in Sessions, NEW t \in Transactions,
         tx' = [tx EXCEPT ![s] = t],
         UNCHANGED ledger,
         requestLock' \in [Requests -> Sessions \cup {None}],
         lineLock' = [l \in Lines |-> lineLock'[l]],
         TxWellFormed(s)',
         HoldsLine(s)' => lineLock'[t.line] = s,
         HoldsRequest(s)' => requestLock'[t.request] = s,
         \A u \in Sessions \ {s} :
           /\ \A l \in Lines : lineLock[l] = u => lineLock'[l] = u
           /\ \A r \in Requests : requestLock[r] = u => requestLock'[r] = u
  PROVE  Shape'
<1>. USE DEF Shape
<1>1. /\ tx' \in [Sessions -> Transactions]
      /\ tx'[s] = t
      /\ \A u \in Sessions \ {s} : tx'[u] = tx[u]
  BY DEF Typed
<1>2. Typed'
  BY <1>1 DEF Typed, LedgerTypeOK, ledger
<1>3. RowsWellFormed'
  BY DEF RowsWellFormed, ledger
<1>4. ASSUME NEW u \in Sessions
      PROVE  TxWellFormed(u)'
  <2>1. CASE u = s
    BY <2>1
  <2>2. CASE u # s
    BY <1>1, <2>2 DEF TxWellFormed, ledger
  <2>. QED BY <2>1, <2>2
<1>5. LocksHeld'
  <2>. SUFFICES ASSUME NEW u \in Sessions
                PROVE  /\ HoldsLine(u)' => lineLock'[tx'[u].line] = u
                       /\ HoldsRequest(u)' => requestLock'[tx'[u].request] = u
    BY DEF LocksHeld
  <2>1. CASE u = s
    BY <1>1, <2>1
  <2>2. CASE u # s
    <3>1. HoldsLine(u)' => tx[u].line \in Lines /\ lineLock[tx[u].line] = u
      BY <1>1, <2>2 DEF LocksHeld, HoldsLine, TxWellFormed
    <3>2. HoldsRequest(u)' => tx[u].request \in Requests /\ requestLock[tx[u].request] = u
      BY <1>1, <2>2 DEF LocksHeld, HoldsRequest, TxWellFormed
    <3>. QED BY <1>1, <2>2, <3>1, <3>2
  <2>. QED BY <2>1, <2>2
<1>. QED BY <1>2, <1>3, <1>4, <1>5

\* The record of a session without a transaction is well-typed.
LEMMA NoTxType == NoTx \in Transactions
<1>1. ZeroTotals \in Financials
  BY DEF ZeroTotals, Financials
<1>2. [contract |-> 0, approved |-> 0, version |-> 0] \in LineViews
  BY DEF LineViews
<1>. QED BY <1>1, <1>2 DEF NoTx, Transactions, Steps, Kinds

\* The first read of approveOrRejectFundRequest finds a row with a line.
LEMMA ReadRequestShape ==
  ASSUME Shape, NEW s \in Sessions, NEW r \in Requests,
         NEW kind \in {"approve", "reject", "setup"}, NEW amount \in Nat,
         ReadRequest(s, kind, r, amount)
  PROVE  Shape'
<1>. DEFINE t == [NoTx EXCEPT !.step = "requestRead", !.kind = kind, !.request = r,
                              !.line = fundRequest[r].line, !.amount = amount]
<1>. USE DEF ReadRequest
<1>1. fundRequest[r].line \in Lines
  BY DEF Shape, RowsWellFormed
<1>2. t \in Transactions
  BY <1>1, NoTxType DEF Transactions, Steps, Kinds, AdminOperations
<1>3. tx' = [tx EXCEPT ![s] = t] /\ tx'[s] = t
  BY DEF Shape, Typed
<1>4. /\ t.step = "requestRead" /\ t.kind = kind
      /\ t.request = r /\ t.line = fundRequest[r].line
  BY DEF NoTx
<1>. HIDE DEF t
<1>5. TxWellFormed(s)' /\ ~ HoldsLine(s)' /\ ~ HoldsRequest(s)'
  BY <1>1, <1>3, <1>4 DEF TxWellFormed, HoldsLine, HoldsRequest, ledger
<1>. QED BY <1>2, <1>3, <1>5, LocalStepShape DEF Shape, Typed

\* The columns read from a line row are well-typed.
LEMMA LineRowType ==
  ASSUME Shape, NEW l \in Lines
  PROVE  LineRow(l) \in LineViews
BY DEF Shape, Typed, LedgerTypeOK, LineRow, LineViews, Financials

\* createFundRequest, up to its insert, works on a row nobody else has.
LEMMA BeginCreateShape ==
  ASSUME Shape, NEW s \in Sessions, NEW r \in Requests, NEW l \in Lines, NEW amount \in Nat,
         BeginCreate(s, r, l, amount)
  PROVE  Shape'
<1>. DEFINE rows == Inserted(fundRequest, r, l, amount)
            result == computeFinancials(rows, l, contractAmount[l])
            t == [NoTx EXCEPT !.step = "snapshot", !.kind = "create", !.request = r, !.line = l,
                              !.amount = amount, !.seen = LineRow(l), !.result = result]
<1>. USE DEF BeginCreate
<1>1. rows \in [Requests -> RequestRows]
  BY DEF Shape, Typed, LedgerTypeOK, Inserted, RequestRows, Statuses
<1>2. result \in Financials
  <2>. contractAmount[l] \in Nat
    BY DEF Shape, Typed, LedgerTypeOK
  <2>. HIDE DEF rows
  <2>. QED BY <1>1, FinancialsType
<1>. HIDE DEF rows, result
<1>3. t \in Transactions
  BY <1>2, LineRowType, NoTxType DEF Transactions, Steps, Kinds
<1>4. tx' = [tx EXCEPT ![s] = t] /\ tx'[s] = t
  BY DEF Shape, Typed, rows, result
<1>5. TxWellFormed(s)' /\ ~ HoldsLine(s)'
  BY <1>4 DEF TxWellFormed, HoldsLine, NoTx, ledger
<1>6. /\ requestLock' \in [Requests -> Sessions \cup {None}]
      /\ requestLock'[r] = s
      /\ \A q \in Requests : requestLock[q] # None => requestLock'[q] = requestLock[q]
  BY DEF Shape, Typed
<1>7. HoldsRequest(s)' => requestLock'[t.request] = s
  BY <1>6 DEF NoTx
<1>8. lineLock' = lineLock /\ lineLock' = [k \in Lines |-> lineLock'[k]] /\ UNCHANGED ledger
  BY DEF Shape, Typed
<1>9. \A u \in Sessions \ {s} : \A q \in Requests : requestLock[q] = u => requestLock'[q] = u
  BY <1>6, LedgerAssumption
<1>. HIDE DEF t, BeginCreate
<1>. QED BY <1>3, <1>4, <1>5, <1>6, <1>7, <1>8, <1>9, LocalStepShape

\* createAmendment, up to its checks, writes nothing.
LEMMA BeginAmendShape ==
  ASSUME Shape, NEW s \in Sessions, NEW l \in Lines, NEW amount \in Nat,
         BeginAmend(s, l, amount)
  PROVE  Shape'
<1>. DEFINE result == computeFinancials(fundRequest, l, amount)
            t == [NoTx EXCEPT !.step = "snapshot", !.kind = "amend", !.line = l,
                              !.amount = amount, !.seen = LineRow(l), !.result = result]
<1>. USE DEF BeginAmend
<1>1. result \in Financials
  BY FinancialsType DEF Shape, Typed, LedgerTypeOK
<1>. HIDE DEF result
<1>2. t \in Transactions
  BY <1>1, LineRowType, NoTxType DEF Transactions, Steps, Kinds, AdminOperations
<1>3. tx' = [tx EXCEPT ![s] = t] /\ tx'[s] = t
  BY DEF Shape, Typed, result
<1>4. TxWellFormed(s)' /\ ~ HoldsLine(s)' /\ ~ HoldsRequest(s)'
  BY <1>3 DEF TxWellFormed, HoldsLine, HoldsRequest, NoTx, ledger
<1>. HIDE DEF t
<1>. QED BY <1>2, <1>3, <1>4, LocalStepShape DEF Shape, Typed

\* What session s sees of the tables inside its transaction is well-typed.
LEMMA ViewType ==
  ASSUME Shape, NEW s \in Sessions, tx[s].kind # "none"
  PROVE  /\ RowsSeenBy(s) \in [Requests -> RequestRows]
         /\ ContractSeenBy(s) \in Nat
<1>. USE DEF Shape, Typed, LedgerTypeOK
<1>1. /\ fundRequest \in [Requests -> RequestRows]
      /\ tx[s].amount \in Nat /\ tx[s].line \in Lines
      /\ tx[s].kind \in {"create", "approve", "reject"} => tx[s].request \in Requests
      /\ tx[s].kind \in Kinds
  BY DEF TxWellFormed, Transactions
<1>2. CASE tx[s].kind = "create"
  BY <1>1, <1>2 DEF RowsSeenBy, ContractSeenBy, Inserted, RequestRows, Statuses
<1>3. CASE tx[s].kind = "approve"
  BY <1>1, <1>3 DEF RowsSeenBy, ContractSeenBy, Approved, RequestRows, Statuses
<1>4. CASE tx[s].kind = "reject"
  BY <1>1, <1>4 DEF RowsSeenBy, ContractSeenBy, Rejected, RequestRows, Statuses
<1>5. CASE tx[s].kind \in {"setup", "amend"}
  BY <1>1, <1>5 DEF RowsSeenBy, ContractSeenBy
<1>. QED BY <1>1, <1>2, <1>3, <1>4, <1>5 DEF Kinds, AdminOperations

\* The statements that only read keep the locks their session holds.
LEMMA ReadStepsShape ==
  ASSUME Shape, NEW s \in Sessions, ReadSteps(s)
  PROVE  Shape'
<1>. DEFINE kept(t) == /\ t.kind = tx[s].kind /\ t.request = tx[s].request
                       /\ t.line = tx[s].line /\ t.amount = tx[s].amount
<1>1. tx[s] \in Transactions /\ TxWellFormed(s) /\ UNCHANGED <<ledger, requestLock, lineLock>>
  BY DEF Shape, Typed, ReadSteps, ReadLine, CheckApproval, ReadContract, ReadSums
<1>2. ASSUME NEW t \in Transactions, tx' = [tx EXCEPT ![s] = t], kept(t),
             \/ tx[s].step = "requestRead" /\ t.step = "lineRead"
             \/ At(s, "lineRead", {"approve"}) /\ t.step = "checked"
             \/ tx[s].step = "lineWritten" /\ t.step = "contractRead"
             \/ tx[s].step = "contractRead" /\ t.step = "reconciled"
      PROVE  Shape'
  <2>1. tx'[s] = t
    BY <1>2 DEF Shape, Typed
  <2>2. TxWellFormed(s)'
    BY <1>1, <1>2, <2>1 DEF TxWellFormed, ledger, At
  <2>3. /\ HoldsLine(s)' => HoldsLine(s)
        /\ HoldsRequest(s)' => HoldsRequest(s)
    BY <1>2, <2>1 DEF HoldsLine, HoldsRequest, At
  <2>4. /\ HoldsLine(s)' => lineLock'[t.line] = s
        /\ HoldsRequest(s)' => requestLock'[t.request] = s
    BY <1>1, <1>2, <2>3 DEF Shape, LocksHeld
  <2>. HIDE DEF kept
  <2>. QED BY <1>1, <1>2, <2>2, <2>4, LocalStepShape DEF Shape, Typed
<1>3. CASE ReadLine(s)
  <2>. DEFINE t == [tx[s] EXCEPT !.step = "lineRead", !.seen = LineRow(tx[s].line)]
  <2>1. LineRow(tx[s].line) \in LineViews
    BY <1>1, <1>3, LineRowType DEF ReadLine, TxWellFormed
  <2>2. t \in Transactions /\ kept(t) /\ t.step = "lineRead"
    BY <1>1, <2>1 DEF Transactions, Steps
  <2>3. tx' = [tx EXCEPT ![s] = t] /\ tx[s].step = "requestRead"
    BY <1>1, <1>3 DEF ReadLine, Shape, Typed
  <2>. HIDE DEF t, kept
  <2>. QED BY <1>2, <2>2, <2>3
<1>4. CASE CheckApproval(s)
  <2>. DEFINE t == [tx[s] EXCEPT !.step = "checked"]
  <2>1. t \in Transactions /\ kept(t) /\ t.step = "checked"
    BY <1>1 DEF Transactions, Steps
  <2>2. tx' = [tx EXCEPT ![s] = t] /\ At(s, "lineRead", {"approve"})
    BY <1>1, <1>4 DEF CheckApproval, GoTo, Shape, Typed
  <2>. HIDE DEF t, kept
  <2>. QED BY <1>2, <2>1, <2>2
<1>5. CASE ReadContract(s)
  <2>. DEFINE t == [tx[s] EXCEPT !.step = "contractRead", !.seen.contract = ContractSeenBy(s)]
  <2>1. ContractSeenBy(s) \in Nat
    BY <1>1, <1>5, ViewType DEF ReadContract, TxWellFormed
  <2>2. t \in Transactions /\ kept(t) /\ t.step = "contractRead"
    BY <1>1, <2>1 DEF Transactions, Steps, LineViews
  <2>3. tx' = [tx EXCEPT ![s] = t] /\ tx[s].step = "lineWritten"
    BY <1>1, <1>5 DEF ReadContract, Shape, Typed
  <2>. HIDE DEF t, kept
  <2>. QED BY <1>2, <2>2, <2>3
<1>6. CASE ReadSums(s)
  <2>. DEFINE result == computeFinancials(RowsSeenBy(s), tx[s].line, tx[s].seen.contract)
              t == [tx[s] EXCEPT !.step = "reconciled", !.result = result]
  <2>1. result \in Financials
    <3>1. RowsSeenBy(s) \in [Requests -> RequestRows]
      BY <1>1, <1>6, ViewType DEF ReadSums, TxWellFormed
    <3>2. tx[s].seen.contract \in Nat
      BY <1>1 DEF Transactions, LineViews
    <3>. QED BY <3>1, <3>2, FinancialsType
  <2>2. tx' = [tx EXCEPT ![s] = t] /\ tx[s].step = "contractRead"
    BY <1>1, <1>6 DEF ReadSums, Shape, Typed
  <2>. HIDE DEF result
  <2>3. t \in Transactions /\ kept(t) /\ t.step = "reconciled"
    BY <1>1, <2>1 DEF Transactions, Steps
  <2>. HIDE DEF t, kept
  <2>. QED BY <1>2, <2>2, <2>3
<1>. QED BY <1>3, <1>4, <1>5, <1>6 DEF ReadSteps

\* An UPDATE takes a lock nobody holds, for the row its session handles.
LEMMA LockStepsShape ==
  ASSUME Shape, NEW s \in Sessions, LockSteps(s)
  PROVE  Shape'
<1>1. tx[s] \in Transactions /\ TxWellFormed(s) /\ UNCHANGED ledger
  BY DEF Shape, Typed, LockSteps, WriteRequest, WriteLineApproved, WriteLineRejected,
     WriteLineContract, WriteLineCreated, WriteLineAmended, LockLine
<1>2. CASE WriteRequest(s)
  <2>. DEFINE t == [tx[s] EXCEPT !.step = "requestWritten"]
  <2>1. /\ t \in Transactions /\ t.kind = tx[s].kind /\ t.request = tx[s].request
        /\ t.line = tx[s].line /\ t.amount = tx[s].amount /\ t.step = "requestWritten"
    BY <1>1 DEF Transactions, Steps
  <2>2. tx' = [tx EXCEPT ![s] = t] /\ tx'[s] = t
    BY <1>1, <1>2 DEF WriteRequest, GoTo, Shape, Typed
  <2>. HIDE DEF t
  <2>3. tx[s].request \in Requests /\ TxWellFormed(s)' /\ ~ HoldsLine(s)'
    BY <1>1, <1>2, <2>1, <2>2 DEF WriteRequest, At, TxWellFormed, HoldsLine, ledger
  <2>4. /\ requestLock' \in [Requests -> Sessions \cup {None}]
        /\ requestLock'[t.request] = s
        /\ \A q \in Requests : requestLock[q] # None => requestLock'[q] = requestLock[q]
        /\ lineLock' = lineLock
    BY <1>2, <2>1, <2>3 DEF WriteRequest, Shape, Typed
  <2>5. \A u \in Sessions \ {s} : \A q \in Requests : requestLock[q] = u => requestLock'[q] = u
    BY <2>4, LedgerAssumption
  <2>. QED BY <1>1, <2>1, <2>2, <2>3, <2>4, <2>5, LocalStepShape DEF Shape, Typed
<1>3. ASSUME NEW step \in {"lineWritten", "reconciled"}, LockLine(s, step),
             \/ step = "lineWritten" /\ At(s, "requestWritten", {"approve", "reject"})
             \/ step = "lineWritten" /\ At(s, "lineRead", {"setup"})
             \/ step = "reconciled" /\ At(s, "snapshot", {"create", "amend"})
      PROVE  Shape'
  <2>. DEFINE t == [tx[s] EXCEPT !.step = step]
  <2>1. /\ t \in Transactions /\ t.kind = tx[s].kind /\ t.request = tx[s].request
        /\ t.line = tx[s].line /\ t.amount = tx[s].amount /\ t.step = step
    BY <1>1, <1>3 DEF Transactions, Steps
  <2>2. tx' = [tx EXCEPT ![s] = t] /\ tx'[s] = t
    BY <1>1, <1>3 DEF LockLine, GoTo, Shape, Typed
  <2>. HIDE DEF t
  <2>3. tx[s].line \in Lines /\ TxWellFormed(s)'
    BY <1>1, <1>3, <2>1, <2>2 DEF At, TxWellFormed, ledger
  <2>4. /\ lineLock' = [l \in Lines |-> lineLock'[l]]
        /\ lineLock'[t.line] = s
        /\ \A l \in Lines : lineLock[l] # None => lineLock'[l] = lineLock[l]
        /\ requestLock' = requestLock
    BY <1>3, <2>1, <2>3 DEF LockLine, Shape, Typed
  <2>5. \A u \in Sessions \ {s} : \A l \in Lines : lineLock[l] = u => lineLock'[l] = u
    BY <2>4, LedgerAssumption
  <2>6. HoldsRequest(s)' => requestLock'[t.request] = s
    <3>1. HoldsRequest(s)' => HoldsRequest(s)
      BY <1>3, <2>1, <2>2 DEF HoldsRequest, At
    <3>. QED BY <2>1, <2>4, <3>1 DEF Shape, LocksHeld
  <2>. QED BY <1>1, <2>1, <2>2, <2>3, <2>4, <2>5, <2>6, LocalStepShape DEF Shape, Typed
<1>4. CASE WriteLineApproved(s) \/ WriteLineRejected(s) \/ WriteLineContract(s)
  BY <1>3, <1>4 DEF WriteLineApproved, WriteLineRejected, WriteLineContract, At
<1>5. CASE WriteLineCreated(s) \/ WriteLineAmended(s)
  BY <1>3, <1>5 DEF WriteLineCreated, WriteLineAmended, At
<1>. QED BY <1>2, <1>4, <1>5 DEF LockSteps

\* A rollback frees what its session holds and nothing else.
LEMMA RollbackShape ==
  ASSUME Shape, NEW s \in Sessions, Rollback(s)
  PROVE  Shape'
<1>1. tx' = [tx EXCEPT ![s] = NoTx] /\ tx'[s] = NoTx /\ UNCHANGED ledger
  BY DEF Rollback, Shape, Typed
<1>2. TxWellFormed(s)' /\ ~ HoldsLine(s)' /\ ~ HoldsRequest(s)'
  BY <1>1 DEF TxWellFormed, HoldsLine, HoldsRequest, NoTx
<1>3. /\ requestLock' \in [Requests -> Sessions \cup {None}]
      /\ lineLock' = [l \in Lines |-> lineLock'[l]]
      /\ \A u \in Sessions \ {s} :
           /\ \A l \in Lines : lineLock[l] = u => lineLock'[l] = u
           /\ \A r \in Requests : requestLock[r] = u => requestLock'[r] = u
  <2>1. /\ requestLock' = Unlocked(requestLock, s) /\ lineLock' = Unlocked(lineLock, s)
        /\ requestLock \in [Requests -> Sessions \cup {None}]
        /\ lineLock = [l \in Lines |-> lineLock[l]]
    BY DEF Rollback, Shape, Typed
  <2>2. /\ requestLock' \in [Requests -> Sessions \cup {None}]
        /\ \A x \in Requests, u \in Sessions \ {s} : requestLock[x] = u => requestLock'[x] = u
    BY <2>1 DEF Unlocked
  <2>3. /\ lineLock' = [l \in Lines |-> lineLock'[l]]
        /\ \A x \in Lines, u \in Sessions \ {s} : lineLock[x] = u => lineLock'[x] = u
    BY <2>1 DEF Unlocked
  <2>. QED BY <2>2, <2>3
<1>. QED BY <1>1, <1>2, <1>3, NoTxType, LocalStepShape

\* A commit writes one line row, and at most the request row it has locked,
\* which is or becomes a request of that line.
OneLineChanged(s) ==
  LET l == tx[s].line IN
  /\ l \in Lines
  /\ \A q \in Requests :
       fundRequest'[q] # fundRequest[q] =>
         /\ q = tx[s].request /\ HoldsRequest(s)
         /\ fundRequest[q].line \in {None, l}
         /\ fundRequest'[q].line = l /\ fundRequest'[q].status # "NONE"
  /\ \A k \in Lines \ {l} : /\ contractAmount'[k] = contractAmount[k]
                            /\ totals'[k] = totals[k]
                            /\ amendments'[k] = amendments[k]

\* The rows a commit changes are the session's own line and request.
LEMMA CommitChangesOneLine ==
  ASSUME Shape, NEW s \in Sessions, Commit(s)
  PROVE  OneLineChanged(s)
<1>. DEFINE l == tx[s].line
            r == tx[s].request
<1>1. /\ tx[s].step = "reconciled" /\ tx[s].kind # "none" /\ tx[s].kind \in Kinds
      /\ l \in Lines /\ TxWellFormed(s)
      /\ fundRequest \in [Requests -> RequestRows] /\ RowsWellFormed
      /\ fundRequest' = RowsSeenBy(s)
  BY DEF Commit, Shape, Typed, LedgerTypeOK, TxWellFormed, Transactions
<1>2. \A k \in Lines \ {l} : /\ contractAmount'[k] = contractAmount[k]
                             /\ totals'[k] = totals[k]
                             /\ amendments'[k] = amendments[k]
  BY DEF Commit, Shape, Typed, LedgerTypeOK
<1>3. ASSUME NEW q \in Requests, fundRequest'[q] # fundRequest[q]
      PROVE  /\ q = r /\ HoldsRequest(s)
             /\ fundRequest[q].line \in {None, l}
             /\ fundRequest'[q].line = l /\ fundRequest'[q].status # "NONE"
  <2>1. CASE tx[s].kind = "create"
    <3>1. fundRequest' = Inserted(fundRequest, r, l, tx[s].amount)
      BY <1>1, <2>1 DEF RowsSeenBy
    <3>. QED BY <1>1, <1>3, <2>1, <3>1
             DEF Inserted, HoldsRequest, TxWellFormed, RowsWellFormed, RequestRows
  <2>2. CASE tx[s].kind = "approve"
    <3>1. fundRequest' = Approved(fundRequest, r, tx[s].amount, s)
      BY <1>1, <2>2 DEF RowsSeenBy
    <3>. QED BY <1>1, <1>3, <2>2, <3>1 DEF Approved, HoldsRequest, TxWellFormed, RequestRows
  <2>3. CASE tx[s].kind = "reject"
    <3>1. fundRequest' = Rejected(fundRequest, r, s)
      BY <1>1, <2>3 DEF RowsSeenBy
    <3>. QED BY <1>1, <1>3, <2>3, <3>1 DEF Rejected, HoldsRequest, TxWellFormed, RequestRows
  <2>4. CASE tx[s].kind \in {"setup", "amend"}
    BY <1>1, <1>3, <2>4 DEF RowsSeenBy
  <2>. QED BY <1>1, <2>1, <2>2, <2>3, <2>4 DEF Kinds, AdminOperations
<1>. HIDE DEF l, r
<1>. QED BY <1>1, <1>2, <1>3 DEF OneLineChanged, l, r

\* What a commit of s does to the record of another session.
OutdatedBy(s, u) ==
  /\ tx'[u].step = tx[u].step /\ tx'[u].kind = tx[u].kind
  /\ tx'[u].request = tx[u].request /\ tx'[u].line = tx[u].line
  /\ tx'[u].amount = tx[u].amount /\ tx'[u].seen = tx[u].seen
  /\ tx'[u].result = tx[u].result
  /\ tx[u].step = "snapshot" /\ tx[u].line = tx[s].line => tx'[u].stale
  /\ tx[u].stale => tx'[u].stale

\* A commit ends its own transaction and outdates snapshots of its line.
LEMMA CommitTransactions ==
  ASSUME Shape, NEW s \in Sessions, Commit(s)
  PROVE  /\ tx' \in [Sessions -> Transactions]
         /\ tx'[s] = NoTx
         /\ \A u \in Sessions \ {s} : OutdatedBy(s, u)
<1>1. tx' = Outdate(s, tx[s].line) /\ tx \in [Sessions -> Transactions]
  BY DEF Commit, Shape, Typed
<1>2. ASSUME NEW u \in Sessions
      PROVE  [tx[u] EXCEPT !.stale = TRUE] \in Transactions
  BY <1>1 DEF Transactions
<1>3. tx' \in [Sessions -> Transactions]
  BY <1>1, <1>2, NoTxType DEF Outdate
<1>4. tx'[s] = NoTx
  BY <1>1 DEF Outdate
<1>5. ASSUME NEW u \in Sessions \ {s}
      PROVE  OutdatedBy(s, u)
  BY <1>1 DEF Outdate, OutdatedBy, Transactions
<1>. QED BY <1>3, <1>4, <1>5

\* A commit writes well-typed rows; no other transaction loses its own.
LEMMA CommitShape ==
  ASSUME Shape, NEW s \in Sessions, Commit(s)
  PROVE  Shape'
<1>1. /\ tx[s] \in Transactions /\ TxWellFormed(s) /\ tx[s].step = "reconciled"
      /\ tx[s].kind # "none" /\ tx[s].line \in Lines
      /\ RowsSeenBy(s) \in [Requests -> RequestRows] /\ ContractSeenBy(s) \in Nat
  BY ViewType DEF Commit, Shape, Typed, TxWellFormed
<1>2. OneLineChanged(s)
  BY CommitChangesOneLine
<1>3. /\ tx' \in [Sessions -> Transactions]
      /\ tx'[s] = NoTx
      /\ \A u \in Sessions \ {s} : OutdatedBy(s, u)
  BY CommitTransactions
<1>4. /\ requestLock' \in [Requests -> Sessions \cup {None}]
      /\ lineLock' = [l \in Lines |-> lineLock'[l]]
      /\ \A u \in Sessions \ {s} :
           /\ \A l \in Lines : lineLock[l] = u => lineLock'[l] = u
           /\ \A r \in Requests : requestLock[r] = u => requestLock'[r] = u
  <2>1. /\ requestLock' = Unlocked(requestLock, s) /\ lineLock' = Unlocked(lineLock, s)
        /\ requestLock \in [Requests -> Sessions \cup {None}]
        /\ lineLock = [l \in Lines |-> lineLock[l]]
    BY DEF Commit, Shape, Typed
  <2>2. /\ requestLock' \in [Requests -> Sessions \cup {None}]
        /\ \A x \in Requests, u \in Sessions \ {s} : requestLock[x] = u => requestLock'[x] = u
    BY <2>1 DEF Unlocked
  <2>3. /\ lineLock' = [l \in Lines |-> lineLock'[l]]
        /\ \A x \in Lines, u \in Sessions \ {s} : lineLock[x] = u => lineLock'[x] = u
    BY <2>1 DEF Unlocked
  <2>. QED BY <2>2, <2>3
<1>5. LedgerTypeOK'
  <2>1. fundRequest' \in [Requests -> RequestRows] /\ contractAmount' \in [Lines -> Nat]
    BY <1>1 DEF Commit, Shape, Typed, LedgerTypeOK
  <2>2. totals' \in [Lines -> Financials]
    BY <1>1 DEF Commit, Shape, Typed, LedgerTypeOK, Transactions
  <2>3. amendments' \in [Lines -> Seq(AmendmentRows)]
    <3>. DEFINE row == [oldAmount |-> tx[s].seen.contract, newAmount |-> tx[s].amount]
    <3>1. row \in AmendmentRows
      BY <1>1 DEF Transactions, LineViews, AmendmentRows
    <3>2. amendments \in [Lines -> Seq(AmendmentRows)]
      BY DEF Shape, Typed, LedgerTypeOK
    <3>3. Append(amendments[tx[s].line], row) \in Seq(AmendmentRows)
      BY <1>1, <3>1, <3>2
    <3>. QED BY <3>2, <3>3 DEF Commit
  <2>. QED BY <2>1, <2>2, <2>3 DEF LedgerTypeOK
<1>6. Typed'
  BY <1>3, <1>4, <1>5 DEF Typed
<1>7. RowsWellFormed'
  BY <1>2 DEF OneLineChanged, RowsWellFormed, Shape
<1>8. ASSUME NEW u \in Sessions
      PROVE  TxWellFormed(u)'
  <2>1. CASE u = s
    BY <1>3, <2>1 DEF TxWellFormed, NoTx
  <2>2. CASE u # s
    <3>1. OutdatedBy(s, u) /\ TxWellFormed(u)
      BY <1>3, <2>2 DEF Shape
    <3>2. tx[u].kind \in {"approve", "reject", "setup"} =>
            LET q == tx[u].request IN
            fundRequest'[q].status # "NONE" /\ fundRequest'[q].line = fundRequest[q].line
      BY <1>2, <3>1, LedgerAssumption DEF OneLineChanged, TxWellFormed, Shape, RowsWellFormed
    <3>3. tx[u].kind = "create" => fundRequest'[tx[u].request].status = "NONE"
      <4>1. tx[u].kind = "create" => requestLock[tx[u].request] = u
        BY DEF Shape, LocksHeld, HoldsRequest
      <4>2. HoldsRequest(s) => requestLock[tx[s].request] = s
        BY DEF Shape, LocksHeld
      <4>. QED BY <1>2, <2>2, <3>1, <4>1, <4>2 DEF OneLineChanged, TxWellFormed
    <3>. QED BY <3>1, <3>2, <3>3 DEF OutdatedBy, TxWellFormed
  <2>. QED BY <2>1, <2>2
<1>9. LocksHeld'
  <2>. SUFFICES ASSUME NEW u \in Sessions
                PROVE  /\ HoldsLine(u)' => lineLock'[tx'[u].line] = u
                       /\ HoldsRequest(u)' => requestLock'[tx'[u].request] = u
    BY DEF LocksHeld
  <2>1. CASE u = s
    BY <1>3, <2>1 DEF HoldsLine, HoldsRequest, NoTx
  <2>2. CASE u # s
    <3>1. OutdatedBy(s, u) /\ TxWellFormed(u)
      BY <1>3, <2>2 DEF Shape
    <3>2. HoldsLine(u)' => tx[u].line \in Lines /\ lineLock[tx[u].line] = u
      BY <3>1 DEF Shape, LocksHeld, HoldsLine, TxWellFormed, OutdatedBy
    <3>3. HoldsRequest(u)' => tx[u].request \in Requests /\ requestLock[tx[u].request] = u
      BY <3>1 DEF Shape, LocksHeld, HoldsRequest, TxWellFormed, OutdatedBy
    <3>. QED BY <1>4, <2>2, <3>1, <3>2, <3>3 DEF OutdatedBy
  <2>. QED BY <2>1, <2>2
<1>. QED BY <1>6, <1>7, <1>8, <1>9 DEF Shape

\* Every operation begins in the shape, whatever input it is given.
LEMMA BeginShape ==
  ASSUME Shape, NEW s \in Sessions, Begin(s)
  PROVE  Shape'
<1>1. ASSUME NEW r \in Requests, NEW amount \in Overrides \cup {fundRequest[r].amount},
             ReadRequest(s, "approve", r, amount)
      PROVE  Shape'
  <2>1. amount \in Nat
    BY LedgerAssumption DEF Shape, Typed, LedgerTypeOK, RequestRows
  <2>. QED BY <1>1, <2>1, ReadRequestShape
<1>2. ASSUME NEW r \in Requests, ReadRequest(s, "reject", r, fundRequest[r].amount)
      PROVE  Shape'
  <2>1. fundRequest[r].amount \in Nat
    BY DEF Shape, Typed, LedgerTypeOK, RequestRows
  <2>. QED BY <1>2, <2>1, ReadRequestShape
<1>3. ASSUME NEW r \in Requests, NEW amount \in Contracts, ReadRequest(s, "setup", r, amount)
      PROVE  Shape'
  BY <1>3, LedgerAssumption, ReadRequestShape
<1>4. ASSUME NEW r \in Requests, NEW l \in Lines, NEW amount \in Amounts,
             BeginCreate(s, r, l, amount)
      PROVE  Shape'
  BY <1>4, LedgerAssumption, BeginCreateShape
<1>5. ASSUME NEW l \in Lines, NEW amount \in Contracts, BeginAmend(s, l, amount)
      PROVE  Shape'
  BY <1>5, LedgerAssumption, BeginAmendShape
<1>. QED BY <1>1, <1>2, <1>3, <1>4, <1>5 DEF Begin

\* Every step of every session keeps the shape.
LEMMA NextShape == Shape /\ [Next]_vars => Shape'
<1>. SUFFICES ASSUME Shape, [Next]_vars PROVE Shape'
  OBVIOUS
<1>1. CASE UNCHANGED vars
  BY <1>1 DEF vars, ledger, Shape, Typed, LedgerTypeOK, RowsWellFormed, TxWellFormed,
     LocksHeld, HoldsLine, HoldsRequest
<1>2. ASSUME NEW s \in Sessions,
             Begin(s) \/ ReadSteps(s) \/ LockSteps(s) \/ Commit(s) \/ Throw(s) \/ Abort(s)
      PROVE  Shape'
  BY <1>2, BeginShape, ReadStepsShape, LockStepsShape, CommitShape, RollbackShape DEF Throw, Abort
<1>. QED BY <1>1, <1>2 DEF Next

\* Only sessions hold the locks of lines.
LockedBySessions == lineLock \in [Lines -> Sessions \cup {None}]

\* A statement of a session locks a line for itself or frees its own.
LEMMA NextLocked == Shape /\ LockedBySessions /\ [Next]_vars => LockedBySessions'
<1>. SUFFICES ASSUME Shape, LockedBySessions, [Next]_vars PROVE LockedBySessions'
  OBVIOUS
<1>. USE DEF LockedBySessions
<1>1. CASE UNCHANGED vars
  BY <1>1 DEF vars
<1>2. ASSUME NEW s \in Sessions,
             Begin(s) \/ ReadSteps(s) \/ LockSteps(s) \/ Commit(s) \/ Throw(s) \/ Abort(s)
      PROVE  LockedBySessions'
  <2>1. CASE Begin(s)
    BY <2>1 DEF Begin, ReadRequest, BeginCreate, BeginAmend
  <2>2. CASE ReadSteps(s)
    BY <2>2 DEF ReadSteps, ReadLine, CheckApproval, ReadContract, ReadSums
  <2>3. CASE LockSteps(s)
    BY <2>3 DEF LockSteps, WriteRequest, WriteLineApproved, WriteLineRejected, WriteLineContract,
       WriteLineCreated, WriteLineAmended, LockLine
  <2>4. CASE Commit(s) \/ Throw(s) \/ Abort(s)
    BY <2>4 DEF Commit, Throw, Abort, Rollback, Unlocked
  <2>. QED BY <1>2, <2>1, <2>2, <2>3, <2>4
<1>. QED BY <1>1, <1>2 DEF Next

\* In every reachable state every variable has its type: in particular no
\* cached total is ever negative, whatever the sessions do together.
THEOREM TypeCorrect == Spec => []TypeOK
<1>1. Init => Shape /\ LockedBySessions
  BY InitShape DEF Init, LockedBySessions
<1>2. Shape /\ LockedBySessions /\ [Next]_vars => Shape' /\ LockedBySessions'
  BY NextShape, NextLocked
<1>3. Shape /\ LockedBySessions => TypeOK
  BY DEF Shape, Typed, TypeOK, LockedBySessions
<1>. QED BY <1>1, <1>2, <1>3, PTL DEF Spec

-----------------------------------------------------------------------------
(* What a transaction is about to write is still true of the tables.       *)

\* From the line's lock, or its snapshot while nobody has updated the line,
\* a session knows the current rows and contract of the line it works on.
Fresh(s) ==
  LET t == tx[s] IN
  /\ t.step = "contractRead" => t.seen.contract = ContractSeenBy(s)
  /\ t.step = "reconciled" \/ (t.step = "snapshot" /\ ~ t.stale) =>
       /\ t.result = computeFinancials(RowsSeenBy(s), t.line, ContractSeenBy(s))
       /\ t.kind = "create" => FitsContract(fundRequest, t.line, contractAmount[t.line], t.amount)
       /\ t.kind = "amend" => /\ t.seen.contract = contractAmount[t.line]
                              /\ contractAmount[t.line] # 0
  /\ t.step = "reconciled" /\ t.kind = "amend" => t.result.totalApprovedAmount <= t.amount

Consistent ==
  /\ Shape
  /\ \A s \in Sessions : Fresh(s)

\* An idle session relies on nothing.
LEMMA InitConsistent == Init => Consistent
BY InitShape DEF Init, Fresh, NoTx, Consistent

\* A step inside a transaction leaves what the others know untouched.
LEMMA LocalStepFresh ==
  ASSUME Consistent, NEW s \in Sessions, UNCHANGED ledger,
         NEW t, tx' = [tx EXCEPT ![s] = t]
  PROVE  \A u \in Sessions \ {s} : Fresh(u)'
<1>. SUFFICES ASSUME NEW u \in Sessions \ {s} PROVE Fresh(u)'
  OBVIOUS
<1>1. tx'[u] = tx[u] /\ fundRequest' = fundRequest /\ contractAmount' = contractAmount
  BY DEF Consistent, Shape, Typed, ledger
<1>2. RowsSeenBy(u)' = RowsSeenBy(u) /\ ContractSeenBy(u)' = ContractSeenBy(u)
  BY <1>1 DEF RowsSeenBy, ContractSeenBy
<1>. QED BY <1>1, <1>2 DEF Consistent, Fresh

\* The snapshot of a create or an amendment is current when it is taken.
LEMMA BeginFresh ==
  ASSUME Consistent, NEW s \in Sessions, Begin(s)
  PROVE  \A u \in Sessions : Fresh(u)'
<1>. USE DEF Consistent, Shape, Typed
<1>1. ASSUME NEW r \in Requests, NEW kind, NEW amount, ReadRequest(s, kind, r, amount)
      PROVE  \A u \in Sessions : Fresh(u)'
  <2>1. Fresh(s)'
    BY <1>1 DEF ReadRequest, NoTx, Fresh
  <2>. QED BY <1>1, <2>1, LocalStepFresh DEF ReadRequest
<1>2. ASSUME NEW r \in Requests, NEW l \in Lines, NEW amount \in Amounts,
             BeginCreate(s, r, l, amount)
      PROVE  \A u \in Sessions : Fresh(u)'
  <2>1. /\ tx'[s].step = "snapshot" /\ tx'[s].kind = "create" /\ tx'[s].request = r
        /\ tx'[s].line = l /\ tx'[s].amount = amount
        /\ tx'[s].result = computeFinancials(Inserted(fundRequest, r, l, amount), l,
                                             contractAmount[l])
    BY <1>2 DEF BeginCreate, NoTx
  <2>2. fundRequest' = fundRequest /\ contractAmount' = contractAmount
    BY <1>2 DEF BeginCreate, ledger
  <2>3. /\ RowsSeenBy(s)' = Inserted(fundRequest, r, l, amount)
        /\ ContractSeenBy(s)' = contractAmount[l]
    BY <2>1, <2>2 DEF RowsSeenBy, ContractSeenBy
  <2>4. FitsContract(fundRequest, l, contractAmount[l], amount)
    BY <1>2 DEF BeginCreate
  <2>5. Fresh(s)'
    BY <2>1, <2>2, <2>3, <2>4 DEF Fresh
  <2>. QED BY <1>2, <2>5, LocalStepFresh DEF BeginCreate
<1>3. ASSUME NEW l \in Lines, NEW amount \in Contracts, BeginAmend(s, l, amount)
      PROVE  \A u \in Sessions : Fresh(u)'
  <2>1. /\ tx'[s].step = "snapshot" /\ tx'[s].kind = "amend"
        /\ tx'[s].line = l /\ tx'[s].amount = amount /\ tx'[s].seen = LineRow(l)
        /\ tx'[s].result = computeFinancials(fundRequest, l, amount)
    BY <1>3 DEF BeginAmend, NoTx
  <2>2. fundRequest' = fundRequest /\ contractAmount' = contractAmount /\ contractAmount[l] # 0
    BY <1>3 DEF BeginAmend, ledger
  <2>3. RowsSeenBy(s)' = fundRequest /\ ContractSeenBy(s)' = amount
    BY <2>1, <2>2 DEF RowsSeenBy, ContractSeenBy
  <2>4. Fresh(s)'
    BY <2>1, <2>2, <2>3 DEF Fresh, LineRow
  <2>. QED BY <1>3, <2>4, LocalStepFresh DEF BeginAmend
<1>. QED BY <1>1, <1>2, <1>3 DEF Begin

\* Reconciling under the line's lock reads current rows, and a create or an
\* amendment takes that lock only if its snapshot is not outdated.
LEMMA InnerStepFresh ==
  ASSUME Consistent, NEW s \in Sessions, ReadSteps(s) \/ LockSteps(s)
  PROVE  \A u \in Sessions : Fresh(u)'
<1>. USE DEF Consistent, Shape, Typed
<1>1. ASSUME NEW t, tx' = [tx EXCEPT ![s] = t], UNCHANGED ledger, Fresh(s)'
      PROVE  \A u \in Sessions : Fresh(u)'
  BY <1>1, LocalStepFresh
<1>2. ASSUME NEW step, GoTo(s, step), UNCHANGED ledger,
             step \notin {"contractRead", "reconciled", "snapshot"}
      PROVE  \A u \in Sessions : Fresh(u)'
  <2>1. Fresh(s)'
    BY <1>2 DEF GoTo, Fresh, Transactions
  <2>. QED BY <1>1, <1>2, <2>1 DEF GoTo
<1>3. CASE ReadLine(s)
  <2>1. Fresh(s)'
    BY <1>3 DEF ReadLine, Fresh, Transactions
  <2>. QED BY <1>1, <1>3, <2>1 DEF ReadLine
<1>4. CASE CheckApproval(s)
  BY <1>2, <1>4 DEF CheckApproval
<1>5. CASE ReadContract(s)
  <2>1. /\ tx'[s].step = "contractRead" /\ tx'[s].seen.contract = ContractSeenBy(s)
        /\ tx'[s].kind = tx[s].kind /\ tx'[s].amount = tx[s].amount
        /\ tx'[s].line = tx[s].line /\ contractAmount' = contractAmount
    BY <1>5 DEF ReadContract, ledger, Transactions, LineViews
  <2>2. Fresh(s)'
    BY <2>1 DEF Fresh, ContractSeenBy
  <2>3. tx' = [tx EXCEPT ![s] = [tx[s] EXCEPT !.step = "contractRead",
                                             !.seen.contract = ContractSeenBy(s)]]
    BY <1>5 DEF ReadContract
  <2>. QED BY <1>1, <1>5, <2>2, <2>3 DEF ReadContract
<1>6. CASE ReadSums(s)
  <2>1. /\ tx'[s].step = "reconciled" /\ tx'[s].kind = tx[s].kind
        /\ tx'[s].request = tx[s].request /\ tx'[s].amount = tx[s].amount
        /\ tx'[s].line = tx[s].line /\ contractAmount' = contractAmount
        /\ fundRequest' = fundRequest
        /\ tx'[s].result = computeFinancials(RowsSeenBy(s), tx[s].line, tx[s].seen.contract)
    BY <1>6 DEF ReadSums, ledger, Transactions
  <2>2. RowsSeenBy(s)' = RowsSeenBy(s) /\ ContractSeenBy(s)' = ContractSeenBy(s)
    BY <2>1 DEF RowsSeenBy, ContractSeenBy
  <2>3. tx[s].seen.contract = ContractSeenBy(s) /\ tx[s].kind \in {"approve", "reject", "setup"}
    BY <1>6 DEF ReadSums, Fresh, TxWellFormed
  <2>4. Fresh(s)'
    BY <2>1, <2>2, <2>3 DEF Fresh
  <2>. QED BY <1>1, <1>6, <2>4 DEF ReadSums
<1>7. CASE WriteRequest(s)
  BY <1>2, <1>7 DEF WriteRequest
<1>8. CASE WriteLineApproved(s) \/ WriteLineRejected(s) \/ WriteLineContract(s)
  BY <1>2, <1>8 DEF WriteLineApproved, WriteLineRejected, WriteLineContract, LockLine
<1>9. CASE WriteLineCreated(s) \/ WriteLineAmended(s)
  <2>1. /\ tx[s].step = "snapshot" /\ ~ tx[s].stale
        /\ tx[s].kind = "amend" => tx[s].result.totalApprovedAmount <= tx[s].amount
        /\ LockLine(s, "reconciled")
    BY <1>9 DEF WriteLineCreated, WriteLineAmended, At, AmendmentAllowed
  <2>2. /\ tx'[s].step = "reconciled" /\ tx'[s].kind = tx[s].kind
        /\ tx'[s].request = tx[s].request /\ tx'[s].amount = tx[s].amount
        /\ tx'[s].line = tx[s].line /\ tx'[s].result = tx[s].result /\ tx'[s].seen = tx[s].seen
        /\ contractAmount' = contractAmount /\ fundRequest' = fundRequest
    BY <2>1 DEF LockLine, GoTo, ledger, Transactions
  <2>3. RowsSeenBy(s)' = RowsSeenBy(s) /\ ContractSeenBy(s)' = ContractSeenBy(s)
    BY <2>2 DEF RowsSeenBy, ContractSeenBy
  <2>4. Fresh(s)'
    BY <2>1, <2>2, <2>3 DEF Fresh
  <2>. QED BY <1>1, <2>1, <2>4 DEF LockLine, GoTo
<1>. QED BY <1>3, <1>4, <1>5, <1>6, <1>7, <1>8, <1>9 DEF ReadSteps, LockSteps

\* A rollback changes nothing the others know.
LEMMA RollbackFresh ==
  ASSUME Consistent, NEW s \in Sessions, Rollback(s)
  PROVE  \A u \in Sessions : Fresh(u)'
<1>1. Fresh(s)'
  BY DEF Consistent, Shape, Typed, Rollback, NoTx, Fresh
<1>. QED BY <1>1, LocalStepFresh DEF Rollback

\* Another session that still relies on its line works on another line: the
\* committing one held the lock of its own, or has outdated the snapshots.
LEMMA CommitElsewhere ==
  ASSUME Consistent, NEW s \in Sessions, Commit(s), NEW u \in Sessions \ {s},
         \/ tx'[u].step \in {"contractRead", "reconciled"}
         \/ tx'[u].step = "snapshot" /\ ~ tx'[u].stale
  PROVE  /\ tx[u].line \in Lines /\ tx[u].line # tx[s].line
         /\ \A q \in Requests : \/ fundRequest'[q] = fundRequest[q]
                                \/ /\ fundRequest[q].line # tx[u].line
                                   /\ fundRequest'[q].line # tx[u].line
         /\ \A q \in Requests : \/ RowsSeenBy(u)'[q] = RowsSeenBy(u)[q]
                                \/ /\ RowsSeenBy(u)[q].line # tx[u].line
                                   /\ RowsSeenBy(u)'[q].line # tx[u].line
         /\ contractAmount'[tx[u].line] = contractAmount[tx[u].line]
         /\ ContractSeenBy(u)' = ContractSeenBy(u)
<1>. USE DEF Consistent, Shape
<1>1. OutdatedBy(s, u) /\ OneLineChanged(s) /\ TxWellFormed(u) /\ tx[u].kind # "none"
  BY CommitTransactions, CommitChangesOneLine DEF OutdatedBy, TxWellFormed
<1>2. tx[u].line \in Lines /\ tx[u].line # tx[s].line
  <2>1. CASE tx'[u].step = "snapshot"
    BY <1>1, <2>1 DEF OutdatedBy, TxWellFormed
  <2>2. CASE tx'[u].step \in {"contractRead", "reconciled"}
    <3>1. HoldsLine(u) /\ HoldsLine(s)
      BY <1>1, <2>2 DEF OutdatedBy, HoldsLine, Commit
    <3>2. lineLock[tx[u].line] = u /\ lineLock[tx[s].line] = s
      BY <3>1 DEF LocksHeld
    <3>. QED BY <1>1, <3>2 DEF TxWellFormed
  <2>. QED BY <2>1, <2>2
<1>3. \A q \in Requests : \/ fundRequest'[q] = fundRequest[q]
                          \/ /\ fundRequest[q].line # tx[u].line
                             /\ fundRequest'[q].line # tx[u].line
  BY <1>1, <1>2, LedgerAssumption DEF OneLineChanged
<1>4. contractAmount'[tx[u].line] = contractAmount[tx[u].line]
  BY <1>1, <1>2 DEF OneLineChanged
<1>5. ContractSeenBy(u)' = ContractSeenBy(u)
  BY <1>1, <1>4 DEF ContractSeenBy, OutdatedBy
<1>6. ASSUME NEW q \in Requests
      PROVE  \/ RowsSeenBy(u)'[q] = RowsSeenBy(u)[q]
             \/ /\ RowsSeenBy(u)[q].line # tx[u].line
                /\ RowsSeenBy(u)'[q].line # tx[u].line
  <2>. DEFINE r == tx[u].request
  <2>1. fundRequest \in [Requests -> RequestRows] /\ fundRequest' \in [Requests -> RequestRows]
    BY CommitShape DEF Typed, LedgerTypeOK
  <2>2. CASE tx[u].kind \in {"create", "approve", "reject"}
    <3>1. HoldsRequest(u)
      BY <1>1, <2>2 DEF HoldsRequest, TxWellFormed, OutdatedBy
    <3>2. fundRequest'[r] = fundRequest[r]
      <4>1. requestLock[r] = u /\ r \in Requests
        BY <1>1, <2>2, <3>1 DEF LocksHeld, TxWellFormed
      <4>2. HoldsRequest(s) => requestLock[tx[s].request] = s
        BY DEF LocksHeld
      <4>. QED BY <1>1, <4>1, <4>2 DEF OneLineChanged
    <3>3. q # r => RowsSeenBy(u)'[q] = fundRequest'[q] /\ RowsSeenBy(u)[q] = fundRequest[q]
      BY <1>1, <2>1, <2>2 DEF RowsSeenBy, Inserted, Approved, Rejected, OutdatedBy
    <3>4. q = r => RowsSeenBy(u)'[q] = RowsSeenBy(u)[q]
      BY <1>1, <2>1, <2>2, <3>2 DEF RowsSeenBy, Inserted, Approved, Rejected, OutdatedBy
    <3>. QED BY <1>3, <3>3, <3>4
  <2>3. CASE tx[u].kind \notin {"create", "approve", "reject"}
    <3>1. RowsSeenBy(u)' = fundRequest' /\ RowsSeenBy(u) = fundRequest
      BY <1>1, <2>3 DEF RowsSeenBy, OutdatedBy
    <3>. QED BY <1>3, <3>1
  <2>. QED BY <2>2, <2>3
<1>. QED BY <1>2, <1>3, <1>4, <1>5, <1>6

\* A commit installs the reconciled columns of its line.
LEMMA CommitReconcilesLine ==
  ASSUME Consistent, NEW s \in Sessions, Commit(s)
  PROVE  LET l == tx[s].line IN
         totals'[l] = computeFinancials(fundRequest', l, contractAmount'[l])
<1>. USE DEF Consistent, Shape
<1>. DEFINE l == tx[s].line
<1>1. l \in Lines
  BY CommitChangesOneLine DEF OneLineChanged
<1>2. /\ fundRequest' = RowsSeenBy(s)
      /\ contractAmount'[l] = ContractSeenBy(s)
      /\ totals'[l] = tx[s].result
  BY <1>1 DEF Commit, Typed, LedgerTypeOK
<1>3. tx[s].result = computeFinancials(RowsSeenBy(s), l, ContractSeenBy(s))
  BY DEF Commit, Fresh
<1>. QED BY <1>2, <1>3

\* Totals that agree with the data do so after a commit.
LEMMA CommitAgrees ==
  ASSUME Consistent, TotalsAgree, NEW s \in Sessions, Commit(s)
  PROVE  TotalsAgree'
<1>. SUFFICES ASSUME NEW l \in Lines
              PROVE  totals'[l] = computeFinancials(fundRequest', l, contractAmount'[l])
  BY DEF TotalsAgree
<1>1. OneLineChanged(s)
  BY CommitChangesOneLine DEF Consistent
<1>2. CASE l = tx[s].line
  BY <1>2, CommitReconcilesLine
<1>3. CASE l # tx[s].line
  <2>1. totals'[l] = totals[l] /\ contractAmount'[l] = contractAmount[l]
    BY <1>1, <1>3 DEF OneLineChanged
  <2>2. \A q \in Requests : \/ fundRequest'[q] = fundRequest[q]
                            \/ fundRequest[q].line # l /\ fundRequest'[q].line # l
    BY <1>1, <1>3, LedgerAssumption DEF OneLineChanged
  <2>3. computeFinancials(fundRequest', l, contractAmount[l])
          = computeFinancials(fundRequest, l, contractAmount[l])
    BY <2>2, SameLineSameFinancials
  <2>. QED BY <2>1, <2>3 DEF TotalsAgree
<1>. QED BY <1>2, <1>3

\* A commit leaves what the others know true.
LEMMA CommitFresh ==
  ASSUME Consistent, NEW s \in Sessions, Commit(s)
  PROVE  \A u \in Sessions : Fresh(u)'
<1>. USE DEF Consistent, Shape
<1>1. tx'[s] = NoTx
  BY CommitTransactions
<1>2. Fresh(s)'
  BY <1>1 DEF Fresh, NoTx
<1>3. ASSUME NEW u \in Sessions \ {s}
      PROVE  Fresh(u)'
  <2>. DEFINE l == tx[u].line
  <2>1. OutdatedBy(s, u)
    BY CommitTransactions
  <2>2. CASE \/ tx'[u].step \in {"contractRead", "reconciled"}
             \/ tx'[u].step = "snapshot" /\ ~ tx'[u].stale
    <3>1. /\ \A q \in Requests : \/ fundRequest'[q] = fundRequest[q]
                                 \/ fundRequest[q].line # l /\ fundRequest'[q].line # l
          /\ \A q \in Requests : \/ RowsSeenBy(u)'[q] = RowsSeenBy(u)[q]
                                 \/ RowsSeenBy(u)[q].line # l /\ RowsSeenBy(u)'[q].line # l
          /\ contractAmount'[l] = contractAmount[l]
          /\ ContractSeenBy(u)' = ContractSeenBy(u)
      BY <2>2, CommitElsewhere
    <3>2. computeFinancials(RowsSeenBy(u)', l, ContractSeenBy(u))
            = computeFinancials(RowsSeenBy(u), l, ContractSeenBy(u))
      BY <3>1, SameLineSameFinancials
    <3>3. SumRequested(fundRequest', l, {"PENDING", "APPROVED"}, {})
            = SumRequested(fundRequest, l, {"PENDING", "APPROVED"}, {})
      BY <3>1, SameLineSameSum
    <3>4. FitsContract(fundRequest, l, contractAmount[l], tx[u].amount)
            => FitsContract(fundRequest', l, contractAmount'[l], tx[u].amount)
      BY <3>1, <3>3 DEF FitsContract
    <3>. QED BY <2>1, <3>1, <3>2, <3>4 DEF OutdatedBy, Fresh
  <2>3. CASE ~ \/ tx'[u].step \in {"contractRead", "reconciled"}
               \/ tx'[u].step = "snapshot" /\ ~ tx'[u].stale
    BY <2>3 DEF Fresh
  <2>. QED BY <2>2, <2>3
<1>. QED BY <1>2, <1>3

\* Every step of every session keeps the tables consistent.
LEMMA NextConsistent == Consistent /\ [Next]_vars => Consistent'
<1>. SUFFICES ASSUME Consistent, [Next]_vars PROVE Consistent'
  OBVIOUS
<1>1. Shape'
  BY NextShape DEF Consistent
<1>2. CASE UNCHANGED vars
  <2>1. \A s \in Sessions : Fresh(s)'
    BY <1>2 DEF vars, ledger, Consistent, Fresh, RowsSeenBy, ContractSeenBy
  <2>. QED BY <1>1, <2>1 DEF Consistent
<1>3. ASSUME NEW s \in Sessions,
             Begin(s) \/ ReadSteps(s) \/ LockSteps(s) \/ Commit(s) \/ Throw(s) \/ Abort(s)
      PROVE  \A u \in Sessions : Fresh(u)'
  BY <1>3, BeginFresh, InnerStepFresh, CommitFresh, RollbackFresh DEF Throw, Abort
<1>. QED BY <1>1, <1>2, <1>3 DEF Next, Consistent

-----------------------------------------------------------------------------
(* The guarantees that hold for any number of concurrent sessions.         *)

\* Nothing is visible of a transaction before it commits.
LEMMA OnlyCommitsChangeTheLedger ==
  ASSUME [Next]_vars, ~ UNCHANGED ledger
  PROVE  \E s \in Sessions : Commit(s)
<1>1. CASE UNCHANGED vars
  BY <1>1 DEF vars
<1>2. ASSUME NEW s \in Sessions,
             Begin(s) \/ ReadSteps(s) \/ LockSteps(s) \/ Throw(s) \/ Abort(s)
      PROVE  UNCHANGED ledger
  <2>1. CASE Begin(s)
    BY <2>1 DEF Begin, ReadRequest, BeginCreate, BeginAmend
  <2>2. CASE ReadSteps(s)
    BY <2>2 DEF ReadSteps, ReadLine, CheckApproval, ReadContract, ReadSums
  <2>3. CASE LockSteps(s)
    BY <2>3 DEF LockSteps, WriteRequest, WriteLineApproved, WriteLineRejected, WriteLineContract,
       WriteLineCreated, WriteLineAmended, LockLine
  <2>4. CASE Throw(s) \/ Abort(s)
    BY <2>4 DEF Throw, Abort, Rollback
  <2>. QED BY <1>2, <2>1, <2>2, <2>3, <2>4
<1>. QED BY <1>1, <1>2 DEF Next

\* A request a commit makes visible fits its line's contract.
LEMMA CommittedRequestFits ==
  ASSUME Consistent, NEW s \in Sessions, Commit(s), NEW r \in Requests,
         fundRequest[r].status = "NONE", fundRequest'[r].status # "NONE"
  PROVE  LET l == fundRequest'[r].line IN
         FitsContract(fundRequest, l, contractAmount[l], fundRequest'[r].amount)
<1>. USE DEF Consistent, Shape
<1>1. r = tx[s].request /\ HoldsRequest(s) /\ fundRequest'[r].line = tx[s].line
  BY CommitChangesOneLine DEF OneLineChanged
<1>2. tx[s].kind = "create"
  BY <1>1 DEF HoldsRequest, TxWellFormed
<1>3. fundRequest'[r].amount = tx[s].amount
  BY <1>1, <1>2 DEF Commit, RowsSeenBy, Inserted, Typed, LedgerTypeOK
<1>. QED BY <1>1, <1>2, <1>3 DEF Commit, Fresh

\* An amendment a commit makes visible covers what is approved.
LEMMA CommittedAmendmentCovers ==
  ASSUME Consistent, NEW s \in Sessions, Commit(s),
         NEW l \in Lines, amendments'[l] # amendments[l]
  PROVE  SumRequested(fundRequest, l, {"APPROVED"}, {}) <= contractAmount'[l]
<1>. USE DEF Consistent, Shape
<1>1. tx[s].kind = "amend" /\ tx[s].line = l
  BY CommitChangesOneLine DEF Commit, OneLineChanged
<1>2. tx[s].step = "reconciled" /\ RowsSeenBy(s) = fundRequest /\ ContractSeenBy(s) = tx[s].amount
  BY <1>1 DEF Commit, RowsSeenBy, ContractSeenBy
<1>3. tx[s].result.totalApprovedAmount <= tx[s].amount
  BY <1>1, <1>2 DEF Fresh
<1>4. tx[s].result.totalApprovedAmount = SumRequested(fundRequest, l, {"APPROVED"}, {})
  <2>1. tx[s].result = computeFinancials(fundRequest, l, tx[s].amount)
    BY <1>1, <1>2 DEF Fresh
  <2>. QED BY <2>1 DEF computeFinancials
<1>5. contractAmount'[l] = tx[s].amount
  BY <1>1, <1>2 DEF Commit, Typed, LedgerTypeOK
<1>. QED BY <1>3, <1>4, <1>5

\* The cached totals of every line are always those of its requests and its
\* contract: no interleaving of the ledger's own operations loses an update.
THEOREM TotalsAlwaysAgree == Spec => []TotalsAgree
<1>1. Init => Consistent /\ TotalsAgree
  <2>1. ASSUME Init, NEW l \in Lines
        PROVE  totals[l] = computeFinancials(fundRequest, l, contractAmount[l])
    BY <2>1, EmptyFinancials DEF Init, LedgerInit
  <2>. QED BY <2>1, InitConsistent DEF TotalsAgree
<1>2. Consistent /\ TotalsAgree /\ [Next]_vars => Consistent' /\ TotalsAgree'
  <2>1. ASSUME Consistent, TotalsAgree, [Next]_vars, ~ UNCHANGED ledger
        PROVE  TotalsAgree'
    BY <2>1, OnlyCommitsChangeTheLedger, CommitAgrees
  <2>2. TotalsAgree /\ UNCHANGED ledger => TotalsAgree'
    BY DEF TotalsAgree, ledger
  <2>. QED BY <2>1, <2>2, NextConsistent
<1>. QED BY <1>1, <1>2, PTL DEF Spec

\* A request that becomes visible fits the line's contract with all the
\* requests visible at that moment, whatever was committed since its check.
THEOREM CreatesFitContract == Spec => CreateWithinContract
<1>. DEFINE Fits == \A r \in Requests :
              fundRequest[r].status = "NONE" /\ fundRequest'[r].status # "NONE"
                => LET l == fundRequest'[r].line IN
                   FitsContract(fundRequest, l, contractAmount[l], fundRequest'[r].amount)
<1>1. Init => Consistent
  BY InitConsistent
<1>2. Consistent /\ [Next]_vars => Consistent'
  BY NextConsistent
<1>3. Consistent /\ [Next]_vars => [Fits]_ledger
  BY OnlyCommitsChangeTheLedger, CommittedRequestFits
<1>. QED BY <1>1, <1>2, <1>3, PTL DEF Spec, CreateWithinContract

\* An amendment that becomes visible covers everything approved on its line
\* at that moment, whatever approvals were in progress when it was checked.
THEOREM AmendmentsCoverApproved == Spec => AmendmentCoversApproved
<1>. DEFINE Covers == \A l \in Lines :
              amendments'[l] # amendments[l]
                => SumRequested(fundRequest, l, {"APPROVED"}, {}) <= contractAmount'[l]
<1>1. Init => Consistent
  BY InitConsistent
<1>2. Consistent /\ [Next]_vars => Consistent'
  BY NextConsistent
<1>3. Consistent /\ [Next]_vars => [Covers]_ledger
  BY OnlyCommitsChangeTheLedger, CommittedAmendmentCovers
<1>. QED BY <1>1, <1>2, <1>3, PTL DEF Spec, AmendmentCoversApproved
=============================================================================
