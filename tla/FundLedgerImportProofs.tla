----------------------- MODULE FundLedgerImportProofs -----------------------
(***************************************************************************)
(* Theorems about FundLedgerImport: which rules of the ledger survive the  *)
(* imports, for any number of jobs beside any number of sessions.  That    *)
(* the cached totals agree with the data is not one of them.               *)
(*                                                                         *)
(* The invariants of FundLedgerProofs and ApprovalProofs do not mention    *)
(* the totals, nor who locks a line that no session has locked; a step of  *)
(* the worker keeps them, whatever it writes.                              *)
(***************************************************************************)
EXTENDS FundLedgerImport, ApprovalProofs

LockedBySomebody == lineLock \in [Lines -> Sessions \cup Importers \cup {None}]

ImportInv ==
  /\ Consistent
  /\ LockedBySomebody
  /\ job \in [Importers -> Jobs]

\* A step of the worker: it leaves the rows and the locks of the sessions
\* alone, and what it does to their transactions is to outdate snapshots.
Beside ==
  /\ fundRequest' = fundRequest
  /\ contractAmount' = contractAmount
  /\ amendments' = amendments
  /\ totals' \in [Lines -> Financials]
  /\ requestLock' = requestLock
  /\ lineLock' = [l \in Lines |-> lineLock'[l]]
  /\ \A l \in Lines : lineLock[l] \in Sessions => lineLock'[l] = lineLock[l]
  /\ \E lines \in SUBSET Lines : OutdateSnapshots(lines) \/ UNCHANGED tx

\* What it leaves of a transaction.
LEMMA BesideTransactions ==
  ASSUME Consistent, Beside
  PROVE  /\ tx' \in [Sessions -> Transactions]
         /\ \A s \in Sessions :
              \/ tx'[s] = tx[s]
              \/ /\ tx[s].step = "snapshot"
                 /\ tx'[s] = [tx[s] EXCEPT !.stale = TRUE]
<1>1. tx \in [Sessions -> Transactions]
  BY DEF Consistent, Shape, Typed
<1>2. \A s \in Sessions : [tx[s] EXCEPT !.stale = TRUE] \in Transactions
  BY <1>1 DEF Transactions
<1>3. CASE UNCHANGED tx
  BY <1>1, <1>3
<1>4. ASSUME NEW lines \in SUBSET Lines, OutdateSnapshots(lines)
      PROVE  /\ tx' \in [Sessions -> Transactions]
             /\ \A s \in Sessions :
                  \/ tx'[s] = tx[s]
                  \/ /\ tx[s].step = "snapshot"
                     /\ tx'[s] = [tx[s] EXCEPT !.stale = TRUE]
  BY <1>1, <1>2, <1>4 DEF OutdateSnapshots
<1>. QED BY <1>3, <1>4 DEF Beside

\* The same, field by field.
LEMMA BesideFields ==
  ASSUME Consistent, Beside, NEW s \in Sessions
  PROVE  /\ tx'[s].step = tx[s].step /\ tx'[s].kind = tx[s].kind
         /\ tx'[s].request = tx[s].request /\ tx'[s].line = tx[s].line
         /\ tx'[s].amount = tx[s].amount /\ tx'[s].seen = tx[s].seen
         /\ tx'[s].result = tx[s].result
         /\ tx[s].stale => tx'[s].stale
<1>1. tx[s] \in Transactions
  BY DEF Consistent, Shape, Typed
<1>. QED BY <1>1, BesideTransactions DEF Transactions

\* Such a step keeps what FundLedgerProofs has proved of the sessions.
LEMMA BesideConsistent ==
  ASSUME Consistent, Beside
  PROVE  Consistent'
<1>. USE DEF Consistent, Shape
<1>1. Typed'
  BY BesideTransactions DEF Typed, LedgerTypeOK, Beside
<1>2. RowsWellFormed'
  BY DEF RowsWellFormed, Beside
<1>3. ASSUME NEW s \in Sessions PROVE TxWellFormed(s)'
  BY BesideFields DEF TxWellFormed, Beside
<1>4. LocksHeld'
  <2>. SUFFICES ASSUME NEW s \in Sessions
                PROVE  /\ HoldsLine(s)' => lineLock'[tx'[s].line] = s
                       /\ HoldsRequest(s)' => requestLock'[tx'[s].request] = s
    BY DEF LocksHeld
  <2>1. HoldsLine(s)' => tx[s].line \in Lines /\ lineLock[tx[s].line] = s
    BY BesideFields DEF LocksHeld, HoldsLine, TxWellFormed
  <2>2. HoldsRequest(s)' => requestLock[tx[s].request] = s
    BY BesideFields DEF LocksHeld, HoldsRequest
  <2>. QED BY <2>1, <2>2, BesideFields DEF Beside
<1>5. ASSUME NEW s \in Sessions PROVE Fresh(s)'
  <2>1. RowsSeenBy(s)' = RowsSeenBy(s) /\ ContractSeenBy(s)' = ContractSeenBy(s)
    BY BesideFields DEF RowsSeenBy, ContractSeenBy, Beside
  <2>. QED BY <2>1, BesideFields DEF Fresh, Beside
<1>. QED BY <1>1, <1>2, <1>3, <1>4, <1>5

\* And what ApprovalProofs has.
LEMMA BesideSole ==
  ASSUME Sole, Beside
  PROVE  Sole'
<1>1. Consistent'
  BY BesideConsistent DEF Sole
<1>2. ApprovedWithinContract'
  BY DEF Sole, Beside, ApprovedWithinContract
<1>3. ASSUME NEW s \in Sessions PROVE AdminKnows(s)'
  BY BesideFields DEF Sole, Beside, AdminKnows, Admissible
<1>. QED BY <1>1, <1>2, <1>3 DEF Sole

\* A lock that a worker gives back was not a session's.
LEMMA ImporterUnlocks ==
  ASSUME Consistent, LockedBySomebody, NEW i \in Importers, lineLock' = Unlocked(lineLock, i)
  PROVE  /\ LockedBySomebody'
         /\ lineLock' = [l \in Lines |-> lineLock'[l]]
         /\ \A l \in Lines : lineLock[l] \in Sessions => lineLock'[l] = lineLock[l]
<1>1. lineLock' = [l \in Lines |-> IF lineLock[l] = i THEN None ELSE lineLock[l]]
  BY DEF LockedBySomebody, Unlocked
<1>. QED BY <1>1, ImportersAssumption DEF LockedBySomebody

\* Every statement of the worker is such a step, and keeps its own types.
LEMMA ImporterStep ==
  ASSUME ImportInv, NEW i \in Importers,
         \/ \E file \in SUBSET Lines : StartJob(i, file)
         \/ ImportReads(i)
         \/ ImportWrites(i)
         \/ \E l \in Lines : FailTotals(i, l)
         \/ FailJob(i)
  PROVE  Beside /\ LockedBySomebody' /\ job' \in [Importers -> Jobs]
<1>. DEFINE Goal == Beside /\ LockedBySomebody' /\ job' \in [Importers -> Jobs]
<1>1. /\ fundRequest \in [Requests -> RequestRows] /\ contractAmount \in [Lines -> Nat]
      /\ totals \in [Lines -> Financials]
      /\ lineLock \in [Lines -> Sessions \cup Importers \cup {None}]
      /\ lineLock = [l \in Lines |-> lineLock[l]]
      /\ job \in [Importers -> Jobs] /\ job[i] \in Jobs
  BY DEF ImportInv, Consistent, Shape, Typed, LedgerTypeOK, LockedBySomebody
<1>2. NoJob \in Jobs
  BY DEF NoJob, Jobs, ZeroTotals, Financials
<1>3. UNCHANGED vars => Beside /\ LockedBySomebody'
  BY <1>1 DEF vars, ledger, Beside, LockedBySomebody
<1>4. ASSUME NEW file \in SUBSET Lines, StartJob(i, file) PROVE Goal
  <2>1. [NoJob EXCEPT !.step = "structure", !.file = file] \in Jobs
    BY <1>2 DEF Jobs
  <2>. QED BY <1>1, <1>3, <1>4, <2>1 DEF StartJob
<1>5. CASE CommitStructure(i)
  <2>1. [job[i] EXCEPT !.step = "committed", !.done = {}] \in Jobs
    BY <1>1 DEF Jobs
  <2>2. job' \in [Importers -> Jobs]
    BY <1>1, <1>5, <2>1 DEF CommitStructure
  <2>3. job[i].file \in SUBSET Lines
    BY <1>1 DEF Jobs
  <2>. QED BY <1>1, <1>5, <2>2, <2>3, ImporterUnlocks
           DEF CommitStructure, ImportInv, Beside, ledger
<1>6. CASE ReadContracts(i)
  <2>1. [job[i] EXCEPT !.step = "contractsRead", !.contracts = contractAmount] \in Jobs
    BY <1>1 DEF Jobs
  <2>. QED BY <1>1, <1>3, <1>6, <2>1 DEF ReadContracts
<1>7. CASE GroupSums(i)
  <2>. DEFINE results == [l \in Lines |-> computeFinancials(fundRequest, l, job[i].contracts[l])]
  <2>1. job[i].contracts \in [Lines -> Nat]
    BY <1>1 DEF Jobs
  <2>2. results \in [Lines -> Financials]
    BY <1>1, <2>1, FinancialsType
  <2>3. job' = [job EXCEPT ![i].step = "sumsRead", ![i].results = results] /\ UNCHANGED vars
    BY <1>7 DEF GroupSums
  <2>. HIDE DEF results
  <2>4. [job[i] EXCEPT !.step = "sumsRead", !.results = results] \in Jobs
    BY <1>1, <2>2 DEF Jobs
  <2>5. job' \in [Importers -> Jobs]
    BY <1>1, <2>3, <2>4
  <2>. QED BY <1>3, <2>3, <2>5
<1>8. CASE FinishJob(i) \/ FailJob(i)
  <2>1. job' \in [Importers -> Jobs]
    BY <1>1, <1>2, <1>8 DEF FinishJob, FailJob
  <2>2. CASE FinishJob(i)
    BY <1>3, <2>1, <2>2 DEF FinishJob
  <2>3. CASE FailJob(i)
    BY <1>1, <2>1, <2>3, ImporterUnlocks DEF FailJob, ImportInv, Beside, ledger
  <2>. QED BY <1>8, <2>2, <2>3
<1>9. ASSUME NEW l \in Lines, UpsertLine(i, l) PROVE Goal
  <2>1. [job[i] EXCEPT !.done = @ \cup {l}] \in Jobs
    BY <1>1 DEF Jobs
  <2>2. job' \in [Importers -> Jobs]
    BY <1>1, <1>9, <2>1 DEF UpsertLine
  <2>3. lineLock' = [lineLock EXCEPT ![l] = i] /\ lineLock[l] \notin Sessions
    BY <1>9, LedgerAssumption DEF UpsertLine
  <2>. QED BY <1>1, <1>9, <2>2, <2>3 DEF UpsertLine, Beside, LockedBySomebody, ledger
<1>10. ASSUME NEW l \in Lines, WriteTotals(i, l) PROVE Goal
  <2>1. [job[i] EXCEPT !.done = @ \cup {l}] \in Jobs
    BY <1>1 DEF Jobs
  <2>2. job' \in [Importers -> Jobs]
    BY <1>1, <1>10, <2>1 DEF WriteTotals
  <2>3. totals' \in [Lines -> Financials]
    BY <1>1, <1>10 DEF WriteTotals, Jobs
  <2>. QED BY <1>1, <1>10, <2>2, <2>3 DEF WriteTotals, Beside, LockedBySomebody
<1>11. ASSUME NEW l \in Lines, FailTotals(i, l) PROVE Goal
  <2>1. [job[i] EXCEPT !.done = @ \cup {l}] \in Jobs
    BY <1>1 DEF Jobs
  <2>2. job' \in [Importers -> Jobs] /\ UNCHANGED vars
    BY <1>1, <1>11, <2>1 DEF FailTotals
  <2>. QED BY <1>3, <2>2
<1>. QED BY <1>4, <1>5, <1>6, <1>7, <1>8, <1>9, <1>10, <1>11 DEF ImportReads, ImportWrites

\* A statement of a session takes and frees locks for itself alone.
LEMMA SessionLocks ==
  ASSUME LockedBySomebody, NEW s \in Sessions,
         Begin(s) \/ ReadSteps(s) \/ LockSteps(s) \/ Commit(s) \/ Throw(s) \/ Abort(s)
  PROVE  LockedBySomebody'
<1>. USE DEF LockedBySomebody
<1>1. CASE Begin(s)
  BY <1>1 DEF Begin, ReadRequest, BeginCreate, BeginAmend
<1>2. CASE ReadSteps(s)
  BY <1>2 DEF ReadSteps, ReadLine, CheckApproval, ReadContract, ReadSums
<1>3. CASE LockSteps(s)
  BY <1>3 DEF LockSteps, WriteRequest, WriteLineApproved, WriteLineRejected, WriteLineContract,
     WriteLineCreated, WriteLineAmended, LockLine
<1>4. CASE Commit(s) \/ Throw(s) \/ Abort(s)
  BY <1>4 DEF Commit, Throw, Abort, Rollback, Unlocked
<1>. QED BY <1>1, <1>2, <1>3, <1>4

\* A step is one of the ledger, one of a worker, or none.
LEMMA ImportCases ==
  ASSUME ImportInv, [ImportNext]_importVars
  PROVE  \/ [Next]_vars /\ UNCHANGED job /\ LockedBySomebody'
         \/ Beside /\ LockedBySomebody' /\ job' \in [Importers -> Jobs]
<1>1. CASE UNCHANGED importVars
  BY <1>1 DEF importVars, vars, ImportInv, LockedBySomebody
<1>2. CASE Next /\ UNCHANGED job
  <2>1. LockedBySomebody'
    BY <1>2, SessionLocks DEF Next, ImportInv
  <2>. QED BY <1>2, <2>1
<1>3. CASE \E i \in Importers : \/ \E file \in SUBSET Lines : StartJob(i, file)
                                \/ ImportReads(i)
                                \/ ImportWrites(i)
                                \/ \E l \in Lines : FailTotals(i, l)
                                \/ FailJob(i)
  BY <1>3, ImporterStep
<1>. QED BY <1>1, <1>2, <1>3 DEF ImportNext

LEMMA ImportInitInv == ImportInit => ImportInv
<1>. SUFFICES ASSUME ImportInit PROVE ImportInv
  OBVIOUS
<1>1. NoJob \in Jobs
  BY DEF NoJob, Jobs, ZeroTotals, Financials
<1>2. Consistent
  BY InitConsistent DEF ImportInit
<1>. QED BY <1>1, <1>2 DEF ImportInit, Init, ImportInv, LockedBySomebody

LEMMA ImportNextInv == ImportInv /\ [ImportNext]_importVars => ImportInv'
<1>. SUFFICES ASSUME ImportInv, [ImportNext]_importVars PROVE ImportInv'
  OBVIOUS
<1>1. CASE [Next]_vars /\ UNCHANGED job /\ LockedBySomebody'
  BY <1>1, NextConsistent DEF ImportInv
<1>2. CASE Beside /\ LockedBySomebody' /\ job' \in [Importers -> Jobs]
  BY <1>2, BesideConsistent DEF ImportInv
<1>. QED BY <1>1, <1>2, ImportCases

\* What changes a request, a contract or an amendment is a session's commit.
LEMMA OnlyCommitsChangeRows ==
  ASSUME ImportInv, [ImportNext]_importVars,
         ~ UNCHANGED <<fundRequest, contractAmount, amendments>>
  PROVE  \E s \in Sessions : Commit(s)
<1>1. ~ Beside
  BY DEF Beside
<1>2. ~ UNCHANGED ledger
  BY DEF ledger
<1>. QED BY <1>1, <1>2, ImportCases, OnlyCommitsChangeTheLedger

-----------------------------------------------------------------------------
(* The guarantees that survive imports.                                    *)

\* In every reachable state every variable of the ledger and of the jobs has
\* its type: no cached total is negative, whatever an import writes.
THEOREM ImportTypeCorrect == ImportSpec => []ImportTypeOK
<1>1. ImportInit => ImportInv
  BY ImportInitInv
<1>2. ImportInv /\ [ImportNext]_importVars => ImportInv'
  BY ImportNextInv
<1>3. ImportInv => ImportTypeOK
  BY DEF ImportInv, Consistent, Shape, Typed, LockedBySomebody, ImportTypeOK
<1>. QED BY <1>1, <1>2, <1>3, PTL DEF ImportSpec

\* An operation that changes a request or the contract of a line leaves that
\* line's totals equal to the data, whatever an import has written there
\* before (reconcilePoLine of the same transaction).
THEOREM ImportsLeaveReconciling == ImportSpec => OperationsReconcile
<1>. DEFINE Reconciles ==
       \A l \in Lines :
         \/ contractAmount'[l] # contractAmount[l]
         \/ \E r \in Requests : fundRequest'[r] # fundRequest[r] /\ fundRequest'[r].line = l
         => totals'[l] = computeFinancials(fundRequest', l, contractAmount'[l])
<1>1. ImportInit => ImportInv
  BY ImportInitInv
<1>2. ImportInv /\ [ImportNext]_importVars => ImportInv'
  BY ImportNextInv
<1>3. ImportInv /\ [ImportNext]_importVars => [Reconciles]_importVars
  <2>. SUFFICES ASSUME ImportInv, [ImportNext]_importVars, NEW l \in Lines,
                       \/ contractAmount'[l] # contractAmount[l]
                       \/ \E r \in Requests : /\ fundRequest'[r] # fundRequest[r]
                                              /\ fundRequest'[r].line = l
                PROVE  totals'[l] = computeFinancials(fundRequest', l, contractAmount'[l])
    OBVIOUS
  <2>1. PICK s \in Sessions : Commit(s)
    BY OnlyCommitsChangeRows
  <2>2. Consistent /\ OneLineChanged(s)
    BY <2>1, CommitChangesOneLine DEF ImportInv, Consistent
  <2>3. l = tx[s].line
    BY <2>2 DEF OneLineChanged
  <2>. QED BY <2>1, <2>2, <2>3, CommitReconcilesLine
<1>. QED BY <1>1, <1>2, <1>3, PTL DEF ImportSpec, OperationsReconcile

\* Beside imports, too, a request that becomes visible fits the contract with
\* all the requests visible at that moment.
THEOREM ImportsLeaveCreates == ImportSpec => CreateWithinContract
<1>. DEFINE Fits == \A r \in Requests :
              fundRequest[r].status = "NONE" /\ fundRequest'[r].status # "NONE"
                => LET l == fundRequest'[r].line IN
                   FitsContract(fundRequest, l, contractAmount[l], fundRequest'[r].amount)
<1>1. ImportInit => ImportInv
  BY ImportInitInv
<1>2. ImportInv /\ [ImportNext]_importVars => ImportInv'
  BY ImportNextInv
<1>3. ImportInv /\ [ImportNext]_importVars => [Fits]_ledger
  <2>. SUFFICES ASSUME ImportInv, [ImportNext]_importVars, NEW r \in Requests,
                       fundRequest[r].status = "NONE", fundRequest'[r].status # "NONE"
                PROVE  LET l == fundRequest'[r].line IN
                       FitsContract(fundRequest, l, contractAmount[l], fundRequest'[r].amount)
    OBVIOUS
  <2>1. PICK s \in Sessions : Commit(s)
    BY OnlyCommitsChangeRows
  <2>. QED BY <2>1, CommittedRequestFits DEF ImportInv
<1>. QED BY <1>1, <1>2, <1>3, PTL DEF ImportSpec, CreateWithinContract

\* And an amendment that becomes visible covers what is approved: the totals
\* an import writes play no part in the check.
THEOREM ImportsLeaveAmendments == ImportSpec => AmendmentCoversApproved
<1>. DEFINE Covers == \A l \in Lines :
              amendments'[l] # amendments[l]
                => SumRequested(fundRequest, l, {"APPROVED"}, {}) <= contractAmount'[l]
<1>1. ImportInit => ImportInv
  BY ImportInitInv
<1>2. ImportInv /\ [ImportNext]_importVars => ImportInv'
  BY ImportNextInv
<1>3. ImportInv /\ [ImportNext]_importVars => [Covers]_ledger
  <2>. SUFFICES ASSUME ImportInv, [ImportNext]_importVars,
                       NEW l \in Lines, amendments'[l] # amendments[l]
                PROVE  SumRequested(fundRequest, l, {"APPROVED"}, {}) <= contractAmount'[l]
    OBVIOUS
  <2>1. PICK s \in Sessions : Commit(s)
    BY OnlyCommitsChangeRows
  <2>. QED BY <2>1, CommittedAmendmentCovers DEF ImportInv
<1>. QED BY <1>1, <1>2, <1>3, PTL DEF ImportSpec, AmendmentCoversApproved

\* What a sole admin knows outlives the steps of the worker.
LEMMA NextSoleBeside ==
  ASSUME SoleAdmin
  PROVE  ImportInv /\ Sole /\ [ImportNext]_importVars => ImportInv' /\ Sole'
<1>1. ASSUME ImportInv, Sole, [ImportNext]_importVars PROVE Sole'
  BY <1>1, ImportCases, NextSole, BesideSole
<1>. QED BY <1>1, ImportNextInv

\* With one admin session at a time no line is approved beyond its contract,
\* whatever totals imports write: the approval adds up the requests, and its
\* compare-and-set on a total an import has changed can only fail.
THEOREM SoleAdminWithinContractBesideImports ==
  ASSUME SoleAdmin
  PROVE  ImportSpec => []ApprovedWithinContract
<1>1. ImportInit => ImportInv /\ Sole
  BY ImportInitInv, InitSole DEF ImportInit
<1>2. ImportInv /\ Sole /\ [ImportNext]_importVars => ImportInv' /\ Sole'
  BY NextSoleBeside
<1>3. Sole => ApprovedWithinContract
  BY DEF Sole
<1>. QED BY <1>1, <1>2, <1>3, PTL DEF ImportSpec

\* With one admin session a decided request never changes, ...
THEOREM SoleAdminDecisionsFinalBesideImports ==
  ASSUME SoleAdmin
  PROVE  ImportSpec => DecisionsFinal
<1>. DEFINE Final == \A r \in Requests : fundRequest[r].status \in {"APPROVED", "REJECTED"}
                                        => fundRequest'[r] = fundRequest[r]
<1>1. ImportInit => ImportInv /\ Sole
  BY ImportInitInv, InitSole DEF ImportInit
<1>2. ImportInv /\ Sole /\ [ImportNext]_importVars => ImportInv' /\ Sole'
  BY NextSoleBeside
<1>3. ImportInv /\ Sole /\ [ImportNext]_importVars => [Final]_ledger
  <2>. SUFFICES ASSUME Sole, ImportInv, [ImportNext]_importVars,
                       NEW r \in Requests, fundRequest'[r] # fundRequest[r]
                PROVE  fundRequest[r].status \notin {"APPROVED", "REJECTED"}
    OBVIOUS
  <2>. USE DEF Sole, Consistent, Shape
  <2>1. PICK s \in Sessions : Commit(s)
    BY OnlyCommitsChangeRows
  <2>2. r = tx[s].request /\ HoldsRequest(s)
    BY <2>1, CommitChangesOneLine DEF OneLineChanged
  <2>. QED BY <2>2 DEF HoldsRequest, TxWellFormed, AdminKnows
<1>. QED BY <1>1, <1>2, <1>3, PTL DEF ImportSpec, DecisionsFinal

\* ... and a contract that has been set changes only with its amendment row.
THEOREM SoleAdminContractAuditedBesideImports ==
  ASSUME SoleAdmin
  PROVE  ImportSpec => ContractAudited
<1>. DEFINE Audited == \A l \in Lines :
       contractAmount[l] # 0 /\ contractAmount'[l] # contractAmount[l]
         => amendments'[l] = Append(amendments[l], [oldAmount |-> contractAmount[l],
                                                    newAmount |-> contractAmount'[l]])
<1>1. ImportInit => ImportInv /\ Sole
  BY ImportInitInv, InitSole DEF ImportInit
<1>2. ImportInv /\ Sole /\ [ImportNext]_importVars => ImportInv' /\ Sole'
  BY NextSoleBeside
<1>3. ImportInv /\ Sole /\ [ImportNext]_importVars => [Audited]_ledger
  <2>. SUFFICES ASSUME Sole, ImportInv, [ImportNext]_importVars, NEW l \in Lines,
                       contractAmount[l] # 0, contractAmount'[l] # contractAmount[l]
                PROVE  amendments'[l] = Append(amendments[l],
                                               [oldAmount |-> contractAmount[l],
                                                newAmount |-> contractAmount'[l]])
    OBVIOUS
  <2>. USE DEF Sole, Consistent, Shape, Typed, LedgerTypeOK
  <2>1. PICK s \in Sessions : Commit(s)
    BY OnlyCommitsChangeRows
  <2>2. tx[s].line = l /\ tx[s].step = "reconciled" /\ contractAmount'[l] = ContractSeenBy(s)
    BY <2>1, CommitChangesOneLine DEF OneLineChanged, Commit
  <2>3. tx[s].kind = "amend" /\ contractAmount'[l] = tx[s].amount
    BY <2>2 DEF ContractSeenBy, AdminKnows
  <2>4. tx[s].seen.contract = contractAmount[l]
    BY <2>2, <2>3 DEF Fresh
  <2>. QED BY <2>1, <2>2, <2>3, <2>4 DEF Commit
<1>. QED BY <1>1, <1>2, <1>3, PTL DEF ImportSpec, ContractAudited
=============================================================================
