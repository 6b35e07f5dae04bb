-------------------------- MODULE FundLedgerImport --------------------------
(***************************************************************************)
(* The fund ledger together with the worker that imports purchase orders   *)
(* from a spreadsheet (po-import.processor.ts).  The worker first upserts  *)
(* every line of the file in one Read Committed transaction; that changes  *)
(* no column of the ledger, but holds the row locks of the lines.  It then *)
(* reconciles all of them OUTSIDE any transaction (reconcileManyPoLines):  *)
(* one query for the contracts, one for the sums of the requests, and one  *)
(* independent UPDATE per line with the result.                            *)
(*                                                                         *)
(* "Fault:" introduces plausible bugs, as in PoLedger.                     *)
(***************************************************************************)
EXTENDS FundLedger

CONSTANT Importers  \* BullMQ jobs being processed

ASSUME ImportersAssumption ==
  Importers \cap (Sessions \cup {None}) = {}

VARIABLE job

importVars == <<vars, job>>

Jobs ==
  [step : {"idle", "structure", "committed", "contractsRead", "sumsRead"},
   file : SUBSET Lines,     \* the lines the spreadsheet names
   done : SUBSET Lines,     \* those the current loop has passed
   contracts : [Lines -> Nat],
   results : [Lines -> Financials]]

NoJob == [step |-> "idle", file |-> {}, done |-> {},
          contracts |-> [l \in Lines |-> 0], results |-> [l \in Lines |-> ZeroTotals]]

ImportTypeOK ==
  /\ LedgerTypeOK
  /\ requestLock \in [Requests -> Sessions \cup {None}]
  /\ lineLock \in [Lines -> Sessions \cup Importers \cup {None}]
  /\ tx \in [Sessions -> Transactions]
  /\ job \in [Importers -> Jobs]

ImportInit == Init /\ job = [i \in Importers |-> NoJob]

\* A new version of line l makes the snapshots of its old one unusable.
OutdateSnapshots(lines) ==
  tx' = [s \in Sessions |->
           IF tx[s].step = "snapshot" /\ tx[s].line \in lines
           THEN [tx[s] EXCEPT !.stale = TRUE] ELSE tx[s]]

\* The worker takes a job; validation has accepted the rows of the file.
StartJob(i, file) ==
  /\ job[i].step = "idle"
  /\ file # {}
  /\ job' = [job EXCEPT ![i] = [NoJob EXCEPT !.step = "structure", !.file = file]]
  /\ UNCHANGED vars

\* Phase 1: the rows of the file are upserted one after the other.
UpsertLine(i, l) ==
  /\ job[i].step = "structure"
  /\ l \in job[i].file \ job[i].done
  /\ lineLock[l] = None
  /\ lineLock' = [lineLock EXCEPT ![l] = i]
  /\ job' = [job EXCEPT ![i].done = @ \cup {l}]
  /\ UNCHANGED <<ledger, requestLock, tx>>

\* Fault: the row locks outlive the transaction.
CommitStructureHolding(i) ==
  /\ job[i].step = "structure"
  /\ job[i].done = job[i].file
  /\ OutdateSnapshots(job[i].file)
  /\ job' = [job EXCEPT ![i].step = "committed", ![i].done = {}]
  /\ UNCHANGED <<ledger, requestLock, lineLock>>

\* The structural transaction ends; its lines have new versions.
CommitStructure(i) ==
  /\ job[i].step = "structure"
  /\ job[i].done = job[i].file
  /\ lineLock' = Unlocked(lineLock, i)
  /\ OutdateSnapshots(job[i].file)
  /\ job' = [job EXCEPT ![i].step = "committed", ![i].done = {}]
  /\ UNCHANGED <<ledger, requestLock>>

\* Fault: the job waits for a contract before it goes on.
ReadContractsIfAny(i) ==
  /\ job[i].step = "committed"
  /\ \E l \in job[i].file : contractAmount[l] # 0
  /\ job' = [job EXCEPT ![i].step = "contractsRead", ![i].contracts = contractAmount]
  /\ UNCHANGED vars

\* Phase 2: reconcileManyPoLines reads the contracts of all lines, ...
ReadContracts(i) ==
  /\ job[i].step = "committed"
  /\ job' = [job EXCEPT ![i].step = "contractsRead", ![i].contracts = contractAmount]
  /\ UNCHANGED vars

\* ... then groups the requests of all lines, ...
GroupSums(i) ==
  /\ job[i].step = "contractsRead"
  /\ job' = [job EXCEPT ![i].step = "sumsRead",
                        ![i].results = [l \in Lines |->
                           computeFinancials(fundRequest, l, job[i].contracts[l])]]
  /\ UNCHANGED vars

\* ... and writes each line in a statement of its own, in any order.
WriteTotals(i, l) ==
  /\ job[i].step = "sumsRead"
  /\ l \in job[i].file \ job[i].done
  /\ lineLock[l] = None
  /\ totals' = [totals EXCEPT ![l] = job[i].results[l]]
  /\ OutdateSnapshots({l})
  /\ job' = [job EXCEPT ![i].done = @ \cup {l}]
  /\ UNCHANGED <<fundRequest, contractAmount, amendments, requestLock, lineLock>>

\* The update of a line fails; those of the other lines, which have been sent
\* as well, are carried out nevertheless.  The retry is another job's turn.
FailTotals(i, l) ==
  /\ job[i].step = "sumsRead"
  /\ l \in job[i].file \ job[i].done
  /\ job' = [job EXCEPT ![i].done = @ \cup {l}]
  /\ UNCHANGED vars

FinishJob(i) ==
  /\ job[i].step = "sumsRead"
  /\ job[i].done = job[i].file
  /\ job' = [job EXCEPT ![i] = NoJob]
  /\ UNCHANGED vars

\* A statement fails or the worker dies: an open transaction is rolled back,
\* totals already written stay, and BullMQ runs the job again from the start.
FailJob(i) ==
  /\ job[i].step # "idle"
  /\ lineLock' = Unlocked(lineLock, i)
  /\ job' = [job EXCEPT ![i] = NoJob]
  /\ UNCHANGED <<ledger, requestLock, tx>>

ImportReads(i) == CommitStructure(i) \/ ReadContracts(i) \/ GroupSums(i) \/ FinishJob(i)

ImportWrites(i) == \E l \in Lines : UpsertLine(i, l) \/ WriteTotals(i, l)

ImportNext ==
  \/ Next /\ UNCHANGED job
  \/ \E i \in Importers :
       \/ \E file \in SUBSET Lines : StartJob(i, file)
       \/ ImportReads(i)
       \/ ImportWrites(i)
       \/ \E l \in Lines : FailTotals(i, l)
       \/ FailJob(i)

ImportSpec == ImportInit /\ [][ImportNext]_importVars

\* As in FundLedger; the worker's loop and the row queues also serve the job.
ImportFairness ==
  /\ \A s \in Sessions : /\ WF_importVars((ReadSteps(s) \/ Commit(s) \/ Throw(s)) /\ UNCHANGED job)
                         /\ SF_importVars(LockSteps(s) /\ UNCHANGED job)
  /\ \A i \in Importers : WF_importVars(ImportReads(i)) /\ SF_importVars(ImportWrites(i))

FairImportSpec == ImportSpec /\ ImportFairness

\* "Every touched line still gets synced to real FundRequest data": when
\* nothing is in progress any more, the cached totals are those of the data.
TotalsSynced ==
  (\A s \in Sessions : tx[s].step = "idle") /\ (\A i \in Importers : job[i].step = "idle")
    => TotalsAgree

\* Whatever an import does around it, an operation that changes a line's
\* requests or contract leaves that line's totals equal to the real data.
OperationsReconcile ==
  [][\A l \in Lines :
       \/ contractAmount'[l] # contractAmount[l]
       \/ \E r \in Requests : fundRequest'[r] # fundRequest[r] /\ fundRequest'[r].line = l
       => totals'[l] = computeFinancials(fundRequest', l, contractAmount'[l])]_importVars

\* A job holding the locks of a whole file never blocks the ledger for good,
\* nor the ledger the job: every import that starts ends.
EveryImportEnds == \A i \in Importers : job[i].step # "idle" ~> job[i].step = "idle"
=============================================================================
