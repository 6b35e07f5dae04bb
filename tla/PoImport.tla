------------------------------ MODULE PoImport ------------------------------
(***************************************************************************)
(* The way of an uploaded spreadsheet: importFromExcel                     *)
(* (po-import.service.ts) keeps one history row per content of file and    *)
(* hands the file to a BullMQ queue; the worker of some backend process    *)
(* (po-import.processor.ts) writes the lines, reconciles them and stores   *)
(* how it ended.  What it writes in the lines is FundLedgerImport's        *)
(* matter; this module is about what the history row says meanwhile.       *)
(*                                                                         *)
(* The row is written by uploads, by runs of the worker and by the         *)
(* handler of the queue's "failed" event, each without looking at the      *)
(* others.  PostgreSQL and Redis may refuse a call or lose its answer and  *)
(* a process may die between any two of them; each of these is a fault     *)
(* and MaxFaults bounds their number.                                      *)
(*                                                                         *)
(* "Fault:" introduces plausible bugs, as in PoLedger.                     *)
(***************************************************************************)
EXTENDS Integers, FiniteSets

CONSTANTS
  Files,       \* contents of files, told apart by their hash
  Uploads,     \* requests to import a file
  FileOf,      \* [Uploads -> Files]
  Instances,   \* backend processes; each has one worker, one job at a time
  Attempts,    \* attempts importFromExcel asks for
  MaxStalled,  \* how often BullMQ gives a stalled job to another worker
  MaxFaults,   \* bound on the faults of a behaviour
  None         \* no process, no upload

ASSUME ImportAssumption ==
  /\ FileOf \in [Uploads -> Files]
  /\ None \notin Uploads \cup Instances
  /\ Attempts \in Nat \ {0}
  /\ MaxStalled \in Nat
  /\ MaxFaults \in Nat

VARIABLES
  history,  \* status of the history row of each file
  lines,    \* the lines of each file: untouched, written, or all reconciled too
  upload,   \* what has become of each upload, and the process handling it
  job,      \* the BullMQ job of each upload
  worker,   \* what each process's worker is doing
  event,    \* "failed" events whose handlers have not written yet, and
            \* <<None, u>> if the one that was to end u's PENDING was lost
  faults    \* faults so far

vars == <<history, lines, upload, job, worker, event, faults>>

Statuses == {"none", "PENDING", "SUCCESS", "FAILED"}

UploadSteps == {"idle", "checked", "stored", "refused",
                "accepted", "rejected", "error"}

JobStates == {"none", "waiting", "active", "delayed", "completed", "failed"}

RunSteps == {"idle", "read", "written", "reconciled", "done", "caught", "thrown"}

Jobs == [state : JobStates, owner : Instances \cup {None},
         failures : 0 .. Attempts, stalls : 0 .. MaxStalled + 1]

Runs == [step : RunSteps, on : Uploads \cup {None}]

Events == (Instances \cup {None}) \X Uploads

NoJob == [state |-> "none", owner |-> None, failures |-> 0, stalls |-> 0]

Idle == [step |-> "idle", on |-> None]

TypeOK ==
  /\ history \in [Files -> Statuses]
  /\ lines \in [Files -> {"old", "written", "reconciled"}]
  /\ upload \in [Uploads -> [step : UploadSteps, at : Instances \cup {None}]]
  /\ job \in [Uploads -> Jobs]
  /\ worker \in [Instances -> Runs]
  /\ event \in SUBSET Events
  /\ faults \in 0 .. MaxFaults

Init ==
  /\ history = [f \in Files |-> "none"]
  /\ lines = [f \in Files |-> "old"]
  /\ upload = [u \in Uploads |-> [step |-> "idle", at |-> None]]
  /\ job = [u \in Uploads |-> NoJob]
  /\ worker = [i \in Instances |-> Idle]
  /\ event = {}
  /\ faults = 0

Fault == faults < MaxFaults /\ faults' = faults + 1

Status(u, s) == history' = [history EXCEPT ![FileOf[u]] = s]

-----------------------------------------------------------------------------
(* importFromExcel.                                                        *)

At(u, step) == upload[u].step = step

Handled(u, step) == upload' = [upload EXCEPT ![u].step = step]

Answered(u, answer) == upload' = [upload EXCEPT ![u] = [step |-> answer, at |-> None]]

\* Fault: an import that has succeeded is not looked for.
CheckNothing(i, u) ==
  /\ At(u, "idle")
  /\ upload' = [upload EXCEPT ![u] = [step |-> "checked", at |-> i]]
  /\ UNCHANGED <<history, lines, job, worker, event, faults>>

\* A file that has been imported successfully is not imported again.
Check(i, u) ==
  /\ At(u, "idle")
  /\ upload' = [upload EXCEPT ![u] = IF history[FileOf[u]] = "SUCCESS"
                                     THEN [step |-> "rejected", at |-> None]
                                     ELSE [step |-> "checked", at |-> i]]
  /\ UNCHANGED <<history, lines, job, worker, event, faults>>

\* The upsert by hash: a second upload of a file resets the row of the first.
Store(u) ==
  /\ At(u, "checked")
  /\ Status(u, "PENDING")
  /\ Handled(u, "stored")
  /\ UNCHANGED <<lines, job, worker, event, faults>>

\* The upsert fails, or is applied and its answer lost.
StoreError(u) ==
  /\ At(u, "checked") /\ Fault
  /\ UNCHANGED history \/ Status(u, "PENDING")
  /\ Answered(u, "error")
  /\ UNCHANGED <<lines, job, worker, event>>

Enqueue(u) ==
  /\ At(u, "stored")
  /\ job' = [job EXCEPT ![u].state = "waiting"]
  /\ Answered(u, "accepted")
  /\ UNCHANGED <<history, lines, worker, event, faults>>

\* Redis refuses the job, or takes it and its answer is lost.
EnqueueError(u) ==
  /\ At(u, "stored") /\ Fault
  /\ UNCHANGED job \/ job' = [job EXCEPT ![u].state = "waiting"]
  /\ Handled(u, "refused")
  /\ UNCHANGED <<history, lines, worker, event>>

\* "Update the ticket to FAILED so the UI doesn't spin on PENDING forever".
Refuse(u) ==
  /\ At(u, "refused")
  /\ Status(u, "FAILED")
  /\ Answered(u, "error")
  /\ UNCHANGED <<lines, job, worker, event, faults>>

\* "Silent catch in case database itself is down".
RefuseError(u) ==
  /\ At(u, "refused") /\ Fault
  /\ Answered(u, "error")
  /\ UNCHANGED <<history, lines, job, worker, event>>

-----------------------------------------------------------------------------
(* process.                                                                *)

OnJob(i, step, u) == worker[i].step = step /\ worker[i].on = u

HoldsLock(i, u) == job[u].state = "active" /\ job[u].owner = i

GoTo(i, step) == worker' = [worker EXCEPT ![i].step = step]

Take(i, u) ==
  /\ worker[i] = Idle
  /\ job[u].state = "waiting"
  /\ job' = [job EXCEPT ![u] = [@ EXCEPT !.state = "active", !.owner = i]]
  /\ worker' = [worker EXCEPT ![i] = [step |-> "read", on |-> u]]
  /\ UNCHANGED <<history, lines, upload, event, faults>>

\* The rows are not acceptable.  The next attempt may accept them: the types
\* of orders and the staff they are held against are read anew, and can fail
\* to be read.
Refute(i, u) ==
  /\ OnJob(i, "read", u)
  /\ GoTo(i, "caught")
  /\ UNCHANGED <<history, lines, upload, job, event, faults>>

\* The upserts leave what has been reconciled of a file's lines as it is.
Written(u) == lines' = [lines EXCEPT ![FileOf[u]] = IF @ = "old" THEN "written" ELSE @]

\* They are, and the transaction commits.
Commit(i, u) ==
  /\ OnJob(i, "read", u)
  /\ Written(u)
  /\ GoTo(i, "written")
  /\ UNCHANGED <<history, upload, job, event, faults>>

\* The transaction fails or takes too long, or the answer of its commit is lost.
CommitError(i, u) ==
  /\ OnJob(i, "read", u) /\ Fault
  /\ UNCHANGED lines \/ Written(u)
  /\ GoTo(i, "caught")
  /\ UNCHANGED <<history, upload, job, event>>

Reconcile(i, u) ==
  /\ OnJob(i, "written", u)
  /\ lines' = [lines EXCEPT ![FileOf[u]] = "reconciled"]
  /\ GoTo(i, "reconciled")
  /\ UNCHANGED <<history, upload, job, event, faults>>

\* Fault: an error of the second phase is logged and the run goes on.
ReconcileErrorLogged(i, u) ==
  /\ OnJob(i, "written", u) /\ Fault
  /\ GoTo(i, "reconciled")
  /\ UNCHANGED <<history, lines, upload, job, event>>

\* Reconciling fails, with none or some of the totals stored.
ReconcileError(i, u) ==
  /\ OnJob(i, "written", u) /\ Fault
  /\ GoTo(i, "caught")
  /\ UNCHANGED <<history, lines, upload, job, event>>

StoreSuccess(i, u) ==
  /\ OnJob(i, "reconciled", u)
  /\ Status(u, "SUCCESS")
  /\ GoTo(i, "done")
  /\ UNCHANGED <<lines, upload, job, event, faults>>

\* The update fails, or is applied and its answer lost.
StoreSuccessError(i, u) ==
  /\ OnJob(i, "reconciled", u) /\ Fault
  /\ UNCHANGED history \/ Status(u, "SUCCESS")
  /\ GoTo(i, "caught")
  /\ UNCHANGED <<lines, upload, job, event>>

\* The handler of every error of the run.
StoreFailed(i, u) ==
  /\ OnJob(i, "caught", u)
  /\ Status(u, "FAILED")
  /\ GoTo(i, "thrown")
  /\ UNCHANGED <<lines, upload, job, event, faults>>

StoreFailedError(i, u) ==
  /\ OnJob(i, "caught", u) /\ Fault
  /\ GoTo(i, "thrown")
  /\ UNCHANGED <<history, lines, upload, job, event>>

Release(i) == worker' = [worker EXCEPT ![i] = Idle]

Complete(i, u) ==
  /\ OnJob(i, "done", u)
  /\ job' = IF HoldsLock(i, u)
            THEN [job EXCEPT ![u] = [@ EXCEPT !.state = "completed", !.owner = None]] ELSE job
  /\ Release(i)
  /\ UNCHANGED <<history, lines, upload, event, faults>>

\* Fault: one attempt too many.
FailRunOnceMore(i, u) ==
  /\ OnJob(i, "thrown", u)
  /\ IF HoldsLock(i, u)
     THEN /\ job' = [job EXCEPT ![u] =
                       [state |-> IF job[u].failures + 1 <= Attempts THEN "delayed" ELSE "failed",
                        owner |-> None, failures |-> job[u].failures + 1, stalls |-> job[u].stalls]]
          /\ event' = event \cup {<<i, u>>}
     ELSE UNCHANGED <<job, event>>
  /\ Release(i)
  /\ UNCHANGED <<history, lines, upload, faults>>

\* Another attempt after a delay while there are any left; the event is
\* emitted for every failed attempt, but not when the job is another's.
FailRun(i, u) ==
  /\ OnJob(i, "thrown", u)
  /\ IF HoldsLock(i, u)
     THEN /\ job' = [job EXCEPT ![u] =
                       [state |-> IF job[u].failures + 1 < Attempts THEN "delayed" ELSE "failed",
                        owner |-> None, failures |-> job[u].failures + 1, stalls |-> job[u].stalls]]
          /\ event' = event \cup {<<i, u>>}
     ELSE UNCHANGED <<job, event>>
  /\ Release(i)
  /\ UNCHANGED <<history, lines, upload, faults>>

-----------------------------------------------------------------------------
(* handleJobFailure, the queue and the processes.                          *)

\* Fault: the row is updated whatever its status.
MarkFailedAnyway(i, u) ==
  /\ <<i, u>> \in event
  /\ event' = event \ {<<i, u>>}
  /\ Status(u, "FAILED")
  /\ UNCHANGED <<lines, upload, job, worker, faults>>

\* Fault: nothing is stored.
MarkNothing(i, u) ==
  /\ <<i, u>> \in event
  /\ event' = event \ {<<i, u>>}
  /\ UNCHANGED <<history, lines, upload, job, worker, faults>>

\* The handler of the event writes a row that is still PENDING.
MarkFailed(i, u) ==
  /\ <<i, u>> \in event
  /\ event' = event \ {<<i, u>>}
  /\ IF history[FileOf[u]] = "PENDING" THEN Status(u, "FAILED") ELSE UNCHANGED history
  /\ UNCHANGED <<lines, upload, job, worker, faults>>

\* What is lost with the events in E: those of jobs that will not be run
\* again, on rows that are PENDING.
Lost(E) == {<<None, e[2]>> : e \in {d \in E : /\ job[d[2]].state \in {"none", "failed"}
                                              /\ history[FileOf[d[2]]] = "PENDING"}}

\* The handler cannot store it, and only logs that.
MarkError(i, u) ==
  /\ <<i, u>> \in event /\ Fault
  /\ event' = (event \ {<<i, u>>}) \cup Lost({<<i, u>>})
  /\ UNCHANGED <<history, lines, upload, job, worker>>

\* The backoff of a failed attempt is over.
Retry(u) ==
  /\ job[u].state = "delayed"
  /\ job' = [job EXCEPT ![u].state = "waiting"]
  /\ UNCHANGED <<history, lines, upload, worker, event, faults>>

\* The owner of the job is no longer working on it.
Orphaned(u) == job[u].state = "active" /\ worker[job[u].owner].on # u

\* The worker of i finds a job whose lock has not been renewed, because its
\* owner is dead or (a fault) blocked or cut off from Redis.
Stall(i, u) ==
  /\ job[u].state = "active"
  /\ IF Orphaned(u) THEN UNCHANGED faults ELSE Fault
  /\ job' = [job EXCEPT ![u] =
               [state |-> IF job[u].stalls < MaxStalled THEN "waiting" ELSE "failed",
                owner |-> None, failures |-> job[u].failures, stalls |-> job[u].stalls + 1]]
  /\ event' = IF job[u].stalls < MaxStalled THEN event ELSE event \cup {<<i, u>>}
  /\ UNCHANGED <<history, lines, upload, worker>>

\* A process dies and is started again: its run, its uploads and its events
\* are gone, and onModuleInit clears the queue of failed jobs.
Crash(i) ==
  /\ \/ worker[i] # Idle
     \/ \E u \in Uploads : upload[u].at = i \/ <<i, u>> \in event
  /\ Fault
  /\ worker' = [worker EXCEPT ![i] = Idle]
  /\ upload' = [u \in Uploads |-> IF upload[u].at = i
                                  THEN [step |-> "error", at |-> None] ELSE upload[u]]
  /\ LET dead == {e \in event : e[1] = i} IN event' = (event \ dead) \cup Lost(dead)
  /\ job' = [u \in Uploads |-> IF job[u].state = "failed"
                               THEN NoJob ELSE job[u]]
  /\ UNCHANGED <<history, lines>>

-----------------------------------------------------------------------------
\* A process is handling u.
Import(u) ==
  /\ upload[u].at # None
  /\ \/ Store(u) \/ StoreError(u)
     \/ Enqueue(u) \/ EnqueueError(u)
     \/ Refuse(u) \/ RefuseError(u)

\* The worker of i is running u.
Run(i, u) ==
  /\ worker[i].on = u
  /\ \/ Refute(i, u)
     \/ Commit(i, u) \/ CommitError(i, u)
     \/ Reconcile(i, u) \/ ReconcileError(i, u)
     \/ StoreSuccess(i, u) \/ StoreSuccessError(i, u)
     \/ StoreFailed(i, u) \/ StoreFailedError(i, u)
     \/ Complete(i, u) \/ FailRun(i, u)

\* What the processes and BullMQ do of themselves.
Work ==
  \/ \E u \in Uploads : Import(u) \/ Retry(u)
  \/ \E i \in Instances, u \in Uploads :
       \/ Take(i, u) \/ Run(i, u)
       \/ MarkFailed(i, u) \/ MarkError(i, u)
       \/ Orphaned(u) /\ Stall(i, u)

Next ==
  \/ Work
  \/ \E i \in Instances, u \in Uploads : Check(i, u) \/ Stall(i, u)
  \/ \E i \in Instances : Crash(i)

Spec == Init /\ [][Next]_vars

\* Calls are answered one way or the other, delays end, the stalled check
\* finds orphaned jobs and workers take jobs: the work does not stop while
\* there is any.  Uploads, attempts, stalls and faults are finitely many, so
\* fairness towards all of the work is fairness towards each part of it.
FairSpec == Spec /\ WF_vars(Work)

-----------------------------------------------------------------------------
(* What the history promises.                                              *)

UploadsOf(f) == {u \in Uploads : FileOf[u] = f}

\* The row says SUCCESS only of a file whose lines have been written and
\* reconciled, however many attempts, uploads and workers it took.
SuccessWasReconciled ==
  \A f \in Files : history[f] = "SUCCESS" => lines[f] = "reconciled"

\* When every upload of a file has been imported, or rejected as imported
\* already, the row says SUCCESS: no failed attempt before the last one, and
\* no late event of such an attempt, has the last word.  A job that was
\* taken from a worker that was not dead is excepted: that worker may still
\* fail, and its FAILED is stored over the other's SUCCESS.
CompletedMeansSuccess ==
  \A f \in Files :
    /\ \A u \in UploadsOf(f) :
         \/ At(u, "idle") \/ At(u, "rejected")
         \/ At(u, "accepted") /\ job[u].state = "completed" /\ job[u].stalls = 0
    /\ \E u \in UploadsOf(f) : At(u, "accepted")
    => history[f] = "SUCCESS"

\* The row says SUCCESS, and no upload, job or run is left that might write
\* it; only events of failed attempts may be.
Imported(f) ==
  /\ history[f] = "SUCCESS"
  /\ \A u \in UploadsOf(f) :
       /\ upload[u].at = None
       /\ job[u].state \notin {"waiting", "active", "delayed"}
       /\ \A i \in Instances : worker[i].on # u

\* "Prevent duplicating an import that worked completely before": such a
\* file stays imported, whatever is uploaded and whichever events, faults
\* and crashes are still to come.
ImportedIsFinal == [][\A f \in Files : Imported(f) => Imported(f)']_vars

\* The page that polls while a row is PENDING stops: the row of a job in
\* the queue comes to SUCCESS or FAILED, whichever calls fail and processes
\* die on the way, in the run, in storing FAILED or in handling an event of
\* an attempt that is followed by another.  Two things can leave it PENDING:
\* an upload of the same file that resets the row and is then cut short, and
\* a job that has used up its attempts or stalls with none of its runs able
\* to store FAILED, whose last event is lost as well.
EveryJobSettles ==
  \A u \in Uploads :
    job[u].state = "waiting" ~>
      \/ history[FileOf[u]] # "PENDING"
      \/ \E v \in UploadsOf(FileOf[u]) : At(v, "error")
      \/ <<None, u>> \in event
=============================================================================
