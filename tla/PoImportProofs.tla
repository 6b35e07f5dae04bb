--------------------------- MODULE PoImportProofs ---------------------------
(***************************************************************************)
(* Proofs about PoImport, for any uploads, processes, attempts and faults. *)
(***************************************************************************)
EXTENDS PoImport, TLAPS

\* An upload is some process's while it is being handled.
HandledSomewhere ==
  \A u \in Uploads : upload[u].at = None <=> upload[u].step \notin {"checked", "stored", "refused"}

\* A job that may still be run has attempts and stalls left.
JobsBounded ==
  \A u \in Uploads :
    job[u].state \in {"none", "waiting", "active", "delayed"} =>
      job[u].failures < Attempts /\ job[u].stalls <= MaxStalled

\* Before the upload has handed it over there is no job, and no run of it.
JobAfterUpload ==
  \A u \in Uploads :
    upload[u].step \in {"idle", "checked", "stored", "rejected"} =>
      job[u].state = "none" /\ \A i \in Instances : worker[i].on # u

\* A run that has reconciled, on whichever worker, was for reconciled lines.
RunsReconciled ==
  \A i \in Instances, u \in Uploads :
    OnJob(i, "reconciled", u) \/ OnJob(i, "done", u) => lines[FileOf[u]] = "reconciled"

\* A run has the lock of its job unless it was taken away.
RunsHold ==
  \A i \in Instances, u \in Uploads :
    worker[i].on = u => HoldsLock(i, u) \/ job[u].stalls > 0 \/ job[u].state = "none"

HistoryBegun ==
  \A u \in Uploads :
    upload[u].step \in {"stored", "refused", "accepted"} => history[FileOf[u]] # "none"

\* An upload that has not failed, nor has its job been given up or stalled.
Undisturbed(u) ==
  \/ upload[u].step \in {"idle", "checked", "stored", "rejected"}
  \/ /\ upload[u].step = "accepted"
     /\ job[u].stalls = 0
     /\ job[u].state \in {"waiting", "active", "delayed", "completed"}

\* An upload that still has to store SUCCESS.
Unfinished(u) ==
  \/ upload[u].step = "stored"
  \/ /\ upload[u].step = "accepted"
     /\ \/ job[u].state \in {"waiting", "delayed"}
        \/ /\ job[u].state = "active"
           /\ \A i \in Instances : ~ (HoldsLock(i, u) /\ OnJob(i, "done", u))

\* While no upload of a file is disturbed, PENDING and FAILED are not the
\* last word on it.
LastWord ==
  \A f \in Files :
    /\ history[f] \in {"PENDING", "FAILED"}
    /\ \A u \in UploadsOf(f) : Undisturbed(u)
    => \E u \in UploadsOf(f) : Unfinished(u)

IInv ==
  /\ TypeOK
  /\ HandledSomewhere
  /\ JobsBounded
  /\ JobAfterUpload
  /\ RunsReconciled
  /\ SuccessWasReconciled
  /\ RunsHold
  /\ HistoryBegun
  /\ LastWord

-----------------------------------------------------------------------------
LEMMA InitImplies == Init => IInv
BY ImportAssumption DEF Init, IInv, TypeOK, HandledSomewhere, JobsBounded, JobAfterUpload,
   RunsReconciled, SuccessWasReconciled, RunsHold, HistoryBegun, LastWord, NoJob, Idle,
   OnJob, HoldsLock, Statuses, UploadSteps, JobStates, RunSteps, Jobs, Runs, UploadsOf

\* A job that is handed on stays a job.
LEMMA HandedOn ==
  ASSUME NEW j \in Jobs, NEW s \in JobStates, NEW o \in Instances \cup {None}
  PROVE  [j EXCEPT !.state = s, !.owner = o] \in Jobs
BY DEF Jobs

LEMMA Waits ==
  ASSUME NEW j \in Jobs
  PROVE  [j EXCEPT !.state = "waiting"] \in Jobs
BY DEF Jobs, JobStates

LEMMA TypeStep == TypeOK /\ JobsBounded /\ JobAfterUpload /\ [Next]_vars => TypeOK'
<1> SUFFICES ASSUME TypeOK, JobsBounded, JobAfterUpload, [Next]_vars PROVE TypeOK'
  OBVIOUS
<1> USE ImportAssumption DEF TypeOK, Statuses, UploadSteps, JobStates, RunSteps, Jobs, Runs, Fault, Status, At,
     Handled, Answered, OnJob, GoTo, HoldsLock, Release, Written, NoJob, Idle
<1>1. ASSUME NEW u \in Uploads, Store(u) PROVE TypeOK'
  BY <1>1 DEF Store
<1>2. ASSUME NEW u \in Uploads, StoreError(u) PROVE TypeOK'
  BY <1>2 DEF StoreError
<1>3. ASSUME NEW u \in Uploads, Enqueue(u) PROVE TypeOK'
  BY <1>3 DEF Enqueue
<1>4. ASSUME NEW u \in Uploads, EnqueueError(u) PROVE TypeOK'
  <2>1. job' \in [Uploads -> Jobs]
    <3>1. [job[u] EXCEPT !.state = "waiting"] \in Jobs
      <4>1. job[u] \in Jobs
        OBVIOUS
      <4>. QED  BY <4>1, Waits
    <3>. HIDE DEF Jobs, Runs
    <3>. QED  BY <1>4, <3>1 DEF EnqueueError
  <2>2. Handled(u, "refused")
    BY <1>4 DEF EnqueueError
  <2>3. upload' \in [Uploads -> [step : UploadSteps, at : Instances \cup {None}]]
    <3>. HIDE DEF Jobs, Runs
    <3>. QED  BY <2>2
  <2>4. faults' \in 0 .. MaxFaults /\ UNCHANGED <<history, lines, worker, event>>
    BY <1>4 DEF EnqueueError
  <2>. HIDE DEF Jobs, Runs
  <2>. QED  BY <2>1, <2>3, <2>4
<1>5. ASSUME NEW u \in Uploads, Refuse(u) PROVE TypeOK'
  BY <1>5 DEF Refuse
<1>6. ASSUME NEW u \in Uploads, RefuseError(u) PROVE TypeOK'
  BY <1>6 DEF RefuseError
<1>7. ASSUME NEW u \in Uploads, Retry(u) PROVE TypeOK'
  BY <1>7 DEF Retry
<1>8. ASSUME NEW i \in Instances, NEW u \in Uploads, Check(i, u) PROVE TypeOK'
  BY <1>8 DEF Check
<1>9. ASSUME NEW i \in Instances, NEW u \in Uploads, Take(i, u) PROVE TypeOK'
  <2>1. job' \in [Uploads -> Jobs]
    <3>1. [job[u] EXCEPT !.state = "active", !.owner = i] \in Jobs
      <4>1. job[u] \in Jobs  OBVIOUS
      <4>. HIDE DEF Jobs
      <4>. QED  BY <4>1, HandedOn
    <3>. HIDE DEF Jobs, Runs
    <3>. QED  BY <1>9, <3>1 DEF Take
  <2>2. worker' \in [Instances -> Runs]
    BY <1>9 DEF Take
  <2>. HIDE DEF Jobs, Runs
  <2>. QED  BY <1>9, <2>1, <2>2 DEF Take
<1>10. ASSUME NEW i \in Instances, NEW u \in Uploads, Refute(i, u) PROVE TypeOK'
  BY <1>10 DEF Refute
<1>11. ASSUME NEW i \in Instances, NEW u \in Uploads, Commit(i, u) PROVE TypeOK'
  BY <1>11 DEF Commit
<1>12. ASSUME NEW i \in Instances, NEW u \in Uploads, CommitError(i, u) PROVE TypeOK'
  <2>1. lines' \in [Files -> {"old", "written", "reconciled"}]
    BY <1>12 DEF CommitError
  <2>. QED  BY <1>12, <2>1 DEF CommitError
<1>13. ASSUME NEW i \in Instances, NEW u \in Uploads, Reconcile(i, u) PROVE TypeOK'
  BY <1>13 DEF Reconcile
<1>14. ASSUME NEW i \in Instances, NEW u \in Uploads, ReconcileError(i, u) PROVE TypeOK'
  BY <1>14 DEF ReconcileError
<1>15. ASSUME NEW i \in Instances, NEW u \in Uploads, StoreSuccess(i, u) PROVE TypeOK'
  BY <1>15 DEF StoreSuccess
<1>16. ASSUME NEW i \in Instances, NEW u \in Uploads, StoreSuccessError(i, u) PROVE TypeOK'
  <2>1. history' \in [Files -> Statuses]
    BY <1>16 DEF StoreSuccessError
  <2>2. worker' \in [Instances -> Runs]
    BY <1>16 DEF StoreSuccessError
  <2>3. faults' \in 0 .. MaxFaults /\ UNCHANGED <<lines, upload, job, event>>
    BY <1>16 DEF StoreSuccessError
  <2>. HIDE DEF Jobs, Runs, Statuses
  <2>. QED  BY <2>1, <2>2, <2>3
<1>17. ASSUME NEW i \in Instances, NEW u \in Uploads, StoreFailed(i, u) PROVE TypeOK'
  BY <1>17 DEF StoreFailed
<1>18. ASSUME NEW i \in Instances, NEW u \in Uploads, StoreFailedError(i, u) PROVE TypeOK'
  BY <1>18 DEF StoreFailedError
<1>19. ASSUME NEW i \in Instances, NEW u \in Uploads, Complete(i, u) PROVE TypeOK'
  <2>1. job' \in [Uploads -> Jobs]
    <3>1. [job[u] EXCEPT !.state = "completed", !.owner = None] \in Jobs
      <4>1. job[u] \in Jobs  OBVIOUS
      <4>. HIDE DEF Jobs
      <4>. QED  BY <4>1, HandedOn
    <3>. HIDE DEF Jobs, Runs
    <3>. QED  BY <1>19, <3>1 DEF Complete
  <2>2. worker' \in [Instances -> Runs]
    BY <1>19 DEF Complete
  <2>. HIDE DEF Jobs, Runs
  <2>. QED  BY <1>19, <2>1, <2>2 DEF Complete
<1>20. ASSUME NEW i \in Instances, NEW u \in Uploads, FailRun(i, u) PROVE TypeOK'
  <2>1. worker' \in [Instances -> Runs]
    BY <1>20 DEF FailRun
  <2>2. job' \in [Uploads -> Jobs] /\ event' \in SUBSET Events
    <3>1. CASE HoldsLock(i, u)
      <4>1. job[u].failures < Attempts
        BY <3>1 DEF JobsBounded
      <4>. DEFINE after == [state |-> IF job[u].failures + 1 < Attempts THEN "delayed" ELSE "failed",
                            owner |-> None, failures |-> job[u].failures + 1,
                            stalls |-> job[u].stalls]
      <4>2. after \in Jobs
        BY <4>1
      <4>3. job' = [job EXCEPT ![u] = after] /\ event' = event \cup {<<i, u>>}
        BY <3>1, <1>20 DEF FailRun
      <4>. HIDE DEF Jobs, after
      <4>. QED  BY <4>2, <4>3 DEF Events
    <3>2. CASE ~ HoldsLock(i, u)
      BY <3>2, <1>20 DEF FailRun
    <3>. QED  BY <3>1, <3>2
  <2>. HIDE DEF Jobs, Runs
  <2>. QED  BY <1>20, <2>1, <2>2 DEF FailRun
<1>21. ASSUME NEW i \in Instances, NEW u \in Uploads, MarkFailed(i, u) PROVE TypeOK'
  BY <1>21 DEF MarkFailed
<1>22. ASSUME NEW i \in Instances, NEW u \in Uploads, MarkError(i, u) PROVE TypeOK'
  <2>1. event' \in SUBSET Events
    BY <1>22 DEF MarkError, Lost, Events
  <2>2. faults' \in 0 .. MaxFaults /\ UNCHANGED <<history, lines, upload, job, worker>>
    BY <1>22 DEF MarkError
  <2>. HIDE DEF Jobs, Runs
  <2>. QED  BY <2>1, <2>2
<1>23. ASSUME NEW i \in Instances, NEW u \in Uploads, Stall(i, u) PROVE TypeOK'
  BY <1>23 DEF Stall, JobsBounded, Events
<1>24. ASSUME NEW i \in Instances, Crash(i) PROVE TypeOK'
  <2>1. event' \in SUBSET Events
    <3> DEFINE dead == {e \in event : e[1] = i}
    <3>1. event' = (event \ dead) \cup Lost(dead) /\ dead \subseteq Events
      BY <1>24 DEF Crash
    <3>2. Lost(dead) \subseteq Events
      BY <3>1 DEF Lost, Events
    <3>. HIDE DEF dead
    <3>. QED  BY <3>1, <3>2
  <2>2. worker' \in [Instances -> Runs] /\ job' \in [Uploads -> Jobs]
    BY <1>24 DEF Crash
  <2>3. upload' \in [Uploads -> [step : UploadSteps, at : Instances \cup {None}]]
    BY <1>24 DEF Crash
  <2>. HIDE DEF Jobs, Runs
  <2>. QED  BY <1>24, <2>1, <2>2, <2>3 DEF Crash
<1>25. CASE UNCHANGED vars
  BY <1>25 DEF vars
<1>. QED
  BY <1>1, <1>2, <1>3, <1>4, <1>5, <1>6, <1>7, <1>8, <1>9, <1>10, <1>11, <1>12, <1>13, <1>14, <1>15, <1>16, <1>17, <1>18, <1>19, <1>20, <1>21, <1>22, <1>23, <1>24, <1>25 DEF Next, Work, Import, Run

-----------------------------------------------------------------------------
(* Each of the other parts of IInv is kept by every step.                  *)

LEMMA HandledStep == TypeOK /\ HandledSomewhere /\ [Next]_vars => HandledSomewhere'
<1> SUFFICES ASSUME TypeOK, HandledSomewhere, [Next]_vars PROVE HandledSomewhere'
  OBVIOUS
<1>0. upload \in [Uploads -> [step : UploadSteps, at : Instances \cup {None}]]
  BY DEF TypeOK
<1> USE ImportAssumption, <1>0 DEF HandledSomewhere, At, Handled, Answered
<1>1. ASSUME NEW u \in Uploads, Import(u) PROVE HandledSomewhere'
  BY <1>1 DEF Import, Store, StoreError, Enqueue, EnqueueError, Refuse, RefuseError
<1>2. ASSUME NEW i \in Instances, NEW u \in Uploads, Check(i, u) PROVE HandledSomewhere'
  BY <1>2 DEF Check
<1>3. ASSUME NEW i \in Instances, NEW u \in Uploads, Run(i, u) PROVE UNCHANGED upload
  BY <1>3 DEF Run, Refute, Commit, CommitError, Reconcile, ReconcileError, StoreSuccess,
     StoreSuccessError, StoreFailed, StoreFailedError, Complete, FailRun
<1>4. ASSUME NEW i \in Instances, NEW u \in Uploads,
             Take(i, u) \/ MarkFailed(i, u) \/ MarkError(i, u) \/ Stall(i, u) \/ Retry(u)
      PROVE  UNCHANGED upload
  BY <1>4 DEF Take, MarkFailed, MarkError, Stall, Retry
<1>5. ASSUME NEW u \in Uploads, Retry(u) PROVE UNCHANGED upload
  BY <1>5 DEF Retry
<1>6. ASSUME NEW i \in Instances, Crash(i) PROVE HandledSomewhere'
  BY <1>6 DEF Crash
<1>7. CASE UNCHANGED upload
  BY <1>7
<1>. QED  BY <1>1, <1>2, <1>3, <1>4, <1>5, <1>6, <1>7 DEF Next, Work, vars

LEMMA BoundsStep == TypeOK /\ JobsBounded /\ JobAfterUpload /\ [Next]_vars => JobsBounded'
<1> SUFFICES ASSUME TypeOK, JobsBounded, JobAfterUpload, [Next]_vars PROVE JobsBounded'
  OBVIOUS
<1>0. job \in [Uploads -> Jobs]
  BY DEF TypeOK
<1> USE ImportAssumption, <1>0 DEF JobsBounded, Jobs, JobStates
<1>1. ASSUME NEW u \in Uploads, Import(u) PROVE JobsBounded'
  BY <1>1 DEF Import, Store, StoreError, Enqueue, EnqueueError, Refuse, RefuseError, JobAfterUpload, At
<1>2. ASSUME NEW u \in Uploads, Retry(u) PROVE JobsBounded'
  BY <1>2 DEF Retry
<1>3. ASSUME NEW i \in Instances, NEW u \in Uploads, Take(i, u) PROVE JobsBounded'
  BY <1>3 DEF Take
<1>4. ASSUME NEW i \in Instances, NEW u \in Uploads, Complete(i, u) PROVE JobsBounded'
  BY <1>4 DEF Complete
<1>5. ASSUME NEW i \in Instances, NEW u \in Uploads, FailRun(i, u) PROVE JobsBounded'
  <2>1. CASE HoldsLock(i, u)
    <3>1. job' = [job EXCEPT ![u] =
                    [state |-> IF job[u].failures + 1 < Attempts THEN "delayed" ELSE "failed",
                     owner |-> None, failures |-> job[u].failures + 1, stalls |-> job[u].stalls]]
      BY <2>1, <1>5 DEF FailRun
    <3>2. job[u].stalls <= MaxStalled
      BY <2>1 DEF HoldsLock
    <3>. QED  BY <3>1, <3>2
  <2>2. CASE ~ HoldsLock(i, u)
    BY <2>2, <1>5 DEF FailRun
  <2>. QED  BY <2>1, <2>2
<1>6. ASSUME NEW i \in Instances, NEW u \in Uploads, Stall(i, u) PROVE JobsBounded'
  BY <1>6 DEF Stall
<1>7. ASSUME NEW i \in Instances, Crash(i) PROVE JobsBounded'
  BY <1>7 DEF Crash, NoJob
<1>8. CASE UNCHANGED job
  BY <1>8
<1>9. ASSUME NEW i \in Instances, NEW u \in Uploads,
             \/ Check(i, u) \/ MarkFailed(i, u) \/ MarkError(i, u)
             \/ Run(i, u) /\ ~ Complete(i, u) /\ ~ FailRun(i, u)
      PROVE  UNCHANGED job
  BY <1>9 DEF Check, MarkFailed, MarkError, Run, Refute, Commit, CommitError, Reconcile, ReconcileError,
     StoreSuccess, StoreSuccessError, StoreFailed, StoreFailedError
<1>. QED  BY <1>1, <1>2, <1>3, <1>4, <1>5, <1>6, <1>7, <1>8, <1>9 DEF Next, Work, vars
LEMMA AfterUploadStep ==
  TypeOK /\ JobAfterUpload /\ [Next]_vars => JobAfterUpload'
<1> SUFFICES ASSUME TypeOK, JobAfterUpload, [Next]_vars PROVE JobAfterUpload'
  OBVIOUS
<1>0. /\ upload \in [Uploads -> [step : UploadSteps, at : Instances \cup {None}]]
      /\ job \in [Uploads -> Jobs]
      /\ worker \in [Instances -> Runs]
  BY DEF TypeOK
<1> USE ImportAssumption, <1>0 DEF JobAfterUpload, Jobs, JobStates, Runs, UploadSteps
<1>1. ASSUME NEW u \in Uploads, Import(u) PROVE JobAfterUpload'
  <2>1. CASE Store(u)
    BY <2>1 DEF Store, At, Handled
  <2>2. CASE StoreError(u)
    BY <2>2 DEF StoreError, At, Answered
  <2>3. CASE Enqueue(u)
    BY <2>3 DEF Enqueue, At, Answered
  <2>4. CASE EnqueueError(u)
    BY <2>4 DEF EnqueueError, At, Handled
  <2>5. CASE Refuse(u) \/ RefuseError(u)
    BY <2>5 DEF Refuse, RefuseError, At, Answered
  <2>. QED  BY <1>1, <2>1, <2>2, <2>3, <2>4, <2>5 DEF Import
<1>2. ASSUME NEW u \in Uploads, Retry(u) PROVE JobAfterUpload'
  BY <1>2 DEF Retry
<1>3. ASSUME NEW i \in Instances, NEW u \in Uploads, Check(i, u) PROVE JobAfterUpload'
  BY <1>3 DEF Check, At
<1>4. ASSUME NEW i \in Instances, NEW u \in Uploads, Take(i, u) PROVE JobAfterUpload'
  BY <1>4 DEF Take
<1>5. ASSUME NEW i \in Instances, NEW u \in Uploads, Complete(i, u) \/ FailRun(i, u) PROVE JobAfterUpload'
  BY <1>5 DEF Complete, FailRun, HoldsLock, Release, Idle
<1>6. ASSUME NEW i \in Instances, NEW u \in Uploads, Run(i, u), ~ Complete(i, u), ~ FailRun(i, u)
      PROVE  JobAfterUpload'
  <2>1. UNCHANGED <<upload, job>> /\ \E step \in RunSteps : GoTo(i, step)
    BY <1>6 DEF Run, Refute, Commit, CommitError, Reconcile, ReconcileError,
       StoreSuccess, StoreSuccessError, StoreFailed, StoreFailedError, RunSteps
  <2>. QED  BY <2>1 DEF GoTo
<1>7. ASSUME NEW i \in Instances, NEW u \in Uploads, Stall(i, u) PROVE JobAfterUpload'
  BY <1>7 DEF Stall
<1>8. ASSUME NEW i \in Instances, Crash(i) PROVE JobAfterUpload'
  BY <1>8 DEF Crash, NoJob, Idle
<1>9. ASSUME NEW i \in Instances, NEW u \in Uploads, MarkFailed(i, u) \/ MarkError(i, u)
      PROVE  UNCHANGED <<upload, job, worker>>
  BY <1>9 DEF MarkFailed, MarkError
<1>10. CASE UNCHANGED <<upload, job, worker>>
  BY <1>10
<1>. QED  BY <1>1, <1>2, <1>3, <1>4, <1>5, <1>6, <1>7, <1>8, <1>9, <1>10 DEF Next, Work, vars

LEMMA ReconciledStep ==
  TypeOK /\ RunsReconciled /\ SuccessWasReconciled /\ [Next]_vars
    => RunsReconciled' /\ SuccessWasReconciled'
<1> SUFFICES ASSUME TypeOK, RunsReconciled, SuccessWasReconciled, [Next]_vars
             PROVE  RunsReconciled' /\ SuccessWasReconciled'
  OBVIOUS
<1>0. /\ lines \in [Files -> {"old", "written", "reconciled"}]
      /\ worker \in [Instances -> Runs]
      /\ history \in [Files -> Statuses]
  BY DEF TypeOK
<1> USE ImportAssumption, <1>0 DEF RunsReconciled, SuccessWasReconciled, Runs, RunSteps, Statuses, OnJob
<1>1. ASSUME NEW u \in Uploads, Import(u)
      PROVE  /\ UNCHANGED <<lines, worker>>
             /\ UNCHANGED history \/ Status(u, "PENDING") \/ Status(u, "FAILED")
  BY <1>1 DEF Import, Store, StoreError, Enqueue, EnqueueError, Refuse, RefuseError
<1>2. ASSUME NEW i \in Instances, NEW u \in Uploads, MarkFailed(i, u) \/ MarkError(i, u)
      PROVE  /\ UNCHANGED <<lines, worker>>
             /\ UNCHANGED history \/ Status(u, "PENDING") \/ Status(u, "FAILED")
  BY <1>2 DEF MarkFailed, MarkError
<1>3. ASSUME NEW i \in Instances, NEW u \in Uploads, Check(i, u) \/ Stall(i, u) \/ Retry(u)
      PROVE  UNCHANGED <<lines, worker, history>>
  BY <1>3 DEF Check, Stall, Retry
<1>4. ASSUME NEW u \in Uploads, Retry(u) PROVE  UNCHANGED <<lines, worker, history>>
  BY <1>4 DEF Retry
<1>5. ASSUME UNCHANGED <<lines, worker>>, NEW u \in Uploads,
             UNCHANGED history \/ Status(u, "PENDING") \/ Status(u, "FAILED")
      PROVE  RunsReconciled' /\ SuccessWasReconciled'
  BY <1>5 DEF Status
<1>6. ASSUME NEW i \in Instances, NEW u \in Uploads, Take(i, u)
      PROVE  RunsReconciled' /\ SuccessWasReconciled'
  BY <1>6 DEF Take, Idle
<1>7. ASSUME NEW i \in Instances, NEW u \in Uploads, Run(i, u)
      PROVE  RunsReconciled' /\ SuccessWasReconciled'
  <2>1. CASE Refute(i, u) \/ ReconcileError(i, u)
    BY <2>1 DEF Refute, ReconcileError, GoTo
  <2>2. CASE Commit(i, u) \/ CommitError(i, u)
    BY <2>2 DEF Commit, CommitError, GoTo, Written
  <2>3. CASE Reconcile(i, u)
    BY <2>3 DEF Reconcile, GoTo
  <2>4. CASE StoreSuccess(i, u)
    BY <2>4 DEF StoreSuccess, GoTo, Status
  <2>5. CASE StoreSuccessError(i, u)
    BY <2>5 DEF StoreSuccessError, GoTo, Status
  <2>6. CASE StoreFailed(i, u)
    BY <2>6 DEF StoreFailed, GoTo, Status
  <2>7. CASE StoreFailedError(i, u)
    BY <2>7 DEF StoreFailedError, GoTo
  <2>8. CASE Complete(i, u) \/ FailRun(i, u)
    BY <2>8 DEF Complete, FailRun, Release, Idle
  <2>. QED  BY <1>7, <2>1, <2>2, <2>3, <2>4, <2>5, <2>6, <2>7, <2>8 DEF Run
<1>8. ASSUME NEW i \in Instances, Crash(i) PROVE RunsReconciled' /\ SuccessWasReconciled'
  BY <1>8 DEF Crash, Idle
<1>9. CASE UNCHANGED <<lines, worker, history>>
  BY <1>9
<1>. QED  BY <1>1, <1>2, <1>3, <1>4, <1>5, <1>6, <1>7, <1>8, <1>9 DEF Next, Work, vars

LEMMA BegunStep == TypeOK /\ HistoryBegun /\ [Next]_vars => HistoryBegun'
<1> SUFFICES ASSUME TypeOK, HistoryBegun, [Next]_vars PROVE HistoryBegun'
  OBVIOUS
<1>0. /\ history \in [Files -> Statuses]
      /\ upload \in [Uploads -> [step : UploadSteps, at : Instances \cup {None}]]
  BY DEF TypeOK
<1> USE ImportAssumption, <1>0 DEF HistoryBegun, UploadSteps, Statuses, Status
<1>1. ASSUME NEW u \in Uploads, Import(u) PROVE HistoryBegun'
  <2>1. CASE Store(u) \/ StoreError(u)
    BY <2>1 DEF Store, StoreError, Handled, Answered
  <2>2. CASE Enqueue(u) \/ EnqueueError(u)
    BY <2>2 DEF Enqueue, EnqueueError, At, Handled, Answered
  <2>3. CASE Refuse(u) \/ RefuseError(u)
    BY <2>3 DEF Refuse, RefuseError, Answered
  <2>. QED  BY <1>1, <2>1, <2>2, <2>3 DEF Import
<1>2. ASSUME NEW i \in Instances, NEW u \in Uploads, Check(i, u) PROVE HistoryBegun'
  BY <1>2 DEF Check
<1>3. ASSUME NEW i \in Instances, NEW u \in Uploads, Run(i, u) \/ MarkFailed(i, u) \/ MarkError(i, u)
      PROVE  /\ UNCHANGED upload
             /\ UNCHANGED history \/ Status(u, "SUCCESS") \/ Status(u, "FAILED")
  BY <1>3 DEF MarkFailed, MarkError, Run, Refute, Commit, CommitError, Reconcile, ReconcileError,
     StoreSuccess, StoreSuccessError, StoreFailed, StoreFailedError, Complete, FailRun
<1>4. ASSUME UNCHANGED upload, NEW u \in Uploads,
             UNCHANGED history \/ Status(u, "SUCCESS") \/ Status(u, "FAILED")
      PROVE  HistoryBegun'
  BY <1>4
<1>5. ASSUME NEW i \in Instances, NEW u \in Uploads, Take(i, u) \/ Stall(i, u)
      PROVE  UNCHANGED <<upload, history>>
  BY <1>5 DEF Take, Stall
<1>6. ASSUME NEW u \in Uploads, Retry(u) PROVE UNCHANGED <<upload, history>>
  BY <1>6 DEF Retry
<1>7. ASSUME NEW i \in Instances, Crash(i) PROVE HistoryBegun'
  BY <1>7 DEF Crash
<1>8. CASE UNCHANGED <<upload, history>>
  BY <1>8
<1>. QED  BY <1>1, <1>2, <1>3, <1>4, <1>5, <1>6, <1>7, <1>8 DEF Next, Work, vars

LEMMA HoldStep == TypeOK /\ JobAfterUpload /\ RunsHold /\ [Next]_vars => RunsHold'
<1> SUFFICES ASSUME TypeOK, JobAfterUpload, RunsHold, [Next]_vars PROVE RunsHold'
  OBVIOUS
<1>0. /\ job \in [Uploads -> Jobs]
      /\ worker \in [Instances -> Runs]
  BY DEF TypeOK
<1> USE ImportAssumption, <1>0 DEF RunsHold, Jobs, JobStates, Runs, HoldsLock
<1>1. ASSUME NEW u \in Uploads, Import(u) PROVE RunsHold'
  <2>1. CASE Store(u) \/ StoreError(u) \/ Refuse(u) \/ RefuseError(u)
    BY <2>1 DEF Store, StoreError, Refuse, RefuseError
  <2>2. CASE Enqueue(u) \/ EnqueueError(u)
    BY <2>2 DEF Enqueue, EnqueueError, At, JobAfterUpload
  <2>. QED  BY <1>1, <2>1, <2>2 DEF Import
<1>2. ASSUME NEW u \in Uploads, Retry(u) PROVE RunsHold'
  BY <1>2 DEF Retry
<1>3. ASSUME NEW i \in Instances, NEW u \in Uploads, Take(i, u) PROVE RunsHold'
  BY <1>3 DEF Take, Idle
<1>4. ASSUME NEW i \in Instances, NEW u \in Uploads, Complete(i, u) PROVE RunsHold'
  <2>1. CASE HoldsLock(i, u)
    BY <2>1, <1>4 DEF Complete, Release, Idle
  <2>2. CASE ~ HoldsLock(i, u)
    BY <2>2, <1>4 DEF Complete, Release, Idle
  <2>. QED  BY <2>1, <2>2
<1>5. ASSUME NEW i \in Instances, NEW u \in Uploads, FailRun(i, u) PROVE RunsHold'
  <2>1. CASE HoldsLock(i, u)
    <3> SUFFICES ASSUME NEW j \in Instances, NEW v \in Uploads, worker'[j].on = v
                 PROVE  HoldsLock(j, v)' \/ job'[v].stalls > 0 \/ job'[v].state = "none"
      OBVIOUS
    <3>1. j # i /\ worker[j].on = v
      BY <1>5 DEF FailRun, Release, Idle
    <3>2. HoldsLock(j, v) \/ job[v].stalls > 0 \/ job[v].state = "none"
      BY <3>1
    <3>3. CASE v = u
      BY <1>5, <2>1, <3>1, <3>2, <3>3 DEF FailRun
    <3>4. CASE v # u
      BY <1>5, <2>1, <3>2, <3>4 DEF FailRun
    <3>. QED  BY <3>3, <3>4
  <2>2. CASE ~ HoldsLock(i, u)
    BY <2>2, <1>5 DEF FailRun, Release, Idle
  <2>. QED  BY <2>1, <2>2
<1>6. ASSUME NEW i \in Instances, NEW u \in Uploads, Run(i, u), ~ Complete(i, u), ~ FailRun(i, u)
      PROVE  RunsHold'
  <2>1. UNCHANGED job /\ \E step \in RunSteps : GoTo(i, step)
    BY <1>6 DEF Run, Refute, Commit, CommitError, Reconcile, ReconcileError,
       StoreSuccess, StoreSuccessError, StoreFailed, StoreFailedError, RunSteps
  <2>. QED  BY <2>1 DEF GoTo
<1>7. ASSUME NEW i \in Instances, NEW u \in Uploads, Stall(i, u) PROVE RunsHold'
  BY <1>7 DEF Stall
<1>8. ASSUME NEW i \in Instances, Crash(i) PROVE RunsHold'
  BY <1>8 DEF Crash, NoJob, Idle
<1>9. ASSUME NEW i \in Instances, NEW u \in Uploads, Check(i, u) \/ MarkFailed(i, u) \/ MarkError(i, u)
      PROVE  UNCHANGED <<job, worker>>
  BY <1>9 DEF Check, MarkFailed, MarkError
<1>10. CASE UNCHANGED <<job, worker>>
  BY <1>10
<1>. QED  BY <1>1, <1>2, <1>3, <1>4, <1>5, <1>6, <1>7, <1>8, <1>9, <1>10 DEF Next, Work, vars

\* The heart of CompletedMeansSuccess.  A step either leaves unfinished what
\* was unfinished, or begins something unfinished, or stores SUCCESS; only a
\* run that lost its job can store FAILED over the SUCCESS of another.
LEMMA LastWordStep ==
  TypeOK /\ JobAfterUpload /\ RunsHold /\ LastWord /\ [Next]_vars => LastWord'
<1> SUFFICES ASSUME TypeOK, JobAfterUpload, RunsHold, LastWord, [Next]_vars,
                    NEW f \in Files, history'[f] \in {"PENDING", "FAILED"},
                    \A u \in UploadsOf(f) : Undisturbed(u)'
             PROVE  \E u \in UploadsOf(f) : Unfinished(u)'
  BY DEF LastWord, UploadsOf
<1> DEFINE Goal == \E u \in UploadsOf(f) : Unfinished(u)'
<1>0. /\ history \in [Files -> Statuses]
      /\ upload \in [Uploads -> [step : UploadSteps, at : Instances \cup {None}]]
      /\ job \in [Uploads -> Jobs]
      /\ worker \in [Instances -> Runs]
  BY DEF TypeOK
<1> USE ImportAssumption, <1>0 DEF Jobs, JobStates, Runs, RunSteps, Statuses, UploadSteps,
     UploadsOf, Undisturbed, Unfinished, HoldsLock, OnJob
<1>1. ASSUME history[f] \in {"PENDING", "FAILED"},
             \A u \in UploadsOf(f) : Undisturbed(u)' => Undisturbed(u),
             \A u \in UploadsOf(f) : Unfinished(u) => Unfinished(u)'
      PROVE  Goal
  <2>. HIDE DEF Undisturbed, Unfinished, UploadsOf
  <2>1. PICK u \in UploadsOf(f) : Unfinished(u)
    BY <1>1 DEF LastWord
  <2>. QED  BY <1>1, <2>1
<1>2. ASSUME NEW u \in Uploads, Store(u) PROVE Goal
  <2>1. CASE FileOf[u] = f
    BY <1>2, <2>1 DEF Store, Handled
  <2>2. CASE FileOf[u] # f
    BY <1>1, <1>2, <2>2 DEF Store, Handled, Status
  <2>. QED  BY <2>1, <2>2
<1>3. ASSUME NEW u \in Uploads, StoreError(u) PROVE Goal
  <2>1. CASE FileOf[u] = f
    BY <1>3, <2>1 DEF StoreError, Answered
  <2>2. CASE FileOf[u] # f
    BY <1>1, <1>3, <2>2 DEF StoreError, Answered, Status
  <2>. QED  BY <2>1, <2>2
<1>4. ASSUME NEW u \in Uploads, Enqueue(u) PROVE Goal
  <2>1. CASE FileOf[u] = f
    BY <1>4, <2>1 DEF Enqueue, Answered
  <2>2. CASE FileOf[u] # f
    BY <1>1, <1>4, <2>2 DEF Enqueue, Answered
  <2>. QED  BY <2>1, <2>2
<1>5. ASSUME NEW u \in Uploads, EnqueueError(u) PROVE Goal
  <2>1. CASE FileOf[u] = f
    BY <1>5, <2>1 DEF EnqueueError, Handled
  <2>2. CASE FileOf[u] # f
    BY <1>1, <1>5, <2>2 DEF EnqueueError, Handled
  <2>. QED  BY <2>1, <2>2
<1>6. ASSUME NEW u \in Uploads, Refuse(u) \/ RefuseError(u) PROVE Goal
  <2>1. Answered(u, "error") /\ UNCHANGED <<job, worker>>
    BY <1>6 DEF Refuse, RefuseError
  <2>2. FileOf[u] # f
    BY <2>1 DEF Answered
  <2>3. history'[f] = history[f]
    <3>1. CASE Refuse(u)
      BY <3>1, <2>2 DEF Refuse, Status
    <3>2. CASE RefuseError(u)
      BY <3>2 DEF RefuseError
    <3>. QED  BY <1>6, <3>1, <3>2
  <2>. QED  BY <1>1, <2>1, <2>2, <2>3 DEF Answered
<1>7. ASSUME NEW u \in Uploads, Retry(u) PROVE Goal
  BY <1>1, <1>7 DEF Retry
<1>8. ASSUME NEW i \in Instances, NEW u \in Uploads, Check(i, u) PROVE Goal
  BY <1>1, <1>8 DEF Check, At
<1>9. ASSUME NEW i \in Instances, NEW u \in Uploads, Take(i, u) PROVE Goal
  BY <1>1, <1>9 DEF Take, Idle
<1>10. ASSUME NEW i \in Instances, NEW u \in Uploads,
              Refute(i, u) \/ Commit(i, u) \/ CommitError(i, u) \/ Reconcile(i, u)
              \/ ReconcileError(i, u) \/ StoreFailedError(i, u)
       PROVE  Goal
  <2>1. /\ UNCHANGED <<history, upload, job>>
        /\ \E step \in {"written", "reconciled", "caught", "thrown"} : GoTo(i, step)
    BY <1>10 DEF Refute, Commit, CommitError, Reconcile, ReconcileError, StoreFailedError
  <2>. QED  BY <1>1, <2>1 DEF GoTo
<1>11. ASSUME NEW i \in Instances, NEW u \in Uploads, StoreSuccess(i, u) PROVE Goal
  <2>1. FileOf[u] # f
    BY <1>11 DEF StoreSuccess, Status
  <2>. QED  BY <1>1, <1>11, <2>1 DEF StoreSuccess, Status, GoTo
<1>12. ASSUME NEW i \in Instances, NEW u \in Uploads, StoreSuccessError(i, u) PROVE Goal
  <2>1. history[f] = history'[f]
    BY <1>12 DEF StoreSuccessError, Status
  <2>. QED  BY <1>1, <1>12, <2>1 DEF StoreSuccessError, GoTo
<1>13. ASSUME NEW i \in Instances, NEW u \in Uploads, StoreFailed(i, u) PROVE Goal
  <2>1. CASE FileOf[u] = f
    <3>1. u \in UploadsOf(f) /\ Undisturbed(u)'
      BY <2>1
    <3>2. UNCHANGED <<upload, job>> /\ worker[i].on = u /\ worker'[i].step = "thrown"
      BY <1>13 DEF StoreFailed, GoTo
    <3>3. upload[u].step = "accepted" /\ job[u].stalls = 0 /\ job[u].state # "none"
      BY <3>1, <3>2 DEF JobAfterUpload
    <3>4. HoldsLock(i, u)
      BY <3>2, <3>3 DEF RunsHold
    <3>5. ~ OnJob(i, "done", u)'
      BY <3>2 DEF OnJob
    <3>6. \A j \in Instances : j # i => ~ HoldsLock(j, u)'
      BY <3>2, <3>4 DEF HoldsLock
    <3>7. Unfinished(u)'
      BY <3>2, <3>3, <3>4, <3>5, <3>6 DEF HoldsLock
    <3>. QED  BY <3>1, <3>7
  <2>2. CASE FileOf[u] # f
    BY <1>1, <1>13, <2>2 DEF StoreFailed, Status, GoTo
  <2>. QED  BY <2>1, <2>2
<1>14. ASSUME NEW i \in Instances, NEW u \in Uploads, Complete(i, u) PROVE Goal
  <2>1. CASE HoldsLock(i, u)
    BY <1>1, <1>14, <2>1 DEF Complete, Release, Idle, JobAfterUpload
  <2>2. CASE ~ HoldsLock(i, u)
    BY <1>1, <1>14, <2>2 DEF Complete, Release, Idle
  <2>. QED  BY <2>1, <2>2
<1>15. ASSUME NEW i \in Instances, NEW u \in Uploads, FailRun(i, u) PROVE Goal
  <2>1. CASE HoldsLock(i, u)
    <3>1. job' = [job EXCEPT ![u] =
                    [state |-> IF job[u].failures + 1 < Attempts THEN "delayed" ELSE "failed",
                     owner |-> None, failures |-> job[u].failures + 1, stalls |-> job[u].stalls]]
      BY <1>15, <2>1 DEF FailRun
    <3>2. /\ UNCHANGED <<history, upload>>
          /\ worker' = [worker EXCEPT ![i] = Idle]
          /\ worker[i].step = "thrown"
      BY <1>15 DEF FailRun, Release
    <3>3. \A v \in Uploads : v # u => job'[v] = job[v]
      BY <3>1
    <3>4. job'[u].state \in {"delayed", "failed"} /\ job'[u].stalls = job[u].stalls
      BY <3>1
    <3>5. upload[u].step \notin {"idle", "checked", "stored", "rejected"}
      BY <2>1 DEF JobAfterUpload
    <3>6. \A v \in UploadsOf(f) : Undisturbed(v)' => Undisturbed(v)
      BY <2>1, <3>2, <3>3, <3>4, <3>5
    <3>7. \A v \in UploadsOf(f) : Unfinished(v) => Unfinished(v)'
      <4>1. TAKE v \in UploadsOf(f)
      <4>2. CASE v = u
        BY <2>1, <3>2, <3>4, <3>5, <4>2
      <4>3. CASE v # u
        BY <3>2, <3>3, <4>3 DEF Idle
      <4>. QED  BY <4>2, <4>3
    <3>. QED  BY <1>1, <3>2, <3>6, <3>7
  <2>2. CASE ~ HoldsLock(i, u)
    BY <1>1, <1>15, <2>2 DEF FailRun, Release, Idle
  <2>. QED  BY <2>1, <2>2
<1>16. ASSUME NEW i \in Instances, NEW u \in Uploads, MarkFailed(i, u) PROVE Goal
  BY <1>1, <1>16 DEF MarkFailed, Status
<1>17. ASSUME NEW i \in Instances, NEW u \in Uploads, MarkError(i, u) PROVE Goal
  BY <1>1, <1>17 DEF MarkError
<1>18. ASSUME NEW i \in Instances, NEW u \in Uploads, Stall(i, u) PROVE Goal
  BY <1>1, <1>18 DEF Stall, JobAfterUpload
<1>19. ASSUME NEW i \in Instances, Crash(i) PROVE Goal
  BY <1>1, <1>19 DEF Crash, NoJob, Idle
<1>20. CASE UNCHANGED vars
  BY <1>1, <1>20 DEF vars
<1>. HIDE DEF Goal
<1>. QED  BY <1>2, <1>3, <1>4, <1>5, <1>6, <1>7, <1>8, <1>9, <1>10, <1>11, <1>12, <1>13, <1>14,
     <1>15, <1>16, <1>17, <1>18, <1>19, <1>20 DEF Next, Work, Import, Run, Goal

-----------------------------------------------------------------------------
LEMMA ImportInductive == IInv /\ [Next]_vars => IInv'
BY TypeStep, HandledStep, BoundsStep, AfterUploadStep, ReconciledStep, HoldStep, BegunStep,
   LastWordStep DEF IInv

LEMMA ImportInv == Spec => []IInv
BY InitImplies, ImportInductive, PTL DEF Spec

\* Every variable of the upload, the queue and the history keeps its type: a
\* job has at most Attempts failures and MaxStalled + 1 stalls.
THEOREM UploadTypeCorrect == Spec => []TypeOK
<1>1. IInv => TypeOK
  BY DEF IInv
<1>. QED  BY <1>1, ImportInv, PTL

\* The history row says SUCCESS only of lines that have been written and
\* reconciled, for any uploads, workers, attempts, stalls and faults.
THEOREM SuccessReconciled == Spec => []SuccessWasReconciled
<1>1. IInv => SuccessWasReconciled
  BY DEF IInv
<1>. QED  BY <1>1, ImportInv, PTL

\* Once every upload of a file has been imported undisturbed, FAILED and
\* PENDING are not the last word on it.
THEOREM CompletedSucceeds == Spec => []CompletedMeansSuccess
<1>1. ASSUME IInv PROVE CompletedMeansSuccess
  <2>. SUFFICES ASSUME NEW f \in Files,
                       \A u \in UploadsOf(f) :
                         \/ At(u, "idle") \/ At(u, "rejected")
                         \/ At(u, "accepted") /\ job[u].state = "completed" /\ job[u].stalls = 0,
                       \E u \in UploadsOf(f) : At(u, "accepted")
                PROVE  history[f] = "SUCCESS"
    BY DEF CompletedMeansSuccess
  <2>1. history[f] # "none"
    BY <1>1 DEF IInv, HistoryBegun, UploadsOf, At
  <2>2. \A u \in UploadsOf(f) : Undisturbed(u) /\ ~ Unfinished(u)
    BY DEF Undisturbed, Unfinished, UploadsOf, At
  <2>3. history[f] \notin {"PENDING", "FAILED"}
    BY <1>1, <2>2 DEF IInv, LastWord
  <2>4. history[f] \in Statuses
    BY <1>1 DEF IInv, TypeOK
  <2>. QED  BY <2>1, <2>3, <2>4 DEF Statuses
<1>. QED  BY <1>1, ImportInv, PTL

\* What was imported and has nothing left to write its row stays imported.
LEMMA ImportedStep ==
  ASSUME IInv, [Next]_vars, NEW f \in Files, Imported(f)
  PROVE  Imported(f)'
<1> USE ImportAssumption DEF IInv, Imported, UploadsOf, TypeOK
<1>1. ASSUME NEW u \in Uploads, Import(u) PROVE Imported(f)'
  <2>1. upload[u].step \in {"checked", "stored", "refused"}
    BY <1>1 DEF Import, Store, StoreError, Enqueue, EnqueueError, Refuse, RefuseError, At
  <2>2. FileOf[u] # f
    BY <2>1 DEF HandledSomewhere
  <2>3. history'[f] = history[f]
    BY <1>1, <2>2 DEF Import, Store, StoreError, Enqueue, EnqueueError, Refuse, RefuseError, Status
  <2>4. /\ worker' = worker
        /\ \A v \in Uploads : v # u => upload'[v] = upload[v] /\ job'[v] = job[v]
    BY <1>1 DEF Import, Store, StoreError, Enqueue, EnqueueError, Refuse, RefuseError, Handled, Answered
  <2>. QED  BY <2>2, <2>3, <2>4
<1>2. ASSUME NEW i \in Instances, NEW u \in Uploads, Check(i, u) PROVE Imported(f)'
  BY <1>2 DEF Check
<1>3. ASSUME NEW i \in Instances, NEW u \in Uploads, Take(i, u) PROVE Imported(f)'
  <2>1. FileOf[u] # f
    BY <1>3 DEF Take
  <2>. QED  BY <1>3, <2>1 DEF Take
<1>4. ASSUME NEW i \in Instances, NEW u \in Uploads, Run(i, u) PROVE Imported(f)'
  <2>1. worker[i].on = u
    BY <1>4 DEF Run, Refute, Commit, CommitError, Reconcile, ReconcileError, StoreSuccess,
       StoreSuccessError, StoreFailed, StoreFailedError, Complete, FailRun, OnJob
  <2>2. FileOf[u] # f
    BY <2>1
  <2>3. history'[f] = history[f]
    BY <1>4, <2>2 DEF Run, Refute, Commit, CommitError, Reconcile, ReconcileError, StoreSuccess,
       StoreSuccessError, StoreFailed, StoreFailedError, Complete, FailRun, Status
  <2>4. upload' = upload /\ \A v \in Uploads : v # u => job'[v] = job[v]
    BY <1>4 DEF Run, Refute, Commit, CommitError, Reconcile, ReconcileError, StoreSuccess,
       StoreSuccessError, StoreFailed, StoreFailedError, Complete, FailRun
  <2>5. worker'[i].on \in {u, None} /\ \A k \in Instances : k # i => worker'[k] = worker[k]
    BY <1>4, <2>1 DEF Run, Refute, Commit, CommitError, Reconcile, ReconcileError, StoreSuccess,
       StoreSuccessError, StoreFailed, StoreFailedError, Complete, FailRun, GoTo, Release, Idle, Runs
  <2>. QED  BY <2>2, <2>3, <2>4, <2>5
<1>5. ASSUME NEW i \in Instances, NEW u \in Uploads, MarkFailed(i, u) \/ MarkError(i, u)
      PROVE  Imported(f)'
  BY <1>5 DEF MarkFailed, MarkError, Status
<1>6. ASSUME NEW i \in Instances, NEW u \in Uploads, Stall(i, u) PROVE Imported(f)'
  <2>1. FileOf[u] # f
    BY <1>6 DEF Stall
  <2>. QED  BY <1>6, <2>1 DEF Stall
<1>7. ASSUME NEW u \in Uploads, Retry(u) PROVE Imported(f)'
  <2>1. FileOf[u] # f
    BY <1>7 DEF Retry
  <2>. QED  BY <1>7, <2>1 DEF Retry
<1>8. ASSUME NEW i \in Instances, Crash(i) PROVE Imported(f)'
  BY <1>8 DEF Crash, NoJob, Idle
<1>9. CASE UNCHANGED vars
  BY <1>9 DEF vars
<1>. QED  BY <1>1, <1>2, <1>3, <1>4, <1>5, <1>6, <1>7, <1>8, <1>9 DEF Next, Work

\* "Prevent duplicating an import that worked completely before", for any
\* uploads, late events, faults and crashes.
THEOREM ImportedStays == Spec => ImportedIsFinal
<1>1. IInv /\ [Next]_vars => [\A f \in Files : Imported(f) => Imported(f)']_vars
  BY ImportedStep
<1>. QED  BY <1>1, ImportInv, PTL DEF Spec, ImportedIsFinal
=============================================================================
