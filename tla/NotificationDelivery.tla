------------------------ MODULE NotificationDelivery ------------------------
(***************************************************************************)
(* How a notification becomes a mail.  notify (notifications.service.ts)   *)
(* stores a row and, without waiting, adds a job to a BullMQ queue; the    *)
(* worker of some backend process (notifications.processor.ts) takes the   *)
(* job, sends the mail and stores sentAt.  Nothing ties the three systems  *)
(* together: PostgreSQL, Redis and the mail service fail separately, and a *)
(* process may die between any two of their answers.                       *)
(*                                                                         *)
(* BullMQ gives a job to one worker at a time, as long as that worker      *)
(* renews its lock.  A worker that does not, because it is dead, blocked   *)
(* or cut off from Redis, loses the job to another one, and may be sending *)
(* the mail all the same.                                                  *)
(*                                                                         *)
(* "Fault:" introduces plausible bugs, as in PoLedger.                     *)
(***************************************************************************)
EXTENDS Integers, FiniteSets

CONSTANTS
  Notifications,  \* identities of notification rows, used or not
  Instances,      \* backend processes; each has one worker, one job at a time
  Attempts,       \* [Notifications -> attempts its queue client asks for]
  MaxStalled,     \* how often BullMQ gives a stalled job to another worker
  None            \* no process, no notification

ASSUME DeliveryAssumption ==
  /\ IsFiniteSet(Instances)
  /\ None \notin Notifications \cup Instances
  /\ Attempts \in [Notifications -> Nat \ {0}]
  /\ MaxStalled \in Nat

VARIABLES
  row,     \* the notification row: not there, stored, or stored with sentAt
  adding,  \* the process whose queue.add for the row has not been answered
  job,     \* the BullMQ job of the notification
  worker,  \* what each process's worker is doing
  mails    \* how often the recipient has been sent the mail

vars == <<row, adding, job, worker, mails>>

Rows == {"none", "stored", "sent"}

Jobs == [state : {"none", "waiting", "active", "delayed", "completed", "failed"},
         owner : Instances \cup {None}, failures : Nat, stalls : Nat]

Runs == [step : {"idle", "fetch", "send", "mailed", "done"},
         on : Notifications \cup {None}]

NoJob == [state |-> "none", owner |-> None, failures |-> 0, stalls |-> 0]

Idle == [step |-> "idle", on |-> None]

TypeOK ==
  /\ row \in [Notifications -> Rows]
  /\ adding \in [Notifications -> Instances \cup {None}]
  /\ job \in [Notifications -> Jobs]
  /\ worker \in [Instances -> Runs]
  /\ mails \in [Notifications -> Nat]

Init ==
  /\ row = [n \in Notifications |-> "none"]
  /\ adding = [n \in Notifications |-> None]
  /\ job = [n \in Notifications |-> NoJob]
  /\ worker = [i \in Instances |-> Idle]
  /\ mails = [n \in Notifications |-> 0]

-----------------------------------------------------------------------------
(* notify.                                                                 *)

\* The row is stored; the promise of queue.add is not awaited.  If the row
\* cannot be stored notify returns null and nothing has happened.
Notify(i, n) ==
  /\ row[n] = "none"
  /\ row' = [row EXCEPT ![n] = "stored"]
  /\ adding' = [adding EXCEPT ![n] = i]
  /\ UNCHANGED <<job, worker, mails>>

AddJob(n) ==
  /\ adding[n] # None
  /\ adding' = [adding EXCEPT ![n] = None]
  /\ job' = [job EXCEPT ![n].state = "waiting"]
  /\ UNCHANGED <<row, worker, mails>>

\* Redis refuses; the error is logged and the row stays without a job.
AddFails(n) ==
  /\ adding[n] # None
  /\ adding' = [adding EXCEPT ![n] = None]
  /\ UNCHANGED <<row, job, worker, mails>>

-----------------------------------------------------------------------------
(* The worker.                                                             *)

OnJob(i, step, n) == worker[i] = [step |-> step, on |-> n]

HoldsLock(i, n) == job[n].state = "active" /\ job[n].owner = i

GoTo(i, step) == worker' = [worker EXCEPT ![i].step = step]

Take(i, n) ==
  /\ worker[i] = Idle
  /\ job[n].state = "waiting"
  /\ job' = [job EXCEPT ![n].state = "active", ![n].owner = i]
  /\ worker' = [worker EXCEPT ![i] = [step |-> "fetch", on |-> n]]
  /\ UNCHANGED <<row, adding, mails>>

\* process returns: the job is removed from the queue, unless it is no
\* longer this worker's.
CompleteRun(i, n) ==
  /\ job' = IF HoldsLock(i, n)
            THEN [job EXCEPT ![n].state = "completed", ![n].owner = None] ELSE job
  /\ worker' = [worker EXCEPT ![i] = Idle]

\* Fault: failures are counted down instead of up.
FailRunCountingDown(i, n) ==
  /\ job' = IF HoldsLock(i, n)
            THEN [job EXCEPT ![n] =
                    [state |-> IF job[n].failures + 1 < Attempts[n] THEN "delayed" ELSE "failed",
                     owner |-> None, failures |-> job[n].failures - 1, stalls |-> job[n].stalls]]
            ELSE job
  /\ worker' = [worker EXCEPT ![i] = Idle]

\* process throws: another attempt after a delay, while there are any left.
FailRun(i, n) ==
  /\ job' = IF HoldsLock(i, n)
            THEN [job EXCEPT ![n] =
                    [state |-> IF job[n].failures + 1 < Attempts[n] THEN "delayed" ELSE "failed",
                     owner |-> None, failures |-> job[n].failures + 1, stalls |-> job[n].stalls]]
            ELSE job
  /\ worker' = [worker EXCEPT ![i] = Idle]

\* Fault: sentAt is not looked at.
FetchBlind(i, n) ==
  /\ OnJob(i, "fetch", n)
  /\ GoTo(i, "send") /\ UNCHANGED job
  /\ UNCHANGED <<row, adding, mails>>

\* "Safety check: skip if handled": a row with sentAt ends the job.
Fetch(i, n) ==
  /\ OnJob(i, "fetch", n)
  /\ \/ row[n] = "stored" /\ GoTo(i, "send") /\ UNCHANGED job
     \/ row[n] = "sent" /\ CompleteRun(i, n)
  /\ UNCHANGED <<row, adding, mails>>

\* Fault: the job is put back without counting an attempt.
FetchErrorRequeued(i, n) ==
  /\ OnJob(i, "fetch", n)
  /\ job' = IF HoldsLock(i, n)
            THEN [job EXCEPT ![n].state = "waiting", ![n].owner = None] ELSE job
  /\ worker' = [worker EXCEPT ![i] = Idle]
  /\ UNCHANGED <<row, adding, mails>>

\* The row cannot be read.
FetchError(i, n) ==
  /\ OnJob(i, "fetch", n)
  /\ FailRun(i, n)
  /\ UNCHANGED <<row, adding, mails>>

SendMail(i, n) ==
  /\ OnJob(i, "send", n)
  /\ mails' = [mails EXCEPT ![n] = @ + 1]
  /\ GoTo(i, "mailed")
  /\ UNCHANGED <<row, adding, job>>

\* Fault: the error object of the mail service is not turned into an exception.
MailErrorUnseen(i, n) ==
  /\ OnJob(i, "send", n)
  /\ GoTo(i, "mailed")
  /\ UNCHANGED <<row, adding, job, mails>>

\* Fault: the mail is sent again at once instead of failing the job.
MailErrorRepeated(i, n) ==
  /\ OnJob(i, "send", n)
  /\ mails[n] < Attempts[n] + MaxStalled + 2
  /\ mails' = [mails EXCEPT ![n] = @ + 1]
  /\ UNCHANGED <<row, adding, job, worker>>

\* The mail service reports an error, or its answer is lost after the mail
\* has gone out; either way the job fails.
MailError(i, n) ==
  /\ OnJob(i, "send", n)
  /\ \E accepted \in {0, 1} : mails' = [mails EXCEPT ![n] = @ + accepted]
  /\ FailRun(i, n)
  /\ UNCHANGED <<row, adding>>

StoreSent(i, n) ==
  /\ OnJob(i, "mailed", n)
  /\ row' = [row EXCEPT ![n] = "sent"]
  /\ GoTo(i, "done")
  /\ UNCHANGED <<adding, job, mails>>

\* Fault: the error is logged and swallowed.
StoreErrorLogged(i, n) ==
  /\ OnJob(i, "mailed", n)
  /\ CompleteRun(i, n)
  /\ UNCHANGED <<row, adding, mails>>

\* The database does not take sentAt: the job fails although the mail is out.
StoreError(i, n) ==
  /\ OnJob(i, "mailed", n)
  /\ FailRun(i, n)
  /\ UNCHANGED <<row, adding, mails>>

Complete(i, n) ==
  /\ OnJob(i, "done", n)
  /\ CompleteRun(i, n)
  /\ UNCHANGED <<row, adding, mails>>

-----------------------------------------------------------------------------
(* The queue and the processes.                                            *)

\* The backoff of a failed attempt is over.
Retry(n) ==
  /\ job[n].state = "delayed"
  /\ job' = [job EXCEPT ![n].state = "waiting"]
  /\ UNCHANGED <<row, adding, worker, mails>>

\* The lock of an active job has not been renewed, whether its owner is
\* dead or only slow.
Stall(n) ==
  /\ job[n].state = "active"
  /\ job' = [job EXCEPT ![n] =
               [state |-> IF job[n].stalls < MaxStalled THEN "waiting" ELSE "failed",
                owner |-> None, failures |-> job[n].failures, stalls |-> job[n].stalls + 1]]
  /\ UNCHANGED <<row, adding, worker, mails>>

\* The owner is no longer working on the job.
Orphaned(n) == job[n].state = "active" /\ worker[job[n].owner].on # n

\* A process dies and is started again: its run and its unanswered
\* queue.add calls are gone.
Crash(i) ==
  /\ worker[i] # Idle \/ \E n \in Notifications : adding[n] = i
  /\ worker' = [worker EXCEPT ![i] = Idle]
  /\ adding' = [n \in Notifications |-> IF adding[n] = i THEN None ELSE adding[n]]
  /\ UNCHANGED <<row, job, mails>>

-----------------------------------------------------------------------------
Run(i, n) ==
  \/ Fetch(i, n)
  \/ FetchError(i, n)
  \/ SendMail(i, n)
  \/ MailError(i, n)
  \/ StoreSent(i, n)
  \/ StoreError(i, n)
  \/ Complete(i, n)

Next ==
  \/ \E i \in Instances, n \in Notifications : Notify(i, n) \/ Take(i, n) \/ Run(i, n)
  \/ \E n \in Notifications : AddJob(n) \/ AddFails(n) \/ Retry(n) \/ Stall(n)
  \/ \E i \in Instances : Crash(i)

Spec == Init /\ [][Next]_vars

\* Calls are answered one way or the other, delays end, BullMQ's stalled
\* check finds orphaned jobs, and the queue is served in order.
Fairness ==
  \A n \in Notifications :
    /\ WF_vars(Retry(n))
    /\ WF_vars(Orphaned(n) /\ Stall(n))
    /\ SF_vars(\E i \in Instances : Take(i, n))
    /\ \A i \in Instances : WF_vars(Run(i, n))

FairSpec == Spec /\ Fairness

-----------------------------------------------------------------------------
(* What the delivery promises.                                             *)

\* sentAt is never stored for a mail that nobody was sent ("otherwise the
\* processor would mark notifications as sent when nothing was sent").
SentWasMailed == \A n \in Notifications : row[n] = "sent" => mails[n] > 0

\* A job leaves the queue as done only when sentAt records it.
CompletedWasSent ==
  \A n \in Notifications : job[n].state = "completed" => row[n] = "sent"

\* Every mail beyond the first is owed to a failed attempt or a stalled job;
\* with processes dying at any point a recipient gets at most one mail for
\* each attempt and each stall the queue allows.
DuplicatesAreRetries ==
  \A n \in Notifications : /\ mails[n] <= 1 + job[n].failures + job[n].stalls
                           /\ mails[n] <= Attempts[n] + MaxStalled

\* Once sentAt is stored, and no run that read the row before that is still
\* about to send, nobody gets the mail again, whatever dies or stalls later.
SentIsFinal ==
  \A n \in Notifications : \A k \in 0 .. Attempts[n] + MaxStalled :
    [](/\ row[n] = "sent"
       /\ mails[n] = k
       /\ \A i \in Instances : ~ OnJob(i, "send", n)
       => [](mails[n] = k))

\* A job that is in the queue leaves it, done or given up.
EveryJobEnds ==
  \A n \in Notifications :
    job[n].state = "waiting" ~> job[n].state \in {"completed", "failed"}
=============================================================================
