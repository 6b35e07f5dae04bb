--------------------- MODULE NotificationDeliveryProofs ---------------------
(***************************************************************************)
(* The safety properties of NotificationDelivery, for any number of        *)
(* notifications and processes and any attempts.                           *)
(***************************************************************************)
EXTENDS NotificationDelivery, FiniteSetTheorems, TLAPS

\* The runs that may still send the mail of n.
Senders(n) == {i \in Instances : worker[i].on = n /\ worker[i].step \in {"fetch", "send"}}

\* A job that is held, or is done, has started one run more than have failed
\* or stalled.
Started(n) == IF job[n].state \in {"active", "completed"} THEN 1 ELSE 0

\* A row gets its job after it is stored, and only one.
JobAfterRow(n) ==
  /\ row[n] = "none" => adding[n] = None /\ job[n].state = "none"
  /\ adding[n] # None => job[n].state = "none"

\* What a run past the mail has done.
RunTruthful(i, n) ==
  /\ OnJob(i, "mailed", n) => mails[n] > 0
  /\ OnJob(i, "done", n) => row[n] = "sent"

\* A job gets no more attempts and no more stalls than it may.
Budgeted(n) ==
  IF job[n].state = "failed" THEN job[n].failures + job[n].stalls <= Attempts[n] + MaxStalled
  ELSE job[n].failures < Attempts[n] /\ job[n].stalls <= MaxStalled

\* Everything but the account of the mails.
Truthful ==
  /\ SentWasMailed
  /\ CompletedWasSent
  /\ \A n \in Notifications : JobAfterRow(n) /\ Budgeted(n)
  /\ \A i \in Instances, n \in Notifications : RunTruthful(i, n)

\* The mails sent and the runs about to send are paid for by runs started.
Paid(n) == mails[n] + Cardinality(Senders(n)) <= job[n].failures + job[n].stalls + Started(n)

DeliveryInv ==
  /\ TypeOK
  /\ Truthful
  /\ \A n \in Notifications : Paid(n)

-----------------------------------------------------------------------------
\* The senders of a notification are finitely many.
LEMMA SendersFinite ==
  ASSUME NEW n
  PROVE  IsFiniteSet(Senders(n)) /\ Cardinality(Senders(n)) \in Nat
BY DeliveryAssumption, FS_Subset, FS_CardinalityType DEF Senders

\* One sender who stops leaves one fewer.
LEMMA SenderStops ==
  ASSUME NEW n \in Notifications, NEW i \in Senders(n), Senders(n)' = Senders(n) \ {i}
  PROVE  Cardinality(Senders(n))' = Cardinality(Senders(n)) - 1
BY SendersFinite, FS_RemoveElement

\* One sender who starts makes one more.
LEMMA SenderStarts ==
  ASSUME NEW n \in Notifications, NEW i \in Instances, i \notin Senders(n),
         Senders(n)' = Senders(n) \cup {i}
  PROVE  Cardinality(Senders(n))' = Cardinality(Senders(n)) + 1
BY SendersFinite, FS_AddElement

\* Senders who only leave become no more.
LEMMA SendersLeave ==
  ASSUME NEW n \in Notifications, Senders(n)' \subseteq Senders(n)
  PROVE  Cardinality(Senders(n))' <= Cardinality(Senders(n)) /\ Cardinality(Senders(n))' \in Nat
<1>. IsFiniteSet(Senders(n)) /\ Cardinality(Senders(n)) \in Nat
  BY SendersFinite
<1>. QED BY FS_Subset, FS_CardinalityType

-----------------------------------------------------------------------------
\* Nothing has been sent before the first notification.
LEMMA InitDelivery == Init => DeliveryInv
<1>. SUFFICES ASSUME Init PROVE DeliveryInv
  OBVIOUS
<1>. USE DEF Init, NoJob, Idle
<1>1. TypeOK
  BY DEF TypeOK, Rows, Jobs, Runs
<1>2. SentWasMailed /\ CompletedWasSent
  BY DEF SentWasMailed, CompletedWasSent
<1>3. ASSUME NEW n \in Notifications PROVE JobAfterRow(n) /\ Budgeted(n) /\ Paid(n)
  <2>1. Senders(n) = {}
    BY DEF Senders
  <2>. QED BY <2>1, FS_EmptySet, DeliveryAssumption DEF JobAfterRow, Budgeted, Paid, Started
<1>4. ASSUME NEW i \in Instances, NEW n \in Notifications PROVE RunTruthful(i, n)
  BY DEF RunTruthful, OnJob
<1>. QED BY <1>1, <1>2, <1>3, <1>4 DEF DeliveryInv, Truthful

\* Every step keeps the types.
LEMMA StepTyped == TypeOK /\ [Next]_vars => TypeOK'
<1>. SUFFICES ASSUME TypeOK, [Next]_vars PROVE TypeOK'
  OBVIOUS
<1>. USE DEF TypeOK, Rows, Jobs, Runs
<1>1. ASSUME NEW i \in Instances, NEW n \in Notifications, Notify(i, n) PROVE TypeOK'
  BY <1>1 DEF Notify
<1>2. ASSUME NEW i \in Instances, NEW n \in Notifications, Take(i, n) PROVE TypeOK'
  <2>1. [step |-> "fetch", on |-> n] \in Runs /\ [job[n] EXCEPT !.state = "active", !.owner = i] \in Jobs
    OBVIOUS
  <2>. QED BY <1>2, <2>1 DEF Take
<1>3. ASSUME NEW i \in Instances, NEW n \in Notifications, CompleteRun(i, n)
      PROVE  job' \in [Notifications -> Jobs] /\ worker' \in [Instances -> Runs]
  <2>1. Idle \in Runs /\ [job[n] EXCEPT !.state = "completed", !.owner = None] \in Jobs
    BY DEF Idle
  <2>. QED BY <1>3, <2>1 DEF CompleteRun
<1>4. ASSUME NEW i \in Instances, NEW n \in Notifications, FailRun(i, n)
      PROVE  job' \in [Notifications -> Jobs] /\ worker' \in [Instances -> Runs]
  <2>1. /\ Idle \in Runs
        /\ [state |-> IF job[n].failures + 1 < Attempts[n] THEN "delayed" ELSE "failed",
            owner |-> None, failures |-> job[n].failures + 1, stalls |-> job[n].stalls] \in Jobs
    BY DEF Idle
  <2>. QED BY <1>4, <2>1 DEF FailRun
<1>5. ASSUME NEW i \in Instances, NEW n \in Notifications, NEW step \in {"send", "mailed", "done"},
             GoTo(i, step)
      PROVE  worker' \in [Instances -> Runs]
  <2>1. [worker[i] EXCEPT !.step = step] \in Runs
    OBVIOUS
  <2>. QED BY <1>5, <2>1 DEF GoTo
<1>6. ASSUME NEW i \in Instances, NEW n \in Notifications, Run(i, n) PROVE TypeOK'
  <2>1. CASE Fetch(i, n)
    BY <1>3, <1>5, <2>1 DEF Fetch
  <2>2. CASE SendMail(i, n)
    BY <1>5, <2>2 DEF SendMail
  <2>3. CASE MailError(i, n)
    BY <1>4, <2>3 DEF MailError
  <2>4. CASE StoreSent(i, n)
    BY <1>5, <2>4 DEF StoreSent
  <2>5. CASE FetchError(i, n) \/ StoreError(i, n)
    BY <1>4, <2>5 DEF FetchError, StoreError
  <2>6. CASE Complete(i, n)
    BY <1>3, <2>6 DEF Complete
  <2>. QED BY <1>6, <2>1, <2>2, <2>3, <2>4, <2>5, <2>6 DEF Run
<1>7. ASSUME NEW n \in Notifications, AddJob(n) \/ AddFails(n) \/ Retry(n) PROVE TypeOK'
  <2>1. [job[n] EXCEPT !.state = "waiting"] \in Jobs
    OBVIOUS
  <2>2. CASE AddJob(n)
    BY <2>1, <2>2 DEF AddJob
  <2>3. CASE AddFails(n)
    BY <2>3 DEF AddFails
  <2>4. CASE Retry(n)
    BY <2>1, <2>4 DEF Retry
  <2>. QED BY <1>7, <2>2, <2>3, <2>4
<1>8. ASSUME NEW n \in Notifications, Stall(n) PROVE TypeOK'
  <2>1. [state |-> IF job[n].stalls < MaxStalled THEN "waiting" ELSE "failed",
         owner |-> None, failures |-> job[n].failures, stalls |-> job[n].stalls + 1] \in Jobs
    OBVIOUS
  <2>. QED BY <1>8, <2>1 DEF Stall
<1>9. ASSUME NEW i \in Instances, Crash(i) PROVE TypeOK'
  BY <1>9 DEF Crash, Idle
<1>10. CASE UNCHANGED vars
  BY <1>10 DEF vars
<1>. QED BY <1>1, <1>2, <1>6, <1>7, <1>8, <1>9, <1>10 DEF Next

\* Every step keeps the rows, the jobs and the runs truthful.
LEMMA StepTruthful == TypeOK /\ Truthful /\ [Next]_vars => Truthful'
<1>. SUFFICES ASSUME TypeOK, Truthful, [Next]_vars PROVE Truthful'
  OBVIOUS
<1>. USE DEF Truthful, SentWasMailed, CompletedWasSent, JobAfterRow, Budgeted, RunTruthful, OnJob, TypeOK, Jobs, Runs
<1>. MaxStalled \in Nat /\ \A n \in Notifications : Attempts[n] \in Nat \ {0}
  BY DeliveryAssumption
<1>0. None \notin Notifications /\ None \notin Instances
  BY DeliveryAssumption
<1>1. ASSUME NEW i \in Instances, NEW n \in Notifications, Notify(i, n) PROVE Truthful'
  BY <1>1 DEF Notify
<1>2. ASSUME NEW i \in Instances, NEW n \in Notifications, Take(i, n) PROVE Truthful'
  BY <1>0, <1>2 DEF Take
<1>3. ASSUME NEW i \in Instances, NEW n \in Notifications, Run(i, n) PROVE Truthful'
  <2>1. CASE Fetch(i, n)
    <3>1. CASE GoTo(i, "send") /\ UNCHANGED job
      BY <1>0, <2>1, <3>1 DEF Fetch, GoTo
    <3>2. CASE row[n] = "sent" /\ CompleteRun(i, n)
      BY <1>0, <2>1, <3>2 DEF Fetch, CompleteRun, HoldsLock, Idle
    <3>. QED BY <2>1, <3>1, <3>2 DEF Fetch
  <2>2. CASE SendMail(i, n)
    BY <1>0, <2>2 DEF SendMail, GoTo
  <2>3. CASE MailError(i, n)
    BY <1>0, <2>3 DEF MailError, FailRun, HoldsLock, Idle
  <2>4. CASE StoreSent(i, n)
    BY <1>0, <2>4 DEF StoreSent, GoTo
  <2>5. CASE FetchError(i, n) \/ StoreError(i, n)
    <3>1. CASE FetchError(i, n)
      BY <1>0, <3>1 DEF FetchError, FailRun, HoldsLock, Idle
    <3>2. CASE StoreError(i, n)
      BY <1>0, <3>2 DEF StoreError, FailRun, HoldsLock, Idle
    <3>. QED BY <2>5, <3>1, <3>2
  <2>6. CASE Complete(i, n)
    BY <1>0, <2>6 DEF Complete, CompleteRun, HoldsLock, Idle
  <2>. QED BY <1>3, <2>1, <2>2, <2>3, <2>4, <2>5, <2>6 DEF Run
<1>4. ASSUME NEW n \in Notifications, AddJob(n) PROVE Truthful'
  BY <1>0, <1>4 DEF AddJob
<1>5. ASSUME NEW n \in Notifications, AddFails(n) PROVE Truthful'
  BY <1>0, <1>5 DEF AddFails
<1>6. ASSUME NEW n \in Notifications, Retry(n) PROVE Truthful'
  BY <1>0, <1>6 DEF Retry
<1>7. ASSUME NEW n \in Notifications, Stall(n) PROVE Truthful'
  BY <1>0, <1>7 DEF Stall
<1>8. ASSUME NEW i \in Instances, Crash(i) PROVE Truthful'
  BY <1>0, <1>8 DEF Crash, Idle
<1>9. CASE UNCHANGED vars
  BY <1>9 DEF vars
<1>. QED BY <1>1, <1>2, <1>3, <1>4, <1>5, <1>6, <1>7, <1>8, <1>9 DEF Next

-----------------------------------------------------------------------------
\* A step of process i that concerns n leaves the senders of the others alone.
LEMMA OtherSenders ==
  ASSUME NEW i \in Instances, NEW n \in Notifications, NEW m \in Notifications \ {n},
         worker[i].on \in {n, None}, worker'[i].on \in {n, None},
         \A k \in Instances \ {i} : worker'[k] = worker[k]
  PROVE  Senders(m)' = Senders(m)
BY DeliveryAssumption DEF Senders

\* A step that leaves the account of a notification alone keeps it paid.
LEMMA PaidKept ==
  ASSUME NEW m \in Notifications, Paid(m), TypeOK, Senders(m)' \subseteq Senders(m),
         job'[m] = job[m], mails'[m] = mails[m]
  PROVE  Paid(m)'
<1>1. Cardinality(Senders(m))' <= Cardinality(Senders(m)) /\ Cardinality(Senders(m))' \in Nat
  BY SendersLeave
<1>. QED BY <1>1, SendersFinite DEF Paid, Started, TypeOK, Jobs

\* The end of a run: either its job is completed, or one failure is
\* counted, or the job was another one's and the account is untouched.
LEMMA PaidAtEnd ==
  ASSUME TypeOK, NEW i \in Instances, NEW n \in Notifications, Paid(n),
         CompleteRun(i, n) \/ FailRun(i, n),
         NEW accepted \in {0, 1}, mails'[n] = mails[n] + accepted,
         accepted = 1 => i \in Senders(n), worker[i].on = n
  PROVE  Paid(n)'
<1>. USE DEF TypeOK, Jobs, Runs
<1>1. /\ Senders(n)' = Senders(n) \ {i}
      /\ job[n] \in Jobs /\ mails[n] \in Nat
  BY DeliveryAssumption DEF Senders, CompleteRun, FailRun, Idle
<1>2. job'[n].failures + job'[n].stalls + Started(n)' = job[n].failures + job[n].stalls + Started(n)
  <2>1. CASE CompleteRun(i, n)
    BY <1>1, <2>1 DEF CompleteRun, Started, HoldsLock
  <2>2. CASE FailRun(i, n)
    BY <1>1, <2>2 DEF FailRun, Started, HoldsLock
  <2>. QED BY <2>1, <2>2
<1>3. Cardinality(Senders(n))' + accepted <= Cardinality(Senders(n)) /\ Cardinality(Senders(n))' \in Nat
  <2>. Cardinality(Senders(n)) \in Nat
    BY SendersFinite
  <2>0. Cardinality(Senders(n))' <= Cardinality(Senders(n)) /\ Cardinality(Senders(n))' \in Nat
    BY <1>1, SendersLeave
  <2>1. CASE i \in Senders(n)
    <3>1. Cardinality(Senders(n))' = Cardinality(Senders(n)) - 1
      BY <1>1, <2>1, SenderStops
    <3>. QED BY <2>0, <3>1
  <2>2. CASE i \notin Senders(n)
    BY <2>0, <2>2
  <2>. QED BY <2>1, <2>2
<1>. QED BY <1>1, <1>2, <1>3, SendersFinite DEF Paid, Started

\* Every step keeps the account of the mails.
LEMMA StepPaid ==
  ASSUME TypeOK, Truthful, [Next]_vars, \A m \in Notifications : Paid(m)
  PROVE  \A m \in Notifications : Paid(m)'
<1>. USE DEF TypeOK, Jobs, Runs
<1>0. None \notin Notifications /\ None \notin Instances
  BY DeliveryAssumption
<1>1. ASSUME worker' = worker, NEW n \in Notifications,
             mails' = mails, \A m \in Notifications \ {n} : job'[m] = job[m],
             job'[n].failures + job'[n].stalls + Started(n)'
               = job[n].failures + job[n].stalls + Started(n)
      PROVE  \A m \in Notifications : Paid(m)'
  <2>. SUFFICES ASSUME NEW m \in Notifications PROVE Paid(m)'
    OBVIOUS
  <2>1. Senders(m)' = Senders(m)
    BY <1>1 DEF Senders
  <2>2. CASE m = n
    BY <1>1, <2>1, <2>2, SendersFinite DEF Paid
  <2>3. CASE m # n
    BY <1>1, <2>1, <2>3, PaidKept
  <2>. QED BY <2>2, <2>3
<1>2. ASSUME NEW i \in Instances, NEW n \in Notifications, Notify(i, n) PROVE \A m \in Notifications : Paid(m)'
  BY <1>1, <1>2 DEF Notify, Started
<1>3. ASSUME NEW n \in Notifications, AddJob(n) \/ AddFails(n) PROVE \A m \in Notifications : Paid(m)'
  <2>1. CASE AddJob(n)
    <3>1. job[n].state = "none"
      BY <2>1 DEF AddJob, Truthful, JobAfterRow
    <3>. QED BY <1>1, <2>1, <3>1 DEF AddJob, Started
  <2>2. CASE AddFails(n)
    BY <1>1, <2>2 DEF AddFails, Started
  <2>. QED BY <1>3, <2>1, <2>2
<1>4. ASSUME NEW n \in Notifications, Retry(n) PROVE \A m \in Notifications : Paid(m)'
  BY <1>1, <1>4 DEF Retry, Started
<1>5. ASSUME NEW n \in Notifications, Stall(n) PROVE \A m \in Notifications : Paid(m)'
  <2>1. /\ job[n].state = "active" /\ job'[n].state \in {"waiting", "failed"}
        /\ job'[n].failures = job[n].failures /\ job'[n].stalls = job[n].stalls + 1
    BY <1>5 DEF Stall
  <2>2. Started(n) = 1 /\ Started(n)' = 0
    BY <2>1 DEF Started
  <2>3. /\ worker' = worker /\ mails' = mails
        /\ \A m \in Notifications \ {n} : job'[m] = job[m]
    BY <1>5 DEF Stall
  <2>4. job[n].failures \in Nat /\ job[n].stalls \in Nat
    OBVIOUS
  <2>5. job'[n].failures + job'[n].stalls + Started(n)' = job[n].failures + job[n].stalls + Started(n)
    BY <2>1, <2>2, <2>4
  <2>. QED BY <1>1, <2>3, <2>5
<1>6. ASSUME NEW i \in Instances, Crash(i) PROVE \A m \in Notifications : Paid(m)'
  <2>. SUFFICES ASSUME NEW m \in Notifications PROVE Paid(m)'
    OBVIOUS
  <2>1. Senders(m)' \subseteq Senders(m)
    BY <1>0, <1>6 DEF Crash, Senders, Idle
  <2>. QED BY <1>6, <2>1, PaidKept DEF Crash
<1>7. ASSUME NEW i \in Instances, NEW n \in Notifications, Take(i, n) PROVE \A m \in Notifications : Paid(m)'
  <2>. SUFFICES ASSUME NEW m \in Notifications PROVE Paid(m)'
    OBVIOUS
  <2>1. CASE m = n
    <3>1. i \notin Senders(n) /\ Senders(n)' = Senders(n) \cup {i}
      BY <1>0, <1>7 DEF Take, Senders, Idle
    <3>2. Cardinality(Senders(n))' = Cardinality(Senders(n)) + 1
      BY <3>1, SenderStarts
    <3>3. Started(n)' = Started(n) + 1 /\ job'[n].failures = job[n].failures /\ job'[n].stalls = job[n].stalls
      BY <1>7 DEF Take, Started
    <3>. QED BY <1>7, <2>1, <3>2, <3>3, SendersFinite DEF Paid, Take, Started
  <2>2. CASE m # n
    <3>1. Senders(m)' = Senders(m)
      BY <1>7, <2>2, OtherSenders DEF Take, Idle
    <3>. QED BY <1>7, <2>2, <3>1, PaidKept DEF Take
  <2>. QED BY <2>1, <2>2
<1>8. ASSUME NEW i \in Instances, NEW n \in Notifications, Run(i, n) PROVE \A m \in Notifications : Paid(m)'
  <2>. SUFFICES ASSUME NEW m \in Notifications PROVE Paid(m)'
    OBVIOUS
  <2>1. CASE m # n
    <3>1. /\ worker[i].on = n /\ worker'[i].on \in {n, None}
          /\ \A k \in Instances \ {i} : worker'[k] = worker[k]
          /\ job'[m] = job[m] /\ mails'[m] = mails[m]
      BY <1>8, <2>1 DEF Run, Fetch, FetchError, SendMail, MailError, StoreSent, StoreError, Complete, OnJob,
         GoTo, CompleteRun, FailRun, Idle
    <3>. QED BY <2>1, <3>1, OtherSenders, PaidKept
  <2>2. ASSUME m = n, CompleteRun(i, n) \/ FailRun(i, n), mails' = mails, worker[i].on = n PROVE Paid(m)'
    BY <2>2, PaidAtEnd
  <2>3. ASSUME m = n, Fetch(i, n) PROVE Paid(m)'
    <3>1. CASE GoTo(i, "send") /\ UNCHANGED job
      <4>1. Senders(n)' = Senders(n)
        BY <1>0, <2>3, <3>1 DEF Fetch, OnJob, GoTo, Senders
      <4>. QED BY <2>3, <3>1, <4>1, PaidKept DEF Fetch
    <3>2. CASE CompleteRun(i, n)
      BY <2>2, <2>3, <3>2 DEF Fetch, OnJob
    <3>. QED BY <2>3, <3>1, <3>2 DEF Fetch
  <2>4. ASSUME m = n, SendMail(i, n) PROVE Paid(m)'
    <3>1. i \in Senders(n) /\ Senders(n)' = Senders(n) \ {i}
      BY <1>0, <2>4 DEF SendMail, OnJob, GoTo, Senders
    <3>2. Cardinality(Senders(n))' = Cardinality(Senders(n)) - 1
      BY <3>1, SenderStops
    <3>. QED BY <2>4, <3>2, SendersFinite DEF SendMail, Paid, Started
  <2>5. ASSUME m = n, MailError(i, n) PROVE Paid(m)'
    <3>1. i \in Senders(n) /\ worker[i].on = n
      BY <2>5 DEF MailError, OnJob, Senders
    <3>2. PICK accepted \in {0, 1} : mails' = [mails EXCEPT ![n] = @ + accepted]
      BY <2>5 DEF MailError
    <3>. QED BY <2>5, <3>1, <3>2, PaidAtEnd DEF MailError
  <2>6. ASSUME m = n, StoreSent(i, n) PROVE Paid(m)'
    <3>1. Senders(n)' \subseteq Senders(n)
      BY <1>0, <2>6 DEF StoreSent, OnJob, GoTo, Senders
    <3>. QED BY <2>6, <3>1, PaidKept DEF StoreSent
  <2>7. ASSUME m = n, FetchError(i, n) \/ StoreError(i, n) \/ Complete(i, n) PROVE Paid(m)'
    BY <2>2, <2>7 DEF FetchError, StoreError, Complete, OnJob
  <2>. QED BY <1>8, <2>1, <2>3, <2>4, <2>5, <2>6, <2>7 DEF Run
<1>9. CASE UNCHANGED vars
  <2>1. \A m \in Notifications : Senders(m)' = Senders(m)
    BY <1>9 DEF vars, Senders
  <2>. QED BY <1>9, <2>1, PaidKept DEF vars
<1>. QED BY <1>2, <1>3, <1>4, <1>5, <1>6, <1>7, <1>8, <1>9 DEF Next

-----------------------------------------------------------------------------
\* Every notification, in every behaviour, is delivered truthfully.
LEMMA Delivery == Spec => []DeliveryInv
<1>1. DeliveryInv /\ [Next]_vars => DeliveryInv'
  BY StepTyped, StepTruthful, StepPaid DEF DeliveryInv
<1>. QED BY <1>1, InitDelivery, PTL DEF Spec

\* Every variable of the delivery keeps its type.
THEOREM DeliveryTypeCorrect == Spec => []TypeOK
<1>1. DeliveryInv => TypeOK
  BY DEF DeliveryInv
<1>. QED BY <1>1, Delivery, PTL

\* sentAt is stored only for notifications whose mail has gone out.
THEOREM SentIsMailed == Spec => []SentWasMailed
<1>1. DeliveryInv => SentWasMailed
  BY DEF DeliveryInv, Truthful
<1>. QED BY <1>1, Delivery, PTL

\* A job is done only when sentAt records it.
THEOREM CompletedIsSent == Spec => []CompletedWasSent
<1>1. DeliveryInv => CompletedWasSent
  BY DEF DeliveryInv, Truthful
<1>. QED BY <1>1, Delivery, PTL

\* A mail is repeated only for a failed attempt or a stalled job.
THEOREM OnlyRetriesRepeat == Spec => []DuplicatesAreRetries
<1>1. ASSUME DeliveryInv PROVE DuplicatesAreRetries
  <2>. SUFFICES ASSUME NEW n \in Notifications
                PROVE  /\ mails[n] <= 1 + job[n].failures + job[n].stalls
                       /\ mails[n] <= Attempts[n] + MaxStalled
    BY DEF DuplicatesAreRetries
  <2>1. /\ Paid(n) /\ Budgeted(n)
        /\ mails[n] \in Nat /\ job[n].failures \in Nat /\ job[n].stalls \in Nat
        /\ Attempts[n] \in Nat /\ MaxStalled \in Nat /\ Cardinality(Senders(n)) \in Nat
    BY <1>1, SendersFinite, DeliveryAssumption DEF DeliveryInv, Truthful, TypeOK, Jobs
  <2>2. mails[n] <= job[n].failures + job[n].stalls + Started(n)
    BY <2>1 DEF Paid, Started
  <2>3. job[n].failures + job[n].stalls + Started(n) <= Attempts[n] + MaxStalled
    BY <2>1 DEF Budgeted, Started
  <2>4. Started(n) \in {0, 1}
    BY DEF Started
  <2>. QED BY <2>1, <2>2, <2>3, <2>4
<1>. QED BY <1>1, Delivery, PTL

-----------------------------------------------------------------------------
\* Recorded as sent, with k mails out and nobody about to send another.
Settled(n, k) ==
  /\ row[n] = "sent"
  /\ mails[n] = k
  /\ \A i \in Instances : ~ OnJob(i, "send", n)

\* What is settled stays so: a run that reads the row now ends, and those that
\* are past the mail send no other.
LEMMA SettledStays ==
  ASSUME NEW n \in Notifications, NEW k, TypeOK, Settled(n, k), [Next]_vars
  PROVE  Settled(n, k)'
<1>. USE DEF TypeOK, Runs, Settled, OnJob
<1>1. ASSUME NEW i \in Instances, NEW m \in Notifications, Notify(i, m) PROVE Settled(n, k)'
  BY <1>1 DEF Notify
<1>2. ASSUME NEW i \in Instances, NEW m \in Notifications, Take(i, m) PROVE Settled(n, k)'
  BY <1>2 DEF Take
<1>3. ASSUME NEW i \in Instances, NEW m \in Notifications, Fetch(i, m) PROVE Settled(n, k)'
  <2>1. row' = row /\ mails' = mails /\ (GoTo(i, "send") => m # n)
    BY <1>3 DEF Fetch, CompleteRun, GoTo, Idle
  <2>. QED BY <1>3, <2>1 DEF Fetch, CompleteRun, GoTo, Idle
<1>4. ASSUME NEW i \in Instances, NEW m \in Notifications, SendMail(i, m) \/ MailError(i, m)
      PROVE  Settled(n, k)'
  <2>1. m # n /\ row' = row /\ mails'[n] = mails[n]
    BY <1>4 DEF SendMail, MailError
  <2>. QED BY <1>4, <2>1 DEF SendMail, MailError, GoTo, FailRun, Idle
<1>5. ASSUME NEW i \in Instances, NEW m \in Notifications, StoreSent(i, m) PROVE Settled(n, k)'
  BY <1>5 DEF StoreSent, GoTo
<1>6. ASSUME NEW i \in Instances, NEW m \in Notifications,
             FetchError(i, m) \/ StoreError(i, m) \/ Complete(i, m)
      PROVE  Settled(n, k)'
  BY <1>6 DEF FetchError, StoreError, Complete, FailRun, CompleteRun, Idle
<1>7. ASSUME NEW m \in Notifications, AddJob(m) \/ AddFails(m) \/ Retry(m) \/ Stall(m)
      PROVE  Settled(n, k)'
  BY <1>7 DEF AddJob, AddFails, Retry, Stall
<1>8. ASSUME NEW i \in Instances, Crash(i) PROVE Settled(n, k)'
  BY <1>8 DEF Crash, Idle
<1>9. CASE UNCHANGED vars
  BY <1>9 DEF vars
<1>. QED BY <1>1, <1>2, <1>3, <1>4, <1>5, <1>6, <1>7, <1>8, <1>9 DEF Next, Run

\* A mail that is recorded, with nobody about to send it, is never sent again.
THEOREM SentStaysFinal == Spec => SentIsFinal
<1>1. ASSUME NEW n \in Notifications, NEW k \in 0 .. Attempts[n] + MaxStalled
      PROVE  Spec => [](/\ row[n] = "sent"
                        /\ mails[n] = k
                        /\ \A i \in Instances : ~ OnJob(i, "send", n)
                        => [](mails[n] = k))
  <2>1. TypeOK /\ Settled(n, k) /\ [Next]_vars => Settled(n, k)'
    BY SettledStays
  <2>2. Settled(n, k) => mails[n] = k
    BY DEF Settled
  <2>3. Spec => [](Settled(n, k) => [](mails[n] = k))
    BY <2>1, <2>2, DeliveryTypeCorrect, PTL DEF Spec
  <2>. QED BY <2>3 DEF Settled
<1>. QED BY <1>1 DEF SentIsFinal
=============================================================================
