------------------------------ MODULE PoAging ------------------------------
(***************************************************************************)
(* How the ageing of a line gets into its row and to its project manager.  *)
(* There is no clock behind it: getDashboardAnalytics                      *)
(* (po-analytics.service.ts) reads the lines somebody looks at, answers,   *)
(* and without being waited for starts runBackgroundSync on the rows it    *)
(* has read.  That evaluates them (po-aging-evaluator.service.ts), a chunk *)
(* at a time, notifies the manager of a line that has turned red, marks    *)
(* the line as notified and stores the flag when it differs from the one   *)
(* read.  Several dashboards do so at once, while days pass, imports       *)
(* change the dates of lines and people mark lines as invoiced.            *)
(*                                                                         *)
(* "Fault:" introduces plausible bugs, as in PoLedger.                     *)
(***************************************************************************)
EXTENDS PoDashboard

CONSTANTS
  Dashboards,  \* the dashboards that may be being synced at a time
  Scope,       \* [Dashboards -> SUBSET Lines]: what buildWhere lets each see
  Limit,       \* CONCURRENCY_LIMIT
  FirstDay,    \* the day on which the lines are imported
  AllowedDays, \* [Lines -> Allowances]: the allowance they are imported with
  MaxDay,      \* bound on the days that pass
  MaxEdits,    \* bound on the imports and people that change a line
  MaxFaults    \* bound on failing calls and dying processes

ASSUME AgingAssumption ==
  /\ IsFiniteSet(Dashboards)
  /\ Scope \in [Dashboards -> SUBSET Lines]
  /\ Limit \in Nat \ {0}
  /\ AllowedDays \in [Lines -> Allowances]
  /\ MaxDay \in Nat /\ FirstDay \in 0 .. MaxDay
  /\ MaxEdits \in Nat
  /\ MaxFaults \in Nat

VARIABLES
  today,      \* the day it is
  row,        \* the dates of each line, and what is stored of its ageing
  sync,       \* what each dashboard's background sync is doing to each line
  announced,  \* how many notifications of each line turning red were stored
  refused,    \* the lines of which a notification was answered by an error
  edits,      \* imports and status changes so far
  faults      \* faults so far

vars == <<today, row, sync, announced, refused, edits, faults>>

Rows == [issued : Dates, allowed : Allowances, invoiced : BOOLEAN, managed : BOOLEAN,
         flag : Flags, notified : BOOLEAN]

\* A line whose chunk has not started, as it was read, and one being synced:
\* what is left to do, the flag that was read and the one it has now.
Waiting == [step : {"waiting"}, seen : Rows]

Started == [step : {"lookup", "announce", "mark", "flag"},
            managed : BOOLEAN, was : Flags, now : Flags]

ASSUME NothingAssumption == None \notin Waiting \cup Started

TypeOK ==
  /\ today \in FirstDay .. MaxDay
  /\ row \in [Lines -> Rows]
  /\ sync \in [Dashboards -> [Lines -> Waiting \cup Started \cup {None}]]
  /\ announced \in [Lines -> Nat]
  /\ refused \in SUBSET Lines
  /\ edits \in 0 .. MaxEdits
  /\ faults \in 0 .. MaxFaults

Nothing == [l \in Lines |-> None]

\* Lines come from an import: not invoiced, green, not announced, and with
\* the number of a manager that may be nobody's (see Reimport).
Init ==
  /\ today = FirstDay
  /\ \E managed \in BOOLEAN :
       row = [l \in Lines |->
                [issued |-> 0, allowed |-> AllowedDays[l], invoiced |-> FALSE,
                 managed |-> managed, flag |-> "GREEN", notified |-> FALSE]]
  /\ sync = [s \in Dashboards |-> Nothing]
  /\ announced = [l \in Lines |-> 0]
  /\ refused = {}
  /\ edits = 0
  /\ faults = 0

Fault == faults < MaxFaults /\ faults' = faults + 1

-----------------------------------------------------------------------------
(* runBackgroundSync.                                                      *)

On(s, l, step) == sync[s][l] # None /\ sync[s][l].step = step

GoTo(s, l, step) == sync' = [sync EXCEPT ![s][l].step = step]

Leave(s, l) == sync' = [sync EXCEPT ![s][l] = None]

\* getDashboardAnalytics has read the rows of its scope.
Read(s) ==
  /\ sync[s] = Nothing
  /\ sync' = [sync EXCEPT ![s] = [l \in Lines |->
       IF l \in Scope[s] THEN [step |-> "waiting", seen |-> row[l]] ELSE None]]
  /\ UNCHANGED <<today, row, announced, refused, edits, faults>>

Start(r, step) ==
  [step |-> step, managed |-> r.managed, was |-> r.flag, now |-> Evaluate(r, today).flag]

\* Fault: that a line has been announced is not looked at.
EvaluatedAnew(r) ==
  IF Evaluate(r, today).flag = "RED" THEN Start(r, "lookup")
  ELSE IF Evaluate(r, today).flag # r.flag THEN Start(r, "flag")
  ELSE None

\* Fault: only a line whose flag changes is announced.
EvaluatedOnChange(r) ==
  IF Evaluate(r, today).flag = r.flag THEN None
  ELSE IF Evaluate(r, today).flag = "RED" /\ ~ r.notified THEN Start(r, "lookup")
  ELSE Start(r, "flag")

\* A red line that was not marked is announced before its flag is stored;
\* a flag is stored when it is not the one that was read.
Evaluated(r) ==
  IF Evaluate(r, today).flag = "RED" /\ ~ r.notified THEN Start(r, "lookup")
  ELSE IF Evaluate(r, today).flag # r.flag THEN Start(r, "flag")
  ELSE None

\* The next chunk starts when every line of the last one is done.
StartChunk(s) ==
  LET waiting == {l \in Lines : On(s, l, "waiting")} IN
  /\ waiting # {}
  /\ \A l \in Lines \ waiting : sync[s][l] = None
  /\ \E chunk \in SUBSET waiting :
       /\ Cardinality(chunk) = Smaller(Limit, Cardinality(waiting))
       /\ sync' = [sync EXCEPT ![s] = [l \in Lines |->
            IF l \in chunk THEN Evaluated(sync[s][l].seen) ELSE sync[s][l]]]
  /\ UNCHANGED <<today, row, announced, refused, edits, faults>>

\* What follows the announcement.
Announced(s, l) ==
  IF sync[s][l].now # sync[s][l].was THEN GoTo(s, l, "flag") ELSE Leave(s, l)

\* Fault: a line that nobody can be told of is marked.
LookupMarking(s, l) ==
  /\ On(s, l, "lookup")
  /\ IF sync[s][l].managed THEN GoTo(s, l, "announce") ELSE GoTo(s, l, "mark")
  /\ UNCHANGED <<today, row, announced, refused, edits, faults>>

\* The manager whose number the row has, if there is one: nobody is told
\* of the others, and they are not marked.
Lookup(s, l) ==
  /\ On(s, l, "lookup")
  /\ IF sync[s][l].managed THEN GoTo(s, l, "announce") ELSE Announced(s, l)
  /\ UNCHANGED <<today, row, announced, refused, edits, faults>>

Announce(s, l) ==
  /\ On(s, l, "announce")
  /\ announced' = [announced EXCEPT ![l] = @ + 1]
  /\ GoTo(s, l, "mark")
  /\ UNCHANGED <<today, row, refused, edits, faults>>

\* The database answers with an error, with the notification stored or not.
\* notify catches it and returns null, which runBackgroundSync takes for a
\* notification.
AnnounceError(s, l) ==
  /\ On(s, l, "announce") /\ Fault
  /\ announced' \in {announced, [announced EXCEPT ![l] = @ + 1]}
  /\ refused' = refused \cup {l}
  /\ GoTo(s, l, "mark")
  /\ UNCHANGED <<today, row, edits>>

\* Fault: the line is marked with its new flag only in memory.
MarkNothing(s, l) ==
  /\ On(s, l, "mark")
  /\ Announced(s, l)
  /\ UNCHANGED <<today, row, announced, refused, edits, faults>>

\* markAgingNotified.
Mark(s, l) ==
  /\ On(s, l, "mark")
  /\ row' = [row EXCEPT ![l].notified = TRUE]
  /\ Announced(s, l)
  /\ UNCHANGED <<today, announced, refused, edits, faults>>

\* Fault: the flag is stored only when it is worse than the one read.
StoreWorseFlag(s, l) ==
  /\ On(s, l, "flag")
  /\ row' = IF sync[s][l].was = "RED" THEN row
            ELSE [row EXCEPT ![l].flag = sync[s][l].now]
  /\ Leave(s, l)
  /\ UNCHANGED <<today, announced, refused, edits, faults>>

StoreFlag(s, l) ==
  /\ On(s, l, "flag")
  /\ row' = [row EXCEPT ![l].flag = sync[s][l].now]
  /\ Leave(s, l)
  /\ UNCHANGED <<today, announced, refused, edits, faults>>

\* A call of a line fails, an update perhaps after it was applied: the error
\* is logged and the line given up, in this sync; the others go on.
LineError(s, l) ==
  /\ \/ On(s, l, "lookup") /\ UNCHANGED row
     \/ On(s, l, "mark") /\ row' \in {row, [row EXCEPT ![l].notified = TRUE]}
     \/ On(s, l, "flag") /\ row' \in {row, [row EXCEPT ![l].flag = sync[s][l].now]}
  /\ Fault
  /\ Leave(s, l)
  /\ UNCHANGED <<today, announced, refused, edits>>

\* The process dies with its syncs.
Crash ==
  /\ \E s \in Dashboards : sync[s] # Nothing
  /\ Fault
  /\ sync' = [s \in Dashboards |-> Nothing]
  /\ UNCHANGED <<today, row, announced, refused, edits>>

-----------------------------------------------------------------------------
(* The world.                                                              *)

NextDay ==
  /\ today < MaxDay
  /\ today' = today + 1
  /\ UNCHANGED <<row, sync, announced, refused, edits, faults>>

\* Fault: a negative number of days is accepted.
ReimportNegative(l) ==
  /\ edits < MaxEdits
  /\ row' = [row EXCEPT ![l].allowed = -1]
  /\ edits' = edits + 1
  /\ UNCHANGED <<today, sync, announced, refused, faults>>

\* An import changes the dates and the manager of a line, and nothing else
\* of its ageing.  Its number of the manager is checked without the blanks
\* around it and stored with them: it may be nobody's.
Reimport(l) ==
  /\ edits < MaxEdits
  /\ \E issued \in Dates, allowed \in Allowances, managed \in BOOLEAN :
       /\ issued <= today /\ allowed # None
       /\ row' = [row EXCEPT ![l].issued = issued, ![l].allowed = allowed, ![l].managed = managed]
  /\ edits' = edits + 1
  /\ UNCHANGED <<today, sync, announced, refused, faults>>

\* updatePoLineStatus: somebody says that a line was invoiced, or that it
\* was not, at any time, and nothing else of the row changes.
SetStatus(l) ==
  /\ edits < MaxEdits
  /\ \E invoiced \in BOOLEAN : row' = [row EXCEPT ![l].invoiced = invoiced]
  /\ edits' = edits + 1
  /\ UNCHANGED <<today, sync, announced, refused, faults>>

-----------------------------------------------------------------------------
Step(s, l) ==
  \/ Lookup(s, l)
  \/ Announce(s, l) \/ AnnounceError(s, l)
  \/ Mark(s, l)
  \/ StoreFlag(s, l)
  \/ LineError(s, l)

Next ==
  \/ \E s \in Dashboards : Read(s) \/ StartChunk(s) \/ \E l \in Lines : Step(s, l)
  \/ Crash
  \/ NextDay
  \/ \E l \in Lines : Reimport(l) \/ SetStatus(l)

Spec == Init /\ [][Next]_vars

\* Started syncs go on.  Nothing makes anybody open a dashboard.
FairSpec ==
  /\ Spec
  /\ \A s \in Dashboards : WF_vars(StartChunk(s) \/ \E l \in Lines : Step(s, l))

-----------------------------------------------------------------------------
(* What the ageing promises.                                               *)

\* A sync that would announce l, having read it before it was marked.
Pending(s, l) ==
  \/ On(s, l, "waiting") /\ ~ sync[s][l].seen.notified
  \/ On(s, l, "lookup") \/ On(s, l, "announce")

\* Once a line is marked and no sync is left that read it before, its
\* manager is never told again, whatever days pass, imports change its
\* dates, calls fail and processes die ("Mark it so we don't notify RED
\* again for this line").
MarkedIsFinal ==
  [][\A l \in Lines :
       LET Told == row[l].notified /\ \A s \in Dashboards : ~ Pending(s, l) IN
       Told => Told' /\ announced'[l] = announced[l]]_vars

\* A manager is told at most once for each dashboard that may be being
\* synced at a time, and as often again for each call that failed or process
\* that died (between the notification and its mark).
ToldOncePerDashboard ==
  \A l \in Lines : announced[l] <= Cardinality(Dashboards) * (1 + faults)

\* What a line comes to depends on people: somebody opens a dashboard that
\* shows it, again and again.
KeepsBeingOpened(l) == \E s \in Dashboards : l \in Scope[s] /\ []<><<Read(s)>>_vars

\* When the days, the changes of lines and the faults have come to an end,
\* the stored flag of a line that is looked at, which the filter of the
\* dashboard goes by, comes to be what its dates and its status say, although
\* any of the syncs may have stored a flag of yesterday, or of before it was
\* invoiced, over one of today.
FlagsFollow ==
  \A l \in Lines :
    KeepsBeingOpened(l) => <>[](row[l].flag = Evaluate(row[l], today).flag)

\* A line that is looked at, red and managed, and stays so, is marked, be it
\* that an earlier sync found nobody to tell, failed or died on the way, ...
RedIsMarked ==
  \A l \in Lines :
    KeepsBeingOpened(l) =>
      (Evaluate(row[l], today).flag = "RED" /\ row[l].managed
         ~> row[l].notified \/ Evaluate(row[l], today).flag # "RED" \/ ~ row[l].managed)

\* ... and a line is marked only when its manager has been told, or the
\* database refused a notification of this very line.
MarkedWasTold == \A l \in Lines : row[l].notified => announced[l] > 0 \/ l \in refused

\* mapToDto: a line as the aggregator sees it.
Dto(l, duidOf, orderOf) ==
  [line |-> l, duid |-> duidOf[l], order |-> orderOf[l], invoiced |-> row[l].invoiced,
   flag |-> Evaluate(row[l], today).flag, days |-> Evaluate(row[l], today).days]

\* What a dashboard answers agrees with its lines, in whatever order the
\* database returns them and whichever sites and orders they belong to.  It
\* goes by their dates and their status, not by the flags stored: no site is
\* critical for what was invoiced.
AnswersAgree ==
  (\A s \in Dashboards : sync[s] = Nothing) =>
    \A s \in Dashboards, duidOf \in [Lines -> Duids], orderOf \in [Lines -> Orders] :
      LET dtos == {Dto(l, duidOf, orderOf) : l \in Scope[s]} IN
      \A order \in SetToSeqs(dtos) : Agrees(Aggregate(order), dtos)
=============================================================================
