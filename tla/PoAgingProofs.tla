---------------------------- MODULE PoAgingProofs ----------------------------
(***************************************************************************)
(* Proofs about PoAging, for any lines, dashboards, dates and bounds.      *)
(*                                                                         *)
(* How often a manager is told of a line is counted against the dashboards *)
(* that are about to mark it (Marking) while it is not marked, and against *)
(* those that may still announce it (Waiters) once it is.                  *)
(*                                                                         *)
(* The second half is about what a dashboard answers: SitesMatch relates   *)
(* the cards after each line to the lines so far, and Lists a sorted list  *)
(* to the positions it was sorted from.                                    *)
(***************************************************************************)
EXTENDS PoAging, SumLemmas, SequenceTheorems

Marking(l) == {s \in Dashboards : On(s, l, "mark")}

Waiters(l) == {s \in Dashboards : Pending(s, l)}

Ceiling(n) == Cardinality(Dashboards) * n

ToldFor(l) ==
  IF row[l].notified
  THEN announced[l] + Cardinality(Waiters(l)) <= Ceiling(faults + 1)
  ELSE announced[l] <= Cardinality(Marking(l)) + Ceiling(faults)

WasTold(l) == row[l].notified \/ Marking(l) # {} => announced[l] > 0 \/ l \in refused

AgingInv == TypeOK /\ \A l \in Lines : ToldFor(l) /\ WasTold(l)

-----------------------------------------------------------------------------
(* Types.                                                                  *)

Places == Waiting \cup Started \cup {None}

LEMMA FlagTyped == \A r \in Rows : Evaluate(r, today).flag \in Flags
BY DEF Evaluate, Flags

LEMMA EvaluatedTyped ==
  ASSUME NEW r \in Rows
  PROVE  /\ Evaluated(r) \in Started \cup {None}
         /\ Evaluated(r) # None => Evaluated(r).step \in {"lookup", "flag"}
         /\ Evaluated(r) # None /\ r.notified => Evaluated(r).step = "flag"
<1>1. \A step \in {"lookup", "flag"} :
        Start(r, step) \in Started /\ Start(r, step).step = step
  BY FlagTyped DEF Start, Started, Rows
<1>. QED  BY <1>1 DEF Evaluated

\* A line's place in a sync that goes on, or is left.
LEMMA GoToTyped ==
  ASSUME TypeOK, NEW s \in Dashboards, NEW l \in Lines, sync[s][l] \in Started,
         NEW step \in {"announce", "mark", "flag"}, GoTo(s, l, step)
  PROVE  /\ sync' \in [Dashboards -> [Lines -> Places]]
         /\ sync'[s][l] # None /\ sync'[s][l] \in Started /\ sync'[s][l].step = step
         /\ \A u \in Dashboards, m \in Lines :
              u # s \/ m # l => sync'[u][m] = sync[u][m]
<1>1. [sync[s][l] EXCEPT !.step = step] \in Started
  BY DEF Started
<1>2. [sync[s][l] EXCEPT !.step = step].step = step
  BY DEF Started
<1>3. sync' = [sync EXCEPT ![s] = [sync[s] EXCEPT ![l] = [sync[s][l] EXCEPT !.step = step]]]
  BY DEF GoTo, TypeOK
<1>4. sync \in [Dashboards -> [Lines -> Places]]
  BY DEF TypeOK, Places
<1>. QED  BY <1>1, <1>2, <1>3, <1>4, NothingAssumption DEF Places

LEMMA LeaveTyped ==
  ASSUME TypeOK, NEW s \in Dashboards, NEW l \in Lines, Leave(s, l)
  PROVE  /\ sync' \in [Dashboards -> [Lines -> Places]]
         /\ sync'[s][l] = None
         /\ \A u \in Dashboards, m \in Lines :
              u # s \/ m # l => sync'[u][m] = sync[u][m]
BY DEF Leave, TypeOK, Places

\* A line of which a step is being done.
LEMMA OnStarted ==
  ASSUME TypeOK, NEW s \in Dashboards, NEW l \in Lines,
         NEW step \in {"lookup", "announce", "mark", "flag"}, On(s, l, step)
  PROVE  sync[s][l] \in Started /\ sync[s][l].step = step
BY DEF On, TypeOK, Waiting

-----------------------------------------------------------------------------
(* Counting dashboards.                                                    *)

LEMMA CeilingStep ==
  ASSUME NEW n \in Nat
  PROVE  /\ Cardinality(Dashboards) \in Nat /\ Ceiling(n) \in Nat
         /\ Ceiling(n + 1) = Ceiling(n) + Cardinality(Dashboards)
<1>1. Cardinality(Dashboards) \in Nat
  BY AgingAssumption, FS_CardinalityType
<1>. QED  BY <1>1 DEF Ceiling

LEMMA CountTyped ==
  ASSUME NEW S \in SUBSET Dashboards
  PROVE  /\ IsFiniteSet(S) /\ Cardinality(S) \in Nat
         /\ Cardinality(S) <= Cardinality(Dashboards)
BY AgingAssumption, FS_Subset, FS_CardinalityType

LEMMA CountOneMore ==
  ASSUME NEW S \in SUBSET Dashboards, NEW s \in Dashboards, s \notin S
  PROVE  Cardinality(S \cup {s}) = Cardinality(S) + 1
<1>1. IsFiniteSet(S)
  BY CountTyped
<1>2. Cardinality(S \cup {s}) = IF s \in S THEN Cardinality(S) ELSE Cardinality(S) + 1
  BY <1>1, FS_AddElement
<1>. QED  BY <1>2

LEMMA CountOneLess ==
  ASSUME NEW S \in SUBSET Dashboards, NEW s \in S
  PROVE  Cardinality(S \ {s}) = Cardinality(S) - 1
<1>1. IsFiniteSet(S)
  BY CountTyped
<1>2. Cardinality(S \ {s}) = IF s \in S THEN Cardinality(S) - 1 ELSE Cardinality(S)
  BY <1>1, FS_RemoveElement
<1>. QED  BY <1>2

LEMMA CountMonotone ==
  ASSUME NEW S \in SUBSET Dashboards, NEW T \in SUBSET S
  PROVE  Cardinality(T) <= Cardinality(S)
BY CountTyped, FS_Subset

\* No dashboard is about to mark a line and to announce it.
LEMMA Apart ==
  ASSUME NEW l \in Lines
  PROVE  Cardinality(Marking(l)) + Cardinality(Waiters(l)) <= Cardinality(Dashboards)
<1>1. Marking(l) \in SUBSET Dashboards /\ Waiters(l) \in SUBSET Dashboards
  BY DEF Marking, Waiters
<1>2. Marking(l) \cap Waiters(l) = {}
  BY DEF Marking, Waiters, Pending, On
<1>3. /\ IsFiniteSet(Marking(l)) /\ IsFiniteSet(Waiters(l))
      /\ Cardinality(Marking(l)) \in Nat /\ Cardinality(Waiters(l)) \in Nat
  BY <1>1, CountTyped
<1>4. Cardinality(Marking(l) \cup Waiters(l))
        = Cardinality(Marking(l)) + Cardinality(Waiters(l))
  BY <1>2, <1>3, FS_Union, FS_EmptySet
<1>5. Cardinality(Marking(l) \cup Waiters(l)) <= Cardinality(Dashboards)
  BY <1>1, CountTyped
<1>. QED  BY <1>4, <1>5

-----------------------------------------------------------------------------
(* What a step keeps of one line.                                          *)

LEMMA SetsTyped ==
  ASSUME NEW m \in Lines
  PROVE  /\ Cardinality(Marking(m)) \in 0 .. Cardinality(Dashboards)
         /\ Cardinality(Waiters(m)) \in 0 .. Cardinality(Dashboards)
         /\ Cardinality(Marking(m)') \in 0 .. Cardinality(Dashboards)
         /\ Cardinality(Waiters(m)') \in 0 .. Cardinality(Dashboards)
<1>1. /\ Marking(m) \in SUBSET Dashboards /\ Waiters(m) \in SUBSET Dashboards
      /\ Marking(m)' \in SUBSET Dashboards /\ Waiters(m)' \in SUBSET Dashboards
  BY DEF Marking, Waiters
<1>. QED  BY <1>1, CountTyped

LEMMA NumbersTyped ==
  ASSUME TypeOK
  PROVE  /\ \A m \in Lines : announced[m] \in Nat
         /\ faults \in Nat /\ Ceiling(faults) \in Nat /\ Cardinality(Dashboards) \in Nat
         /\ Ceiling(faults + 1) = Ceiling(faults) + Cardinality(Dashboards)
         /\ Ceiling(faults + 1 + 1) = Ceiling(faults + 1) + Cardinality(Dashboards)
<1>1. faults \in Nat /\ faults + 1 \in Nat
  BY AgingAssumption DEF TypeOK
<1>. QED  BY <1>1, CeilingStep DEF TypeOK

LEMMA ToldKept ==
  ASSUME AgingInv, NEW m \in Lines,
         row'[m].notified = row[m].notified, announced'[m] = announced[m],
         row[m].notified => Waiters(m)' \subseteq Waiters(m),
         \/ faults' = faults /\ Marking(m) \subseteq Marking(m)'
         \/ faults' = faults + 1
  PROVE  ToldFor(m)'
<1>1. TypeOK /\ ToldFor(m)
  BY DEF AgingInv
<1>2. CASE row[m].notified
  <2>1. Cardinality(Waiters(m)') <= Cardinality(Waiters(m))
    <3>1. Waiters(m) \in SUBSET Dashboards /\ Waiters(m)' \in SUBSET Waiters(m)
      BY <1>2 DEF Waiters
    <3>. QED  BY <3>1, CountMonotone
  <2>2. announced[m] + Cardinality(Waiters(m)) <= Ceiling(faults + 1)
    BY <1>1, <1>2 DEF ToldFor
  <2>3. announced'[m] + Cardinality(Waiters(m)') <= Ceiling(faults + 1)
    BY <1>1, <2>1, <2>2, SetsTyped, NumbersTyped
  <2>4. Ceiling(faults + 1) <= Ceiling(faults' + 1)
    BY <1>1, NumbersTyped
  <2>5. announced'[m] + Cardinality(Waiters(m)') <= Ceiling(faults' + 1)
    BY <1>1, <2>3, <2>4, SetsTyped, NumbersTyped
  <2>. QED  BY <1>2, <2>5 DEF ToldFor, Ceiling
<1>3. CASE ~ row[m].notified
  <2>1. announced[m] <= Cardinality(Marking(m)) + Ceiling(faults)
    BY <1>1, <1>3 DEF ToldFor
  <2>2. announced'[m] <= Cardinality(Marking(m)') + Ceiling(faults')
    <3>1. CASE faults' = faults /\ Marking(m) \subseteq Marking(m)'
      <4>1. Cardinality(Marking(m)) <= Cardinality(Marking(m)')
        <5>1. Marking(m)' \in SUBSET Dashboards /\ Marking(m) \in SUBSET Marking(m)'
          BY <3>1 DEF Marking
        <5>. QED  BY <5>1, CountMonotone
      <4>. QED  BY <1>1, <2>1, <3>1, <4>1, SetsTyped, NumbersTyped
    <3>2. CASE faults' = faults + 1
      <4>1. Ceiling(faults') = Ceiling(faults) + Cardinality(Dashboards)
        BY <1>1, <3>2, NumbersTyped
      <4>. QED  BY <1>1, <2>1, <4>1, SetsTyped, NumbersTyped
    <3>. QED  BY <3>1, <3>2
  <2>. QED  BY <1>3, <2>2 DEF ToldFor, Ceiling
<1>. QED  BY <1>2, <1>3

LEMMA WasToldKept ==
  ASSUME AgingInv, NEW m \in Lines, announced'[m] = announced[m], refused' = refused,
         Marking(m)' \subseteq Marking(m),
         row'[m].notified => row[m].notified \/ Marking(m) # {}
  PROVE  WasTold(m)'
<1>1. WasTold(m)
  BY DEF AgingInv
<1>. QED  BY <1>1 DEF WasTold

\* A line of which no sync and no row changes.
LEMMA SameSync ==
  ASSUME NEW m \in Lines, \A u \in Dashboards : sync'[u][m] = sync[u][m]
  PROVE  Marking(m)' = Marking(m) /\ Waiters(m)' = Waiters(m)
BY DEF Marking, Waiters, Pending, On

LineInv(m) == ToldFor(m) /\ WasTold(m)

LEMMA LineKept ==
  ASSUME AgingInv, NEW m \in Lines, \A u \in Dashboards : sync'[u][m] = sync[u][m],
         row'[m].notified = row[m].notified, announced'[m] = announced[m],
         refused' = refused, faults' = faults \/ faults' = faults + 1
  PROVE  LineInv(m)'
BY SameSync, ToldKept, WasToldKept DEF LineInv

-----------------------------------------------------------------------------
(* The steps of a background sync.                                         *)

LEMMA AgingInit == Init => AgingInv
<1>. SUFFICES ASSUME Init PROVE AgingInv
  OBVIOUS
<1>1. TypeOK
  BY AgingAssumption, DashboardAssumption DEF Init, TypeOK, Rows, Flags, Nothing
<1>2. \A m \in Lines : Marking(m) = {}
  BY DEF Init, Nothing, Marking, On
<1>3. ASSUME NEW m \in Lines PROVE ToldFor(m) /\ WasTold(m)
  <2>1. ~ row[m].notified /\ announced[m] = 0
    BY DEF Init
  <2>2. announced[m] <= Cardinality(Marking(m)) + Ceiling(faults)
    BY <1>1, <2>1, SetsTyped, NumbersTyped
  <2>. QED  BY <1>2, <2>1, <2>2 DEF ToldFor, WasTold
<1>. QED  BY <1>1, <1>3 DEF AgingInv

LEMMA ReadKeeps ==
  ASSUME AgingInv, NEW s \in Dashboards, Read(s)
  PROVE  AgingInv'
<1>1. TypeOK'
  <2>1. [l \in Lines |-> IF l \in Scope[s] THEN [step |-> "waiting", seen |-> row[l]]
                         ELSE None] \in [Lines -> Waiting \cup Started \cup {None}]
    BY DEF AgingInv, TypeOK, Waiting
  <2>. QED  BY <2>1 DEF Read, AgingInv, TypeOK
<1>2. ASSUME NEW m \in Lines PROVE LineInv(m)'
  <2>1. /\ \A u \in Dashboards : u # s => sync'[u] = sync[u]
        /\ sync'[s][m] = IF m \in Scope[s] THEN [step |-> "waiting", seen |-> row[m]] ELSE None
        /\ sync[s][m] = None
        /\ UNCHANGED <<row, announced, refused, faults>>
    BY DEF Read, Nothing, AgingInv, TypeOK
  <2>2. Marking(m)' = Marking(m)
    BY <2>1 DEF Marking, On
  <2>3. row[m].notified => Waiters(m)' \subseteq Waiters(m)
    BY <2>1 DEF Waiters, Pending, On
  <2>. QED  BY <2>1, <2>2, <2>3, ToldKept, WasToldKept DEF LineInv
<1>. QED  BY <1>1, <1>2 DEF AgingInv, LineInv

LEMMA StartChunkKeeps ==
  ASSUME AgingInv, NEW s \in Dashboards, StartChunk(s)
  PROVE  AgingInv'
<1>1. PICK chunk \in SUBSET {l \in Lines : On(s, l, "waiting")} :
        sync' = [sync EXCEPT ![s] = [l \in Lines |->
          IF l \in chunk THEN Evaluated(sync[s][l].seen) ELSE sync[s][l]]]
  BY DEF StartChunk
<1>2. ASSUME NEW m \in chunk
      PROVE  m \in Lines /\ On(s, m, "waiting") /\ sync[s][m].seen \in Rows
  <2>1. m \in Lines /\ On(s, m, "waiting")
    OBVIOUS
  <2>2. sync[s][m] \in Waiting \cup Started /\ sync[s][m].step = "waiting"
    BY <2>1 DEF On, AgingInv, TypeOK
  <2>3. sync[s][m] \in Waiting
    BY <2>2 DEF Started
  <2>. QED  BY <2>1, <2>3 DEF Waiting
<1>3. TypeOK'
  <2>1. [l \in Lines |-> IF l \in chunk THEN Evaluated(sync[s][l].seen) ELSE sync[s][l]]
          \in [Lines -> Waiting \cup Started \cup {None}]
    BY <1>2, EvaluatedTyped DEF AgingInv, TypeOK
  <2>. QED  BY <1>1, <2>1 DEF StartChunk, AgingInv, TypeOK
<1>4. ASSUME NEW m \in Lines PROVE LineInv(m)'
  <2>1. /\ \A u \in Dashboards : u # s => sync'[u] = sync[u]
        /\ sync'[s][m] = IF m \in chunk THEN Evaluated(sync[s][m].seen) ELSE sync[s][m]
    BY <1>1 DEF AgingInv, TypeOK
  <2>2. UNCHANGED <<row, announced, refused, faults>>
    BY DEF StartChunk
  <2>3. CASE m \notin chunk
    BY <2>1, <2>2, <2>3, LineKept
  <2>4. CASE m \in chunk
    <3> DEFINE e == Evaluated(sync[s][m].seen)
    <3>1. /\ On(s, m, "waiting") /\ sync[s][m].seen \in Rows
          /\ e # None => e.step \in {"lookup", "flag"}
          /\ e # None /\ sync[s][m].seen.notified => e.step = "flag"
      BY <1>2, <2>4, EvaluatedTyped
    <3>2. sync'[s][m] = e
      BY <2>1, <2>4
    <3>. HIDE DEF e
    <3>3. Marking(m)' = Marking(m)
      BY <2>1, <3>1, <3>2 DEF Marking, On
    <3>4. Waiters(m)' \subseteq Waiters(m)
      BY <2>1, <3>1, <3>2 DEF Waiters, Pending, On
    <3>. QED  BY <2>2, <3>3, <3>4, ToldKept, WasToldKept DEF LineInv
  <2>. QED  BY <2>3, <2>4
<1>. QED  BY <1>3, <1>4 DEF AgingInv, LineInv

\* What the steps of one line in one sync have in common.
Only(s, l) ==
  /\ sync' \in [Dashboards -> [Lines -> Places]]
  /\ \A u \in Dashboards, m \in Lines : u # s \/ m # l => sync'[u][m] = sync[u][m]

LEMMA GoToOnly ==
  ASSUME TypeOK, NEW s \in Dashboards, NEW l \in Lines, sync[s][l] \in Started,
         NEW step \in {"announce", "mark", "flag"}, GoTo(s, l, step)
  PROVE  Only(s, l) /\ sync'[s][l] # None /\ sync'[s][l].step = step
BY GoToTyped DEF Only

LEMMA AnnouncedOnly ==
  ASSUME TypeOK, NEW s \in Dashboards, NEW l \in Lines, sync[s][l] \in Started,
         Announced(s, l)
  PROVE  Only(s, l) /\ (sync'[s][l] = None \/ sync'[s][l].step = "flag")
<1>1. CASE Leave(s, l)
  BY <1>1, LeaveTyped DEF Only
<1>2. CASE GoTo(s, l, "flag")
  BY <1>2, GoToOnly
<1>. QED  BY <1>1, <1>2 DEF Announced

\* The lines a step of another line leaves alone.
LEMMA OthersKept ==
  ASSUME AgingInv, NEW s \in Dashboards, NEW l \in Lines, NEW m \in Lines, m # l, Only(s, l),
         row'[m] = row[m], announced'[m] = announced[m],
         m \in refused' <=> m \in refused, faults' = faults \/ faults' = faults + 1
  PROVE  LineInv(m)'
<1>1. LineInv(m)
  BY DEF AgingInv, LineInv
<1>2. Marking(m)' = Marking(m) /\ Waiters(m)' = Waiters(m)
  BY SameSync DEF Only
<1>3. ToldFor(m)'
  BY <1>2, ToldKept
<1>4. WasTold(m)'
  BY <1>1, <1>2 DEF LineInv, WasTold
<1>. QED  BY <1>3, <1>4 DEF LineInv

LEMMA StepTyped ==
  ASSUME AgingInv, NEW s \in Dashboards, NEW l \in Lines, Only(s, l),
         row' \in [Lines -> Rows], announced' \in [Lines -> Nat], refused' \in SUBSET Lines,
         faults' = faults \/ Fault, UNCHANGED <<today, edits>>
  PROVE  TypeOK'
BY AgingAssumption DEF AgingInv, TypeOK, Only, Places, Fault

LEMMA LookupKeeps ==
  ASSUME AgingInv, NEW s \in Dashboards, NEW l \in Lines, Lookup(s, l)
  PROVE  AgingInv'
<1>1. TypeOK /\ On(s, l, "lookup") /\ UNCHANGED <<today, row, announced, refused, edits, faults>>
  BY DEF AgingInv, Lookup
<1>2. sync[s][l] \in Started /\ sync[s][l].step = "lookup"
  BY <1>1, OnStarted
<1>3. Only(s, l) /\ (sync'[s][l] = None \/ sync'[s][l].step \in {"announce", "flag"})
  BY <1>1, <1>2, GoToOnly, AnnouncedOnly DEF Lookup
<1>4. TypeOK'
  BY <1>1, <1>3, StepTyped DEF TypeOK
<1>5. LineInv(l)'
  <2>1. \A u \in Dashboards : u # s => sync'[u][l] = sync[u][l]
    BY <1>3 DEF Only
  <2>2. Marking(l)' = Marking(l)
    BY <1>1, <1>2, <1>3, <2>1 DEF Marking, On
  <2>3. Waiters(l)' \subseteq Waiters(l)
    BY <1>1, <1>2, <1>3, <2>1 DEF Waiters, Pending, On
  <2>. QED  BY <1>1, <2>2, <2>3, ToldKept, WasToldKept DEF LineInv
<1>. QED  BY <1>1, <1>3, <1>4, <1>5, OthersKept DEF AgingInv, LineInv

\* A dashboard that leaves the announcement behind, which was stored or not,
\* is about to mark the line.
LEMMA TellingKeeps ==
  ASSUME AgingInv, NEW s \in Dashboards, NEW l \in Lines,
         On(s, l, "announce"), GoTo(s, l, "mark"), UNCHANGED row,
         announced'[l] \in {announced[l], announced[l] + 1}, faults' \in {faults, faults + 1}
  PROVE  Only(s, l) /\ ToldFor(l)'
<1>1. TypeOK
  BY DEF AgingInv
<1>2. sync[s][l] \in Started /\ sync[s][l].step = "announce" /\ sync[s][l] # None
  BY <1>1, OnStarted DEF On
<1>3. Only(s, l) /\ sync'[s][l] # None /\ sync'[s][l].step = "mark"
  BY <1>1, <1>2, GoToOnly
<1>4. \A u \in Dashboards : u # s => sync'[u][l] = sync[u][l]
  BY <1>3 DEF Only
<1>5. Marking(l)' = Marking(l) \cup {s} /\ s \notin Marking(l)
  BY <1>2, <1>3, <1>4 DEF Marking, On
<1>6. Waiters(l)' = Waiters(l) \ {s} /\ s \in Waiters(l)
  BY <1>1, <1>2, <1>3, <1>4 DEF Waiters, Pending, On
<1>7. Marking(l) \in SUBSET Dashboards /\ Waiters(l) \in SUBSET Dashboards
  BY DEF Marking, Waiters
<1>8. /\ Cardinality(Marking(l)') = Cardinality(Marking(l)) + 1
      /\ Cardinality(Waiters(l)') = Cardinality(Waiters(l)) - 1
  <2>1. Cardinality(Marking(l) \cup {s}) = Cardinality(Marking(l)) + 1
    BY <1>5, <1>7, CountOneMore
  <2>2. Cardinality(Waiters(l) \ {s}) = Cardinality(Waiters(l)) - 1
    BY <1>6, <1>7, CountOneLess
  <2>. QED  BY <1>5, <1>6, <2>1, <2>2
<1>9. /\ Ceiling(faults) \in Nat /\ Ceiling(faults + 1) \in Nat
      /\ Ceiling(faults) <= Ceiling(faults') /\ Ceiling(faults + 1) <= Ceiling(faults' + 1)
      /\ Ceiling(faults') \in Nat /\ Ceiling(faults' + 1) \in Nat
  BY <1>1, NumbersTyped
<1>10. CASE row[l].notified
  <2>1. announced[l] + Cardinality(Waiters(l)) <= Ceiling(faults + 1)
    BY <1>10 DEF AgingInv, ToldFor
  <2>2. announced'[l] + Cardinality(Waiters(l)') <= Ceiling(faults' + 1)
    BY <1>1, <1>8, <1>9, <2>1, SetsTyped, NumbersTyped
  <2>. QED  BY <1>3, <1>10, <2>2 DEF ToldFor, Ceiling
<1>11. CASE ~ row[l].notified
  <2>1. announced[l] <= Cardinality(Marking(l)) + Ceiling(faults)
    BY <1>11 DEF AgingInv, ToldFor
  <2>2. announced'[l] <= Cardinality(Marking(l)') + Ceiling(faults')
    BY <1>1, <1>8, <1>9, <2>1, SetsTyped, NumbersTyped
  <2>. QED  BY <1>3, <1>11, <2>2 DEF ToldFor, Ceiling
<1>. QED  BY <1>10, <1>11

LEMMA AnnounceKeeps ==
  ASSUME AgingInv, NEW s \in Dashboards, NEW l \in Lines, Announce(s, l)
  PROVE  AgingInv'
<1>1. /\ TypeOK /\ On(s, l, "announce") /\ GoTo(s, l, "mark")
      /\ UNCHANGED <<today, row, refused, edits, faults>>
  BY DEF AgingInv, Announce
<1>2. /\ announced' \in [Lines -> Nat] /\ announced'[l] = announced[l] + 1
      /\ \A m \in Lines : m # l => announced'[m] = announced[m]
  BY DEF Announce, AgingInv, TypeOK
<1>3. Only(s, l) /\ ToldFor(l)'
  BY <1>1, <1>2, TellingKeeps
<1>4. TypeOK'
  BY <1>1, <1>2, <1>3, StepTyped DEF TypeOK
<1>5. WasTold(l)'
  BY <1>1, <1>2, NumbersTyped DEF WasTold
<1>. QED  BY <1>1, <1>2, <1>3, <1>4, <1>5, OthersKept DEF AgingInv, LineInv

LEMMA AnnounceErrorKeeps ==
  ASSUME AgingInv, NEW s \in Dashboards, NEW l \in Lines, AnnounceError(s, l)
  PROVE  AgingInv'
<1>1. /\ TypeOK /\ On(s, l, "announce") /\ GoTo(s, l, "mark") /\ Fault
      /\ UNCHANGED <<today, row, edits>> /\ faults' = faults + 1 /\ refused' = refused \cup {l}
  BY DEF AgingInv, AnnounceError, Fault
<1>2. /\ announced' \in [Lines -> Nat] /\ announced'[l] \in {announced[l], announced[l] + 1}
      /\ \A m \in Lines : m # l => announced'[m] = announced[m]
  BY DEF AnnounceError, AgingInv, TypeOK
<1>3. Only(s, l) /\ ToldFor(l)'
  BY <1>1, <1>2, TellingKeeps
<1>4. TypeOK'
  BY <1>1, <1>2, <1>3, StepTyped DEF TypeOK
<1>5. WasTold(l)'
  BY <1>1 DEF WasTold
<1>. QED  BY <1>1, <1>2, <1>3, <1>4, <1>5, OthersKept DEF AgingInv, LineInv

\* A dashboard that leaves the mark behind, which was stored or not.
LEMMA MarkingKeeps ==
  ASSUME AgingInv, NEW s \in Dashboards, NEW l \in Lines, On(s, l, "mark"),
         Only(s, l), sync'[s][l] = None \/ sync'[s][l].step = "flag",
         row[l].notified => row'[l].notified, row'[l].notified \in BOOLEAN,
         row[l].notified \in BOOLEAN, UNCHANGED <<announced, refused>>,
         \/ row'[l].notified /\ faults' = faults
         \/ faults' = faults + 1
  PROVE  LineInv(l)'
<1>1. TypeOK
  BY DEF AgingInv
<1>2. sync[s][l] \in Started /\ sync[s][l].step = "mark"
  BY <1>1, OnStarted
<1>3. \A u \in Dashboards : u # s => sync'[u][l] = sync[u][l]
  BY DEF Only
<1>4. Waiters(l)' = Waiters(l) /\ Marking(l)' \subseteq Marking(l) /\ s \in Marking(l)
  BY <1>2, <1>3 DEF Waiters, Marking, Pending, On
<1>5. WasTold(l)'
  BY <1>4, WasToldKept
<1>6. CASE ~ row'[l].notified
  BY <1>4, <1>6, ToldKept, <1>5 DEF LineInv
<1>7. CASE row'[l].notified
  <2>1. announced[l] + Cardinality(Waiters(l)) <= Ceiling(faults + 1)
    <3>1. CASE row[l].notified
      BY <3>1 DEF AgingInv, ToldFor
    <3>2. CASE ~ row[l].notified
      <4>1. announced[l] <= Cardinality(Marking(l)) + Ceiling(faults)
        BY <3>2 DEF AgingInv, ToldFor
      <4>. QED  BY <1>1, <4>1, Apart, SetsTyped, NumbersTyped
    <3>. QED  BY <3>1, <3>2
  <2>2. Ceiling(faults + 1) <= Ceiling(faults' + 1) /\ Ceiling(faults' + 1) \in Nat
    BY <1>1, NumbersTyped
  <2>3. announced'[l] + Cardinality(Waiters(l)') <= Ceiling(faults' + 1)
    BY <1>1, <1>4, <2>1, <2>2, SetsTyped, NumbersTyped
  <2>4. ToldFor(l)'
    BY <1>7, <2>3 DEF ToldFor, Ceiling
  <2>. QED  BY <1>5, <2>4 DEF LineInv
<1>. QED  BY <1>6, <1>7

LEMMA MarkKeeps ==
  ASSUME AgingInv, NEW s \in Dashboards, NEW l \in Lines, Mark(s, l)
  PROVE  AgingInv'
<1>1. /\ TypeOK /\ On(s, l, "mark") /\ Announced(s, l)
      /\ UNCHANGED <<today, announced, refused, edits, faults>>
  BY DEF AgingInv, Mark
<1>2. sync[s][l] \in Started /\ sync[s][l].step = "mark"
  BY <1>1, OnStarted
<1>3. Only(s, l) /\ (sync'[s][l] = None \/ sync'[s][l].step = "flag")
  BY <1>1, <1>2, AnnouncedOnly
<1>4. /\ row' \in [Lines -> Rows] /\ row'[l].notified /\ row[l].notified \in BOOLEAN
      /\ \A m \in Lines : m # l => row'[m] = row[m]
  BY DEF Mark, AgingInv, TypeOK, Rows
<1>5. TypeOK'
  BY <1>1, <1>3, <1>4, StepTyped DEF TypeOK
<1>6. LineInv(l)'
  BY <1>1, <1>3, <1>4, MarkingKeeps
<1>. QED  BY <1>1, <1>3, <1>4, <1>5, <1>6, OthersKept DEF AgingInv, LineInv

LEMMA StoreFlagKeeps ==
  ASSUME AgingInv, NEW s \in Dashboards, NEW l \in Lines, StoreFlag(s, l)
  PROVE  AgingInv'
<1>1. /\ TypeOK /\ On(s, l, "flag") /\ Leave(s, l)
      /\ UNCHANGED <<today, announced, refused, edits, faults>>
  BY DEF AgingInv, StoreFlag
<1>2. sync[s][l] \in Started /\ sync[s][l].step = "flag" /\ sync[s][l].now \in Flags
  <2>1. sync[s][l] \in Started /\ sync[s][l].step = "flag"
    BY <1>1, OnStarted
  <2>. QED  BY <2>1 DEF Started
<1>3. Only(s, l) /\ sync'[s][l] = None
  BY <1>1, LeaveTyped DEF Only
<1>4. /\ row' \in [Lines -> Rows] /\ row'[l].notified = row[l].notified
      /\ \A m \in Lines : m # l => row'[m] = row[m]
  BY <1>2 DEF StoreFlag, AgingInv, TypeOK, Rows
<1>5. TypeOK'
  BY <1>1, <1>3, <1>4, StepTyped DEF TypeOK
<1>6. LineInv(l)'
  <2>1. \A u \in Dashboards : u # s => sync'[u][l] = sync[u][l]
    BY <1>3 DEF Only
  <2>2. Marking(l)' = Marking(l) /\ Waiters(l)' \subseteq Waiters(l)
    BY <1>2, <1>3, <2>1 DEF Marking, Waiters, Pending, On
  <2>. QED  BY <1>1, <1>4, <2>2, ToldKept, WasToldKept DEF LineInv
<1>. QED  BY <1>1, <1>3, <1>4, <1>5, <1>6, OthersKept DEF AgingInv, LineInv

LEMMA LineErrorKeeps ==
  ASSUME AgingInv, NEW s \in Dashboards, NEW l \in Lines, LineError(s, l)
  PROVE  AgingInv'
<1>1. /\ TypeOK /\ Leave(s, l) /\ Fault
      /\ UNCHANGED <<today, announced, refused, edits>> /\ faults' = faults + 1
  BY DEF AgingInv, LineError, Fault
<1>2. Only(s, l) /\ sync'[s][l] = None
  BY <1>1, LeaveTyped DEF Only
<1>3. /\ row' \in [Lines -> Rows] /\ row[l].notified \in BOOLEAN /\ row'[l].notified \in BOOLEAN
      /\ row[l].notified => row'[l].notified
      /\ ~ On(s, l, "mark") => row'[l].notified = row[l].notified
      /\ \A m \in Lines : m # l => row'[m] = row[m]
  <2>1. ASSUME On(s, l, "flag") PROVE sync[s][l].now \in Flags
    <3>1. sync[s][l] \in Started
      BY <1>1, <2>1, OnStarted
    <3>. QED  BY <3>1 DEF Started
  <2>2. row \in [Lines -> Rows]
    BY <1>1 DEF TypeOK
  <2>3. CASE UNCHANGED row
    BY <2>2, <2>3 DEF Rows
  <2>4. CASE On(s, l, "mark") /\ row' = [row EXCEPT ![l].notified = TRUE]
    BY <2>2, <2>4 DEF Rows
  <2>5. CASE On(s, l, "flag") /\ row' = [row EXCEPT ![l].flag = sync[s][l].now]
    BY <2>1, <2>2, <2>5 DEF Rows
  <2>. QED  BY <2>3, <2>4, <2>5 DEF LineError
<1>4. TypeOK'
  BY <1>1, <1>2, <1>3, StepTyped DEF TypeOK
<1>5. LineInv(l)'
  <2>1. CASE On(s, l, "mark")
    BY <1>1, <1>2, <1>3, <2>1, MarkingKeeps
  <2>2. CASE ~ On(s, l, "mark")
    <3>1. \A u \in Dashboards : u # s => sync'[u][l] = sync[u][l]
      BY <1>2 DEF Only
    <3>2. Waiters(l)' \subseteq Waiters(l) /\ Marking(l)' \subseteq Marking(l)
      BY <1>2, <3>1 DEF Waiters, Marking, Pending, On
    <3>. QED  BY <1>1, <1>3, <2>2, <3>2, ToldKept, WasToldKept DEF LineInv
  <2>. QED  BY <2>1, <2>2
<1>. QED  BY <1>1, <1>2, <1>3, <1>4, <1>5, OthersKept DEF AgingInv, LineInv

LEMMA CrashKeeps ==
  ASSUME AgingInv, Crash
  PROVE  AgingInv'
<1>1. /\ TypeOK /\ Fault /\ faults' = faults + 1
      /\ sync' = [s \in Dashboards |-> Nothing]
      /\ UNCHANGED <<today, row, announced, refused, edits>>
  BY DEF AgingInv, Crash, Fault
<1>2. TypeOK'
  BY <1>1, AgingAssumption DEF TypeOK, Nothing, Fault
<1>3. ASSUME NEW m \in Lines PROVE LineInv(m)'
  <2>1. \A u \in Dashboards : sync'[u][m] = None
    BY <1>1 DEF Nothing
  <2>2. Waiters(m)' \subseteq Waiters(m) /\ Marking(m)' \subseteq Marking(m)
    BY <2>1 DEF Waiters, Marking, Pending, On
  <2>. QED  BY <1>1, <2>2, ToldKept, WasToldKept DEF LineInv
<1>. QED  BY <1>2, <1>3 DEF AgingInv, LineInv

\* An import and a new status keep what is stored of the ageing.
LEMMA ReimportKeepsMarks ==
  ASSUME TypeOK, NEW l \in Lines, Reimport(l)
  PROVE  row' \in [Lines -> Rows] /\ \A m \in Lines : row'[m].notified = row[m].notified
<1>1. PICK issued \in Dates, allowed \in Allowances, managed \in BOOLEAN :
        row' = [row EXCEPT ![l].issued = issued, ![l].allowed = allowed, ![l].managed = managed]
  BY DEF Reimport
<1> DEFINE r == [issued |-> issued, allowed |-> allowed, invoiced |-> row[l].invoiced,
                 managed |-> managed, flag |-> row[l].flag, notified |-> row[l].notified]
<1>2. row \in [Lines -> Rows]
  BY DEF TypeOK
<1>3. r \in Rows
  BY <1>2 DEF Rows
<1>4. row'[l] = r
  BY <1>1, <1>2 DEF Rows
<1>5. \A m \in Lines : m # l => row'[m] = row[m]
  BY <1>1, <1>2
<1>6. row' = [m \in Lines |-> row'[m]]
  BY <1>1, <1>2
<1>7. \A m \in Lines : row'[m] \in Rows
  BY <1>2, <1>3, <1>4, <1>5
<1>8. row'[l].notified = row[l].notified
  BY <1>4
<1>. HIDE DEF r
<1>. QED  BY <1>5, <1>6, <1>7, <1>8

LEMMA StatusKeepsMarks ==
  ASSUME TypeOK, NEW l \in Lines, SetStatus(l)
  PROVE  row' \in [Lines -> Rows] /\ \A m \in Lines : row'[m].notified = row[m].notified
<1>1. PICK invoiced \in BOOLEAN : row' = [row EXCEPT ![l].invoiced = invoiced]
  BY DEF SetStatus
<1>. QED  BY <1>1 DEF TypeOK, Rows

Edit(l) == Reimport(l) \/ SetStatus(l)

LEMMA WorldKeeps ==
  ASSUME AgingInv, NextDay \/ (\E l \in Lines : Edit(l)) \/ UNCHANGED vars
  PROVE  AgingInv'
<1>1. TypeOK /\ UNCHANGED <<sync, announced, refused, faults>>
  BY DEF AgingInv, NextDay, Edit, Reimport, SetStatus, vars
<1>2. row' \in [Lines -> Rows] /\ \A m \in Lines : row'[m].notified = row[m].notified
  BY <1>1, ReimportKeepsMarks, StatusKeepsMarks DEF TypeOK, NextDay, Edit, vars
<1>3. today' \in FirstDay .. MaxDay /\ edits' \in 0 .. MaxEdits
  <2>1. CASE NextDay
    BY <1>1, <2>1, AgingAssumption DEF TypeOK, NextDay
  <2>2. ASSUME NEW l \in Lines, Edit(l)
        PROVE  today' \in FirstDay .. MaxDay /\ edits' \in 0 .. MaxEdits
    <3>1. today' = today /\ edits' = edits + 1 /\ edits < MaxEdits
      BY <2>2 DEF Edit, Reimport, SetStatus
    <3>. QED  BY <1>1, <3>1, AgingAssumption DEF TypeOK
  <2>3. CASE UNCHANGED vars
    BY <1>1, <2>3 DEF TypeOK, vars
  <2>. QED  BY <2>1, <2>2, <2>3
<1>4. TypeOK'
  BY <1>1, <1>2, <1>3 DEF TypeOK
<1>. QED  BY <1>1, <1>2, <1>4, LineKept DEF AgingInv, LineInv

LEMMA NextKeeps == AgingInv /\ [Next]_vars => AgingInv'
<1>. SUFFICES ASSUME AgingInv, [Next]_vars PROVE AgingInv'
  OBVIOUS
<1>1. ASSUME NEW s \in Dashboards, NEW l \in Lines, Step(s, l) PROVE AgingInv'
  BY <1>1, LookupKeeps, AnnounceKeeps, AnnounceErrorKeeps, MarkKeeps, StoreFlagKeeps,
     LineErrorKeeps DEF Step
<1>. QED  BY <1>1, ReadKeeps, StartChunkKeeps, CrashKeeps, WorldKeeps DEF Next, Edit

LEMMA AgingInvariant == Spec => []AgingInv
BY AgingInit, NextKeeps, PTL DEF Spec

-----------------------------------------------------------------------------

\* Safety: every variable keeps its type: what a sync does to a line is one
\* of the steps of runBackgroundSync, on a flag the evaluator gave.
THEOREM AgingTypeCorrect == Spec => []TypeOK
<1>1. AgingInv => TypeOK
  BY DEF AgingInv
<1>. QED  BY <1>1, AgingInvariant, PTL

\* Safety (runBackgroundSync): however many dashboards read a red line before
\* one of them has marked it, its manager is told at most once for each, and
\* as often again at every failure.
THEOREM ToldBounded == Spec => []ToldOncePerDashboard
<1>1. AgingInv => ToldOncePerDashboard
  <2>. SUFFICES ASSUME AgingInv, NEW l \in Lines PROVE announced[l] <= Ceiling(1 + faults)
    BY DEF ToldOncePerDashboard, Ceiling
  <2>1. TypeOK /\ ToldFor(l)
    BY DEF AgingInv
  <2>2. announced[l] <= Ceiling(faults + 1)
    <3>1. CASE row[l].notified
      BY <2>1, <3>1, SetsTyped, NumbersTyped DEF ToldFor
    <3>2. CASE ~ row[l].notified
      BY <2>1, <3>2, SetsTyped, NumbersTyped DEF ToldFor
    <3>. QED  BY <3>1, <3>2
  <2>3. 1 + faults = faults + 1
    BY <2>1, NumbersTyped
  <2>. QED  BY <2>2, <2>3 DEF Ceiling
<1>. QED  BY <1>1, AgingInvariant, PTL

\* Safety (runBackgroundSync, notify): a line that is marked as notified has a
\* stored notification, or the database answered one of this very line with
\* an error, which notify hides from the caller.  What fails elsewhere is no
\* excuse.
THEOREM MarkedWasToldAlways == Spec => []MarkedWasTold
<1>1. AgingInv => MarkedWasTold
  BY DEF AgingInv, WasTold, MarkedWasTold
<1>. QED  BY <1>1, AgingInvariant, PTL

\* Safety ("Mark it so we don't notify RED again for this line"): once a
\* line is marked and no sync is left that read it before, it stays so and
\* nobody is told again.
THEOREM MarkedStaysFinal == Spec => MarkedIsFinal
<1> DEFINE Told(l) == row[l].notified /\ \A s \in Dashboards : ~ Pending(s, l)
           Final(l) == Told(l) => Told(l)' /\ announced'[l] = announced[l]
<1>1. ASSUME AgingInv, [Next]_vars, NEW l \in Lines, Told(l)
      PROVE  Told(l)' /\ announced'[l] = announced[l]
  <2>1. TypeOK /\ TypeOK'
    BY <1>1, NextKeeps DEF AgingInv
  <2>2. ASSUME NEW s \in Dashboards, Read(s) PROVE Told(l)' /\ announced'[l] = announced[l]
    BY <1>1, <2>1, <2>2 DEF Read, Pending, On, TypeOK
  <2>3. ASSUME NEW s \in Dashboards, StartChunk(s)
        PROVE  Told(l)' /\ announced'[l] = announced[l]
    <3>1. PICK chunk \in SUBSET {m \in Lines : On(s, m, "waiting")} :
            sync' = [sync EXCEPT ![s] = [m \in Lines |->
              IF m \in chunk THEN Evaluated(sync[s][m].seen) ELSE sync[s][m]]]
      BY <2>3 DEF StartChunk
    <3>2. /\ \A u \in Dashboards : u # s => sync'[u] = sync[u]
          /\ sync'[s][l] = IF l \in chunk THEN Evaluated(sync[s][l].seen) ELSE sync[s][l]
          /\ UNCHANGED <<row, announced>>
      BY <2>1, <2>3, <3>1 DEF StartChunk, TypeOK
    <3>3. CASE l \notin chunk
      BY <1>1, <3>2, <3>3 DEF Pending, On
    <3>4. CASE l \in chunk
      <4>1. On(s, l, "waiting") /\ sync[s][l] \in Waiting \cup Started
        BY <2>1, <3>4 DEF On, TypeOK
      <4>2. sync[s][l] \in Waiting
        BY <4>1 DEF On, Started
      <4>3. sync[s][l].seen \in Rows /\ sync[s][l].seen.notified
        BY <1>1, <4>1, <4>2 DEF Pending, Waiting
      <4>4. Evaluated(sync[s][l].seen) = None \/ Evaluated(sync[s][l].seen).step = "flag"
        BY <4>3, EvaluatedTyped
      <4>. QED  BY <1>1, <3>2, <3>4, <4>4 DEF Pending, On
    <3>. QED  BY <3>3, <3>4
  <2>4. ASSUME NEW s \in Dashboards, NEW m \in Lines, Step(s, m)
        PROVE  Told(l)' /\ announced'[l] = announced[l]
    <3>1. CASE m # l
      <4>1. /\ row'[l] = row[l] /\ announced'[l] = announced[l]
            /\ \A u \in Dashboards : sync'[u][l] = sync[u][l]
        BY <2>1, <2>4, <3>1 DEF Step, Lookup, Announce, AnnounceError, Mark, StoreFlag,
           LineError, Announced, GoTo, Leave, TypeOK
      <4>. QED  BY <1>1, <4>1 DEF Pending, On
    <3>2. CASE m = l
      <4>1. ~ On(s, l, "lookup") /\ ~ On(s, l, "announce")
        BY <1>1 DEF Pending
      <4>2. Mark(s, l) \/ StoreFlag(s, l) \/ LineError(s, l)
        BY <2>4, <3>2, <4>1 DEF Step, Lookup, Announce, AnnounceError
      <4>3. UNCHANGED announced /\ row'[l].notified
        BY <1>1, <2>1, <4>2 DEF Mark, StoreFlag, LineError, TypeOK, Rows
      <4>4. Only(s, l) /\ (sync'[s][l] = None \/ sync'[s][l].step = "flag")
        <5>1. CASE Mark(s, l)
          BY <2>1, <5>1, OnStarted, AnnouncedOnly DEF Mark
        <5>2. CASE StoreFlag(s, l) \/ LineError(s, l)
          BY <2>1, <5>2, LeaveTyped DEF StoreFlag, LineError, Only
        <5>. QED  BY <4>2, <5>1, <5>2
      <4>. QED  BY <1>1, <4>3, <4>4 DEF Only, Pending, On
    <3>. QED  BY <3>1, <3>2
  <2>5. ASSUME Crash PROVE Told(l)' /\ announced'[l] = announced[l]
    BY <1>1, <2>5 DEF Crash, Nothing, Pending, On
  <2>6. ASSUME NextDay \/ (\E m \in Lines : Edit(m)) \/ UNCHANGED vars
        PROVE  Told(l)' /\ announced'[l] = announced[l]
    <3>1. UNCHANGED <<sync, announced>> /\ row'[l].notified
      <4>1. CASE NextDay \/ UNCHANGED vars
        BY <1>1, <4>1 DEF NextDay, vars
      <4>2. ASSUME NEW m \in Lines, Edit(m)
            PROVE  UNCHANGED <<sync, announced>> /\ row'[l].notified
        <5>1. row'[l].notified = row[l].notified
          BY <2>1, <4>2, ReimportKeepsMarks, StatusKeepsMarks DEF Edit
        <5>. QED  BY <1>1, <4>2, <5>1 DEF Edit, Reimport, SetStatus
      <4>. QED  BY <2>6, <4>1, <4>2
    <3>. QED  BY <1>1, <3>1 DEF Pending, On
  <2>. QED  BY <1>1, <2>2, <2>3, <2>4, <2>5, <2>6 DEF Next, Edit
<1>2. AgingInv /\ [Next]_vars => [\A l \in Lines : Final(l)]_vars
  BY <1>1
<1>3. [\A l \in Lines : Final(l)]_vars =>
        [\A l \in Lines : LET T == row[l].notified /\ \A s \in Dashboards : ~ Pending(s, l) IN
           T => T' /\ announced'[l] = announced[l]]_vars
  OBVIOUS
<1>. QED  BY <1>2, <1>3, AgingInvariant, PTL DEF Spec, MarkedIsFinal

-----------------------------------------------------------------------------
(* The largest element of a set, by which Sites, a fold over the positions *)
(* of the lines, is taken apart.                                           *)

\* A finite set has a largest element, by any measure.
LEMMA HasLargest ==
  ASSUME NEW S, IsFiniteSet(S), S # {}, NEW f, \A e \in S : f[e] \in Int
  PROVE  \E x \in S : \A y \in S : f[x] >= f[y]
<1> DEFINE Bad == {T \in SUBSET S : T # {} /\ ~ \E x \in T : \A y \in T : f[x] >= f[y]}
<1>1. SUFFICES ASSUME Bad # {} PROVE FALSE
  OBVIOUS
<1>2. PICK m \in Bad : \A u \in Bad : u \subseteq m => u = m
  <2>. Bad \subseteq SUBSET S
    OBVIOUS
  <2>. HIDE DEF Bad
  <2>. QED BY <1>1, MinimalSubset
<1>3. PICK x \in m : TRUE
  OBVIOUS
<1>4. f[x] \in Int /\ \A z \in m : f[z] \in Int
  BY <1>3
<1>5. CASE m \ {x} = {}
  BY <1>3, <1>4, <1>5
<1>6. CASE m \ {x} # {}
  <2>1. m \ {x} \notin Bad
    <3>1. m \ {x} \subseteq m /\ m \ {x} # m
      BY <1>3
    <3>. HIDE DEF Bad
    <3>. QED BY <1>2, <3>1
  <2>2. PICK y \in m \ {x} : \A z \in m \ {x} : f[y] >= f[z]
    BY <1>6, <2>1
  <2>3. CASE f[x] >= f[y]
    BY <1>4, <2>2, <2>3
  <2>4. CASE f[y] >= f[x]
    BY <1>4, <2>2, <2>4
  <2>. QED BY <1>4, <2>2, <2>3, <2>4
<1>. QED BY <1>5, <1>6

\* Max of a finite set of integers is its largest element.
LEMMA LargestIs ==
  ASSUME NEW S, \A e \in S : e \in Int, IsFiniteSet(S), S # {}
  PROVE  Max(S) \in S /\ \A y \in S : Max(S) >= y
<1>1. \E x \in S : \A y \in S : [e \in S |-> e][x] >= [e \in S |-> e][y]
  BY HasLargest
<1>. QED BY <1>1 DEF Max

-----------------------------------------------------------------------------
(* Sites, a fold over the positions of the lines.                          *)

\* One level of the fold, given the cards g after fewer positions.
Placed(g, lines, s) == IF s = {} THEN <<>> ELSE AddToSite(g[s \ {Max(s)}], lines[Max(s)])

\* g is the table of the cards after each subset of the positions T.
IsTable(g, lines, T) == g = [s \in SUBSET T |-> Placed(g, lines, s)]

Table(lines, T) == CHOOSE g : IsTable(g, lines, T)

\* The cards after all lines are an entry of that table.
LEMMA SitesAreTable ==
  ASSUME NEW lines
  PROVE  Sites(lines) = Table(lines, DOMAIN lines)[DOMAIN lines]
BY DEF Sites, FoldLeft, MapThenFoldSet, Table, IsTable, Placed

\* Tables over different positions agree on the subsets they share.
LEMMA TableUnique ==
  ASSUME NEW lines, NEW T, \A e \in T : e \in Int, NEW U, IsFiniteSet(T), T \subseteq U,
         NEW g, IsTable(g, lines, T), NEW h, IsTable(h, lines, U)
  PROVE  \A s \in SUBSET T : g[s] = h[s]
<1>. DEFINE D == {s \in SUBSET T : g[s] # h[s]}
<1>1. SUFFICES ASSUME D # {} PROVE FALSE
  OBVIOUS
<1>2. PICK d \in D : \A u \in D : u \subseteq d => u = d
  <2>. D \subseteq SUBSET T
    OBVIOUS
  <2>. HIDE DEF D
  <2>. QED BY <1>1, MinimalSubset
<1>3. d \in SUBSET T /\ d \in SUBSET U /\ g[d] # h[d]
  OBVIOUS
<1>4. g[d] = Placed(g, lines, d) /\ h[d] = Placed(h, lines, d)
  BY <1>3 DEF IsTable
<1>5. d # {}
  BY <1>3, <1>4 DEF Placed
<1>6. Max(d) \in d
  BY <1>3, <1>5, LargestIs, FS_Subset
<1>7. g[d \ {Max(d)}] = h[d \ {Max(d)}]
  <2>1. d \ {Max(d)} \in SUBSET T /\ d \ {Max(d)} \subseteq d /\ d \ {Max(d)} # d
    BY <1>3, <1>6
  <2>2. d \ {Max(d)} \notin D
    <3>. HIDE DEF D
    <3>. QED BY <2>1, <1>2
  <2>. QED BY <2>1, <2>2
<1>. QED BY <1>3, <1>4, <1>5, <1>7 DEF Placed

\* Over a finite set of positions there is one.
LEMMA TableExists ==
  ASSUME NEW lines, NEW S, \A e \in S : e \in Int, IsFiniteSet(S)
  PROVE  \E g : IsTable(g, lines, S)
<1>. DEFINE Bad == {T \in SUBSET S : ~ \E g : IsTable(g, lines, T)}
<1>1. SUFFICES ASSUME Bad # {} PROVE FALSE
  OBVIOUS
<1>2. PICK m \in Bad : \A u \in Bad : u \subseteq m => u = m
  <2>. Bad \subseteq SUBSET S
    OBVIOUS
  <2>. HIDE DEF Bad
  <2>. QED BY <1>1, MinimalSubset
<1>3. m \in SUBSET S /\ ~ \E g : IsTable(g, lines, m)
  OBVIOUS
<1>4. ASSUME NEW T, T \subseteq m, T # m
      PROVE  IsTable(Table(lines, T), lines, T) /\ IsFiniteSet(T) /\ \A e \in T : e \in Int
  <2>1. T \notin Bad
    <3>. HIDE DEF Bad
    <3>. QED BY <1>2, <1>4
  <2>2. T \in SUBSET S
    BY <1>3, <1>4
  <2>3. \E g : IsTable(g, lines, T)
    BY <2>1, <2>2
  <2>. QED BY <2>2, <2>3, FS_Subset DEF Table
<1>5. ASSUME NEW s, s \subseteq m, s # {} PROVE Max(s) \in s
  BY <1>3, <1>5, LargestIs, FS_Subset
<1>. DEFINE Val(s) == IF s = {} THEN <<>>
                      ELSE AddToSite(Table(lines, s \ {Max(s)})[s \ {Max(s)}], lines[Max(s)])
            G == [s \in SUBSET m |-> Val(s)]
<1>6. ASSUME NEW t, t \subseteq m, t # m
      PROVE  Val(t) = Table(lines, t)[t]
  <2>1. IsTable(Table(lines, t), lines, t) /\ t \in SUBSET t /\ \A e \in t : e \in Int
    BY <1>4, <1>6
  <2>2. Table(lines, t)[t] = Placed(Table(lines, t), lines, t)
    BY <2>1 DEF IsTable
  <2>3. CASE t = {}
    BY <2>2, <2>3 DEF Placed
  <2>4. CASE t # {}
    <3>. DEFINE w == t \ {Max(t)}
    <3>1. Max(t) \in t
      BY <1>5, <1>6, <2>4
    <3>2. w \subseteq m /\ w # m /\ w \subseteq t /\ w \in SUBSET w
      BY <3>1, <1>6
    <3>3. IsTable(Table(lines, w), lines, w) /\ IsFiniteSet(w) /\ \A e \in w : e \in Int
      BY <3>2, <1>4
    <3>4. Table(lines, w)[w] = Table(lines, t)[w]
      <4>. HIDE DEF w
      <4>. QED BY <3>2, <3>3, <2>1, TableUnique
    <3>. QED BY <2>2, <2>4, <3>4 DEF Placed
  <2>. QED BY <2>3, <2>4
<1>7. \A s \in SUBSET m : Val(s) = Placed(G, lines, s)
  <2>. SUFFICES ASSUME NEW s \in SUBSET m PROVE Val(s) = Placed(G, lines, s)
    OBVIOUS
  <2>1. CASE s = {}
    BY <2>1 DEF Placed
  <2>2. CASE s # {}
    <3>. DEFINE t == s \ {Max(s)}
    <3>1. Max(s) \in s
      BY <1>5, <2>2
    <3>2. t \subseteq m /\ t # m
      BY <3>1
    <3>3. G[t] = Val(t)
      BY <3>2
    <3>4. Val(t) = Table(lines, t)[t]
      <4>. HIDE DEF t, Val
      <4>. QED BY <3>2, <1>6
    <3>5. Val(s) = AddToSite(Table(lines, t)[t], lines[Max(s)])
      BY <2>2
    <3>6. Placed(G, lines, s) = AddToSite(G[t], lines[Max(s)])
      BY <2>2 DEF Placed
    <3>. QED
      <4>. HIDE DEF t, Val, G
      <4>. QED BY <3>3, <3>4, <3>5, <3>6
  <2>. QED BY <2>1, <2>2
<1>8. IsTable(G, lines, m)
  <2>. HIDE DEF Val
  <2>. QED BY <1>7 DEF IsTable
<1>. QED BY <1>3, <1>8

\* The cards after k lines are those after k - 1, with line k.
LEMMA SitesByPrefix ==
  ASSUME NEW S, NEW lines \in Seq(S)
  PROVE  \E g : /\ Sites(lines) = g[1 .. Len(lines)]
                /\ g[1 .. 0] = <<>>
                /\ \A k \in 1 .. Len(lines) : g[1 .. k] = AddToSite(g[1 .. (k - 1)], lines[k])
<1> DEFINE D == 1 .. Len(lines)
           g == Table(lines, D)
<1>1. Len(lines) \in Nat /\ DOMAIN lines = D
  OBVIOUS
<1>2. IsFiniteSet(D) /\ \A e \in D : e \in Int
  BY <1>1, FS_Interval
<1>3. IsTable(g, lines, D)
  <2>. HIDE DEF D
  <2>. QED BY <1>2, TableExists DEF Table
<1>4. Sites(lines) = g[D]
  BY <1>1, SitesAreTable
<1>. HIDE DEF g
<1>5. ASSUME NEW k \in 0 .. Len(lines) PROVE g[1 .. k] = Placed(g, lines, 1 .. k)
  <2>1. 1 .. k \in SUBSET D
    BY <1>1, <1>5
  <2>. QED BY <1>3, <2>1 DEF IsTable
<1>6. g[1 .. 0] = <<>>
  <2>1. 1 .. 0 = {} /\ 0 \in 0 .. Len(lines)
    BY <1>1
  <2>. QED BY <1>5, <2>1 DEF Placed
<1>7. ASSUME NEW k \in 1 .. Len(lines) PROVE g[1 .. k] = AddToSite(g[1 .. (k - 1)], lines[k])
  <2>1. k \in Nat /\ k \in 0 .. Len(lines) /\ k \in 1 .. k
    BY <1>1, <1>7
  <2>2. Max(1 .. k) \in 1 .. k /\ \A y \in 1 .. k : Max(1 .. k) >= y
    <3> DEFINE T == 1 .. k
    <3>1. IsFiniteSet(T) /\ T # {} /\ \A e \in T : e \in Int
      <4>1. IsFiniteSet(1 .. k)
        BY <2>1, FS_Interval
      <4>2. \A e \in 1 .. k : e \in Int
        OBVIOUS
      <4>. QED BY <2>1, <4>1, <4>2
    <3>2. Max(T) \in T /\ \A y \in T : Max(T) >= y
      <4>. HIDE DEF T
      <4>. QED BY <3>1, LargestIs
    <3>. QED BY <3>2
  <2>3. Max(1 .. k) = k
    BY <2>1, <2>2
  <2>4. (1 .. k) \ {k} = 1 .. (k - 1)
    BY <2>1
  <2>. QED BY <1>5, <2>1, <2>3, <2>4 DEF Placed
<1>. QED BY <1>4, <1>6, <1>7

-----------------------------------------------------------------------------
(* A card, and a line more.                                                *)

\* Lines as the aggregator sees them.
Dtos == {d \in [line : Lines, duid : Duids, order : Orders, invoiced : BOOLEAN,
                flag : Flags, days : Nat] : d.invoiced => d.flag = "GREEN"}

Cards(I) == [id : I, lines : Nat, invoiced : Nat, days : Nat, worst : Flags]

InvoicedOf(lines) == {line \in lines : line.invoiced}

\* The age of the oldest of some lines is the age of one, and no less than any.
LEMMA OldestIs ==
  ASSUME NEW lines, lines \subseteq Dtos, IsFiniteSet(lines), lines # {}
  PROVE  /\ OldestOf(lines) \in Nat
         /\ \E line \in lines : line.days = OldestOf(lines)
         /\ \A line \in lines : line.days <= OldestOf(lines)
<1> DEFINE f == [line \in lines |-> line.days]
<1>1. \A line \in lines : line.days \in Nat /\ f[line] = line.days /\ f[line] \in Int
  BY DEF Dtos
<1>2. \E x \in lines : \A y \in lines : f[x] >= f[y]
  <2>. HIDE DEF f
  <2>. QED BY <1>1, HasLargest
<1>3. \E d \in {line.days : line \in lines} : \A line \in lines : line.days <= d
  BY <1>1, <1>2
<1>4. /\ OldestOf(lines) \in {line.days : line \in lines}
      /\ \A line \in lines : line.days <= OldestOf(lines)
  BY <1>3 DEF OldestOf
<1>. QED BY <1>1, <1>4

LEMMA CardOfTyped ==
  ASSUME NEW lines, lines \subseteq Dtos, IsFiniteSet(lines), lines # {}, NEW id
  PROVE  CardOf(id, lines) \in Cards({id})
<1>1. OldestOf(lines) \in Nat /\ Cardinality(lines) \in Nat /\ WorstOf(lines) \in Flags
  BY OldestIs, FS_CardinalityType DEF WorstOf, Flags
<1>2. Cardinality(InvoicedOf(lines)) \in Nat
  <2>1. IsFiniteSet(InvoicedOf(lines))
    BY FS_Subset DEF InvoicedOf
  <2>. QED BY <2>1, FS_CardinalityType
<1>3. CardOf(id, lines) = [id |-> id, lines |-> Cardinality(lines),
                           invoiced |-> Cardinality(InvoicedOf(lines)),
                           days |-> OldestOf(lines), worst |-> WorstOf(lines)]
  BY DEF CardOf, InvoicedOf
<1>. QED BY <1>1, <1>2, <1>3 DEF Cards

\* The invoiced lines among one line more.
LEMMA InvoicedGrows ==
  ASSUME NEW lines, IsFiniteSet(lines), NEW line, line \notin lines, line.invoiced \in BOOLEAN
  PROVE  Cardinality(InvoicedOf(lines \cup {line}))
           = Cardinality(InvoicedOf(lines)) + (IF line.invoiced THEN 1 ELSE 0)
<1>1. IsFiniteSet(InvoicedOf(lines)) /\ Cardinality(InvoicedOf(lines)) \in Nat
  <2>1. InvoicedOf(lines) \subseteq lines
    BY DEF InvoicedOf
  <2>. QED BY <2>1, FS_Subset, FS_CardinalityType
<1>2. CASE line.invoiced
  <2>1. InvoicedOf(lines \cup {line}) = InvoicedOf(lines) \cup {line} /\ line \notin InvoicedOf(lines)
    BY <1>2 DEF InvoicedOf
  <2>. QED BY <1>1, <1>2, <2>1, FS_AddElement
<1>3. CASE ~ line.invoiced
  <2>1. InvoicedOf(lines \cup {line}) = InvoicedOf(lines)
    BY <1>3 DEF InvoicedOf
  <2>. QED BY <1>1, <1>3, <2>1
<1>. QED BY <1>2, <1>3

\* A card that says what some lines say says it after one line more.
LEMMA CardGrows ==
  ASSUME NEW lines, lines \subseteq Dtos, IsFiniteSet(lines), NEW line \in Dtos, line \notin lines,
         NEW id, NEW card, card = IF lines = {} THEN Card(id) ELSE CardOf(id, lines)
  PROVE  Counted(card, line) = CardOf(id, lines \cup {line})
<1> DEFINE all == lines \cup {line}
<1>1. all \subseteq Dtos /\ IsFiniteSet(all) /\ all # {} /\ Cardinality(all) = Cardinality(lines) + 1
  BY FS_AddElement
<1>2. line.days \in Nat /\ line.flag \in Flags /\ line.invoiced \in BOOLEAN
  BY DEF Dtos
<1>3. card \in Cards({id})
  <2>1. CASE lines = {}
    BY <2>1 DEF Card, Cards, Flags
  <2>2. CASE lines # {}
    BY <2>2, CardOfTyped
  <2>. QED BY <2>1, <2>2
<1>4. card.lines = Cardinality(lines) /\ card.worst = WorstOf(lines)
  BY FS_EmptySet DEF Card, CardOf, WorstOf
<1>5. Counted(card, line) = [id |-> id, lines |-> card.lines + 1,
                             invoiced |-> card.invoiced + (IF line.invoiced THEN 1 ELSE 0),
                             days |-> Larger(card.days, line.days),
                             worst |-> Escalated(card.worst, line.flag)]
  BY <1>3 DEF Cards, Counted
<1>6. Escalated(WorstOf(lines), line.flag) = WorstOf(all)
  BY <1>2 DEF Escalated, WorstOf, Flags
<1>7. Larger(card.days, line.days) = OldestOf(all)
  <2>1. /\ OldestOf(all) \in Nat /\ \E l \in all : l.days = OldestOf(all)
        /\ \A l \in all : l.days <= OldestOf(all)
    <3>. HIDE DEF all
    <3>. QED BY <1>1, OldestIs
  <2>2. CASE lines = {}
    <3>1. card.days = 0 /\ OldestOf(all) = line.days
      BY <2>1, <2>2 DEF Card
    <3>. QED BY <1>2, <3>1 DEF Larger
  <2>3. CASE lines # {}
    <3>1. card.days = OldestOf(lines)
      BY <2>3 DEF CardOf
    <3>2. /\ OldestOf(lines) \in Nat /\ \E l \in lines : l.days = OldestOf(lines)
          /\ \A l \in lines : l.days <= OldestOf(lines)
      BY <2>3, OldestIs
    <3>3. OldestOf(all) <= Larger(OldestOf(lines), line.days)
      <4>1. PICK l \in all : l.days = OldestOf(all)
        BY <2>1
      <4>2. l = line \/ l.days <= OldestOf(lines)
        BY <3>2, <4>1
      <4>. QED BY <1>2, <2>1, <3>2, <4>1, <4>2 DEF Larger
    <3>4. line.days <= OldestOf(all) /\ OldestOf(lines) <= OldestOf(all)
      BY <2>1, <3>2
    <3>. HIDE DEF all
    <3>. QED BY <1>2, <2>1, <3>1, <3>2, <3>3, <3>4 DEF Larger
  <2>. QED BY <2>2, <2>3
<1>8. card.invoiced + (IF line.invoiced THEN 1 ELSE 0) = Cardinality(InvoicedOf(all))
  <2>1. card.invoiced = Cardinality(InvoicedOf(lines))
    BY FS_EmptySet DEF Card, CardOf, InvoicedOf
  <2>. QED BY <1>2, <2>1, InvoicedGrows
<1>9. CardOf(id, all) = [id |-> id, lines |-> Cardinality(all),
                         invoiced |-> Cardinality(InvoicedOf(all)),
                         days |-> OldestOf(all), worst |-> WorstOf(all)]
  BY DEF CardOf, InvoicedOf
<1>. HIDE DEF all
<1>10. Counted(card, line) = CardOf(id, all)
  BY <1>1, <1>4, <1>5, <1>6, <1>7, <1>8, <1>9
<1>. QED BY <1>10 DEF all

\* There is a card for id.
Has(cards, id) == \E k \in DOMAIN cards : cards[k].id = id

\* all has the cards, and one for new's id.
Extended(S, cards, new, all) ==
  /\ all \in Seq(S) /\ DOMAIN cards \subseteq DOMAIN all
  /\ Len(all) = IF Has(cards, new.id) THEN Len(cards) ELSE Len(cards) + 1
  /\ \A k \in DOMAIN all :
       IF k \in DOMAIN cards THEN all[k] = cards[k] ELSE ~ Has(cards, new.id) /\ all[k] = new
  /\ Has(all, new.id)

\* With adds a card only if there is none for its id.
LEMMA WithIs ==
  ASSUME NEW S, NEW cards \in Seq(S), NEW new \in S
  PROVE  Extended(S, cards, new, With(cards, new))
<1>. USE DEF Has, Extended
<1>1. CASE \E k \in DOMAIN cards : cards[k].id = new.id
  BY <1>1 DEF With
<1>2. CASE ~ \E k \in DOMAIN cards : cards[k].id = new.id
  <2>1. With(cards, new) = Append(cards, new)
    BY <1>2 DEF With
  <2>2. /\ Append(cards, new) \in Seq(S) /\ Len(Append(cards, new)) = Len(cards) + 1 /\ Len(cards) \in Nat
        /\ \A k \in 1 .. Len(cards) : Append(cards, new)[k] = cards[k]
        /\ Append(cards, new)[Len(cards) + 1] = new
        /\ DOMAIN cards = 1 .. Len(cards) /\ DOMAIN Append(cards, new) = 1 .. (Len(cards) + 1)
    OBVIOUS
  <2>. QED BY <1>2, <2>1, <2>2
<1>. QED BY <1>1, <1>2

-----------------------------------------------------------------------------
(* The cards of a site's orders, and of the sites.                         *)

OrdersOf(lines) == {line.order : line \in lines}

\* One card for each order of the lines, saying what its lines say.
OrdersMatch(cards, lines) ==
  /\ cards \in Seq(Cards(Orders))
  /\ IsFiniteSet(OrdersOf(lines)) /\ Len(cards) = Cardinality(OrdersOf(lines))
  /\ \A k \in DOMAIN cards : cards[k] = CardOf(cards[k].id, OfOrder(cards[k].id, lines))
  /\ \A o : o \in OrdersOf(lines) <=> Has(cards, o)

\* AddToOrder keeps that up.
LEMMA OrderAdded ==
  ASSUME NEW lines, lines \subseteq Dtos, IsFiniteSet(lines), NEW line \in Dtos, line \notin lines,
         NEW cards, OrdersMatch(cards, lines)
  PROVE  OrdersMatch(AddToOrder(cards, line), lines \cup {line})
<1> DEFINE more == lines \cup {line}
           all == With(cards, Card(line.order))
           new == AddToOrder(cards, line)
<1>1. line.order \in Orders /\ Card(line.order) \in Cards(Orders) /\ Card(line.order).id = line.order
  BY DEF Dtos, Card, Cards, Flags
<1>2. /\ cards \in Seq(Cards(Orders)) /\ Len(cards) \in Nat
      /\ IsFiniteSet(OrdersOf(lines)) /\ Len(cards) = Cardinality(OrdersOf(lines))
      /\ \A k \in DOMAIN cards : cards[k] = CardOf(cards[k].id, OfOrder(cards[k].id, lines))
      /\ \A o : o \in OrdersOf(lines) <=> Has(cards, o)
  BY DEF OrdersMatch
<1>3. /\ all \in Seq(Cards(Orders)) /\ DOMAIN cards \subseteq DOMAIN all
      /\ Len(all) = IF Has(cards, line.order) THEN Len(cards) ELSE Len(cards) + 1
      /\ \A k \in DOMAIN all :
           IF k \in DOMAIN cards THEN all[k] = cards[k]
           ELSE ~ Has(cards, line.order) /\ all[k] = Card(line.order)
      /\ Has(all, line.order)
  BY <1>1, <1>2, WithIs DEF Extended
<1>4. new = [k \in DOMAIN all |-> IF all[k].id = line.order THEN Counted(all[k], line) ELSE all[k]]
  BY DEF AddToOrder
<1>. HIDE DEF all, new
<1>5. ASSUME NEW k \in DOMAIN all
      PROVE  /\ new[k].id = all[k].id /\ new[k] \in Cards(Orders)
             /\ new[k] = CardOf(new[k].id, OfOrder(new[k].id, more))
  <2>0. all[k].id \in Orders
    <3>1. all[k] \in Cards(Orders)
      BY <1>3
    <3>. QED BY <3>1 DEF Cards
  <2>1. CASE all[k].id = line.order
    <3> DEFINE own == OfOrder(line.order, lines)
    <3>1. own \subseteq Dtos /\ IsFiniteSet(own) /\ line \notin own
      BY FS_Subset DEF OfOrder
    <3>2. all[k] = IF own = {} THEN Card(line.order) ELSE CardOf(line.order, own)
      <4>1. own = {} <=> ~ Has(cards, line.order)
        BY <1>2 DEF OfOrder, OrdersOf
      <4>. QED BY <1>2, <1>3, <2>1, <4>1 DEF Has
    <3>3. Counted(all[k], line) = CardOf(line.order, own \cup {line})
      <4>. HIDE DEF own
      <4>. QED BY <3>1, <3>2, CardGrows
    <3>4. OfOrder(line.order, more) = own \cup {line}
      BY DEF OfOrder
    <3>5. CardOf(line.order, own \cup {line}) \in Cards(Orders)
      <4>1. CardOf(line.order, own \cup {line}) \in Cards({line.order})
        <5>. HIDE DEF own
        <5>. QED BY <3>1, FS_AddElement, CardOfTyped
      <4>. QED BY <1>1, <4>1 DEF Cards
    <3>6. new[k] = CardOf(line.order, OfOrder(line.order, more))
      BY <1>4, <2>1, <3>3, <3>4
    <3>7. new[k].id = line.order
      BY <3>6 DEF CardOf
    <3>. QED BY <1>1, <2>0, <2>1, <3>4, <3>5, <3>6, <3>7
  <2>2. CASE all[k].id # line.order
    <3>1. new[k] = all[k] /\ all[k] = cards[k] /\ k \in DOMAIN cards
      BY <1>1, <1>3, <1>4, <2>2
    <3>2. OfOrder(all[k].id, more) = OfOrder(all[k].id, lines)
      BY <2>2 DEF OfOrder
    <3>. QED BY <1>2, <1>3, <3>1, <3>2
  <2>. QED BY <2>1, <2>2
<1>6. /\ DOMAIN new = DOMAIN all /\ new \in Seq(Cards(Orders)) /\ Len(new) = Len(all)
  <2>1. DOMAIN all = 1 .. Len(all) /\ Len(all) \in Nat
    BY <1>3
  <2>2. DOMAIN new = 1 .. Len(all) /\ \A k \in 1 .. Len(all) : new[k] \in Cards(Orders)
    BY <1>4, <1>5, <2>1
  <2>3. new = [k \in 1 .. Len(all) |-> new[k]]
    BY <1>4, <2>1
  <2>. QED BY <2>1, <2>2, <2>3
<1>7. OrdersOf(more) = OrdersOf(lines) \cup {line.order}
  BY DEF OrdersOf
<1>8. IsFiniteSet(OrdersOf(more)) /\ Len(new) = Cardinality(OrdersOf(more))
  <2>1. Has(cards, line.order) <=> line.order \in OrdersOf(lines)
    BY <1>2
  <2>2. /\ IsFiniteSet(OrdersOf(lines) \cup {line.order})
        /\ Cardinality(OrdersOf(lines) \cup {line.order}) =
             IF line.order \in OrdersOf(lines) THEN Cardinality(OrdersOf(lines))
             ELSE Cardinality(OrdersOf(lines)) + 1
    BY <1>2, FS_AddElement
  <2>. QED BY <1>2, <1>3, <1>6, <1>7, <2>1, <2>2
<1>9. ASSUME NEW o PROVE o \in OrdersOf(more) <=> Has(new, o)
  <2>1. Has(new, o) <=> Has(all, o)
    BY <1>5, <1>6 DEF Has
  <2>2. Has(all, o) <=> Has(cards, o) \/ o = line.order
    BY <1>1, <1>3 DEF Has
  <2>. QED BY <1>2, <1>7, <2>1, <2>2
<1>10. \A k \in DOMAIN new : new[k] = CardOf(new[k].id, OfOrder(new[k].id, more))
  BY <1>5, <1>6
<1>11. OrdersMatch(new, more)
  <2>. HIDE DEF more
  <2>. QED BY <1>6, <1>8, <1>9, <1>10 DEF OrdersMatch
<1>. QED BY <1>11 DEF new

-----------------------------------------------------------------------------
(* The cards of the sites.                                                 *)

SitesOf(lines) == {line.duid : line \in lines}

SiteCards == [site : Cards(Duids), id : Duids, orders : Seq(Cards(Orders))]

SiteMatches(c, lines) ==
  /\ c.site = CardOf(c.id, OfSite(c.id, lines))
  /\ OrdersMatch(c.orders, OfSite(c.id, lines))

\* One card for each site of the lines, saying what its lines say.
SitesMatch(sites, lines) ==
  /\ sites \in Seq(SiteCards)
  /\ IsFiniteSet(SitesOf(lines)) /\ Len(sites) = Cardinality(SitesOf(lines))
  /\ \A k \in DOMAIN sites : SiteMatches(sites[k], lines)
  /\ \A d : d \in SitesOf(lines) <=> Has(sites, d)

LEMMA NoOrders == OrdersMatch(<<>>, {})
<1>1. OrdersOf({}) = {}
  BY DEF OrdersOf
<1>2. <<>> \in Seq(Cards(Orders)) /\ Len(<<>>) = 0 /\ DOMAIN <<>> = {}
  OBVIOUS
<1>. QED BY <1>1, <1>2, FS_EmptySet DEF OrdersMatch, Has

LEMMA NoSites == SitesMatch(<<>>, {})
<1>1. SitesOf({}) = {}
  BY DEF SitesOf
<1>2. <<>> \in Seq(SiteCards) /\ Len(<<>>) = 0 /\ DOMAIN <<>> = {}
  OBVIOUS
<1>. QED BY <1>1, <1>2, FS_EmptySet DEF SitesMatch, Has

\* What a site of a line becomes.
LEMMA SiteGrows ==
  ASSUME NEW lines, lines \subseteq Dtos, IsFiniteSet(lines), NEW line \in Dtos, line \notin lines,
         NEW c \in SiteCards, c.id = line.duid,
         c.site = IF OfSite(c.id, lines) = {} THEN Card(c.id) ELSE CardOf(c.id, OfSite(c.id, lines)),
         OrdersMatch(c.orders, OfSite(c.id, lines)),
         NEW d, d = [site |-> Counted(c.site, line), id |-> line.duid, orders |-> AddToOrder(c.orders, line)]
  PROVE  d \in SiteCards /\ d.id = c.id /\ SiteMatches(d, lines \cup {line})
<1> DEFINE own == OfSite(c.id, lines)
           more == OfSite(c.id, lines \cup {line})
<1>1. own \subseteq Dtos /\ IsFiniteSet(own) /\ line \notin own /\ more = own \cup {line}
  BY FS_Subset DEF OfSite
<1>2. more \subseteq Dtos /\ IsFiniteSet(more) /\ more # {}
  BY <1>1, FS_AddElement
<1>3. d = [site |-> Counted(c.site, line), id |-> c.id, orders |-> AddToOrder(c.orders, line)]
  OBVIOUS
<1>4. Counted(c.site, line) = CardOf(c.id, more)
  <2>. HIDE DEF own, more
  <2>1. c.site = IF own = {} THEN Card(c.id) ELSE CardOf(c.id, own)
    BY DEF own
  <2>. QED BY <1>1, <2>1, CardGrows
<1>5. OrdersMatch(AddToOrder(c.orders, line), more)
  <2>1. OrdersMatch(c.orders, own)
    OBVIOUS
  <2>. HIDE DEF own, more
  <2>. QED BY <1>1, <2>1, OrderAdded
<1>6. CardOf(c.id, more) \in Cards({c.id})
  <2>. HIDE DEF more
  <2>. QED BY <1>2, CardOfTyped
<1>7. AddToOrder(c.orders, line) \in Seq(Cards(Orders))
  <2>. HIDE DEF more
  <2>. QED BY <1>5 DEF OrdersMatch
<1>8. c.id \in Duids
  BY DEF SiteCards
<1>9. CardOf(c.id, more) \in Cards(Duids)
  <2>. HIDE DEF more
  <2>. QED BY <1>6, <1>8 DEF Cards
<1>10. d.id = c.id /\ d.site = CardOf(c.id, more) /\ d.orders = AddToOrder(c.orders, line)
  <2>. HIDE DEF more
  <2>. QED BY <1>3, <1>4
<1>11. d \in SiteCards
  <2>. HIDE DEF more
  <2>. QED BY <1>3, <1>4, <1>7, <1>8, <1>9 DEF SiteCards
<1>. QED BY <1>5, <1>10, <1>11 DEF SiteMatches

\* AddToSite keeps that up.
LEMMA SiteAdded ==
  ASSUME NEW lines, lines \subseteq Dtos, IsFiniteSet(lines), NEW line \in Dtos, line \notin lines,
         NEW sites, SitesMatch(sites, lines)
  PROVE  SitesMatch(AddToSite(sites, line), lines \cup {line})
<1> DEFINE more == lines \cup {line}
           first == [site |-> Card(line.duid), id |-> line.duid, orders |-> <<>>]
           all == With(sites, first)
           new == AddToSite(sites, line)
<1>1. line.duid \in Duids /\ first \in SiteCards /\ first.id = line.duid
      /\ first.site = Card(line.duid) /\ first.orders = <<>>
  <2>1. line.duid \in Duids /\ Card(line.duid) \in Cards(Duids)
    BY DEF Dtos, Card, Cards, Flags
  <2>2. <<>> \in Seq(Cards(Orders))
    OBVIOUS
  <2>. QED BY <2>1, <2>2 DEF SiteCards
<1>2. /\ sites \in Seq(SiteCards) /\ Len(sites) \in Nat
      /\ IsFiniteSet(SitesOf(lines)) /\ Len(sites) = Cardinality(SitesOf(lines))
      /\ \A k \in DOMAIN sites : SiteMatches(sites[k], lines)
      /\ \A d : d \in SitesOf(lines) <=> Has(sites, d)
  BY DEF SitesMatch
<1>4. new = [k \in DOMAIN all |->
               IF all[k].id = line.duid
               THEN [site |-> Counted(all[k].site, line), id |-> line.duid,
                     orders |-> AddToOrder(all[k].orders, line)]
               ELSE all[k]]
  BY DEF AddToSite
<1>. HIDE DEF first
<1>3. /\ all \in Seq(SiteCards) /\ DOMAIN sites \subseteq DOMAIN all
      /\ Len(all) = IF Has(sites, line.duid) THEN Len(sites) ELSE Len(sites) + 1
      /\ \A k \in DOMAIN all :
           IF k \in DOMAIN sites THEN all[k] = sites[k]
           ELSE ~ Has(sites, line.duid) /\ all[k] = first
      /\ Has(all, line.duid)
  BY <1>1, <1>2, WithIs DEF Extended
<1>. HIDE DEF all, new
<1>5. ASSUME NEW k \in DOMAIN all
      PROVE  new[k].id = all[k].id /\ new[k] \in SiteCards /\ SiteMatches(new[k], more)
  <2>0. all[k] \in SiteCards
    BY <1>3
  <2>1. CASE all[k].id = line.duid
    <3> DEFINE own == OfSite(line.duid, lines)
    <3>1. own = {} <=> ~ Has(sites, line.duid)
      BY <1>2 DEF OfSite, SitesOf
    <3>4. new[k] = [site |-> Counted(all[k].site, line), id |-> line.duid,
                     orders |-> AddToOrder(all[k].orders, line)]
      BY <1>4, <2>1
    <3>2. CASE k \in DOMAIN sites
      <4>1. all[k] = sites[k] /\ SiteMatches(all[k], lines) /\ own # {}
        BY <1>2, <1>3, <2>1, <3>1, <3>2 DEF Has
      <4>2. OrdersMatch(all[k].orders, OfSite(all[k].id, lines))
            /\ all[k].site = CardOf(all[k].id, OfSite(all[k].id, lines))
        BY <4>1 DEF SiteMatches
      <4>. QED BY <4>1, <4>2, <3>4, <2>0, <2>1, SiteGrows
    <3>3. CASE k \notin DOMAIN sites
      <4>1. all[k] = first /\ own = {}
        BY <1>3, <3>1, <3>3
      <4>2. OrdersMatch(all[k].orders, OfSite(all[k].id, lines)) /\ all[k].site = Card(all[k].id)
        BY <4>1, <1>1, <2>1, NoOrders
      <4>. QED BY <4>1, <4>2, <3>4, <2>0, <2>1, SiteGrows
    <3>. QED BY <3>2, <3>3
  <2>2. CASE all[k].id # line.duid
    <3>1. new[k] = all[k] /\ all[k] = sites[k] /\ k \in DOMAIN sites
      BY <1>1, <1>3, <1>4, <2>2
    <3>2. OfSite(all[k].id, more) = OfSite(all[k].id, lines)
      BY <2>2 DEF OfSite
    <3>. QED BY <1>2, <2>0, <3>1, <3>2 DEF SiteMatches
  <2>. QED BY <2>1, <2>2
<1>6. /\ DOMAIN new = DOMAIN all /\ new \in Seq(SiteCards) /\ Len(new) = Len(all)
  <2>1. DOMAIN all = 1 .. Len(all) /\ Len(all) \in Nat
    BY <1>3
  <2>2. DOMAIN new = 1 .. Len(all) /\ \A k \in 1 .. Len(all) : new[k] \in SiteCards
    BY <1>4, <1>5, <2>1
  <2>3. new = [k \in 1 .. Len(all) |-> new[k]]
    BY <1>4, <2>1
  <2>. QED BY <2>1, <2>2, <2>3
<1>7. SitesOf(more) = SitesOf(lines) \cup {line.duid}
  BY DEF SitesOf
<1>8. IsFiniteSet(SitesOf(more)) /\ Len(new) = Cardinality(SitesOf(more))
  <2>1. Has(sites, line.duid) <=> line.duid \in SitesOf(lines)
    BY <1>2
  <2>2. /\ IsFiniteSet(SitesOf(lines) \cup {line.duid})
        /\ Cardinality(SitesOf(lines) \cup {line.duid}) =
             IF line.duid \in SitesOf(lines) THEN Cardinality(SitesOf(lines))
             ELSE Cardinality(SitesOf(lines)) + 1
    BY <1>2, FS_AddElement
  <2>. QED BY <1>2, <1>3, <1>6, <1>7, <2>1, <2>2
<1>9. ASSUME NEW o PROVE o \in SitesOf(more) <=> Has(new, o)
  <2>1. Has(new, o) <=> Has(all, o)
    BY <1>5, <1>6 DEF Has
  <2>2. Has(all, o) <=> Has(sites, o) \/ o = line.duid
    BY <1>1, <1>3 DEF Has
  <2>. QED BY <1>2, <1>7, <2>1, <2>2
<1>10. \A k \in DOMAIN new : SiteMatches(new[k], more)
  BY <1>5, <1>6
<1>11. SitesMatch(new, more)
  <2>. HIDE DEF more
  <2>. QED BY <1>6, <1>8, <1>9, <1>10 DEF SitesMatch
<1>. QED BY <1>11 DEF new

\* After all lines there is a card for every site and order they have.
LEMMA SitesOfLines ==
  ASSUME NEW lines \in Seq(Dtos), \A i, j \in DOMAIN lines : i # j => lines[i] # lines[j]
  PROVE  SitesMatch(Sites(lines), ToSet(lines))
<1> DEFINE n == Len(lines)
           Upto(k) == {lines[i] : i \in 1 .. k}
<1>1. n \in Nat /\ DOMAIN lines = 1 .. n /\ \A i \in 1 .. n : lines[i] \in Dtos
  OBVIOUS
<1>2. PICK g : /\ Sites(lines) = g[1 .. n] /\ g[1 .. 0] = <<>>
               /\ \A k \in 1 .. n : g[1 .. k] = AddToSite(g[1 .. (k - 1)], lines[k])
  BY SitesByPrefix
<1> DEFINE Bad == {k \in 0 .. n : ~ SitesMatch(g[1 .. k], Upto(k))}
<1>3. Bad = {}
  <2>1. SUFFICES ASSUME Bad # {} PROVE FALSE
    OBVIOUS
  <2>2. PICK k \in Bad : \A j \in Bad : k <= j
    <3> DEFINE f == [j \in Bad |-> - j]
    <3>1. IsFiniteSet(Bad)
      <4>1. IsFiniteSet(0 .. n) /\ Bad \in SUBSET (0 .. n)
        BY <1>1, FS_Interval
      <4>. HIDE DEF Bad
      <4>. QED BY <4>1, FS_Subset
    <3>2. \A j \in Bad : j \in Int
      BY <1>1
    <3>. HIDE DEF Bad
    <3>3. \E x \in Bad : \A y \in Bad : f[x] >= f[y]
      <4>1. \A j \in Bad : f[j] \in Int
        BY <3>2
      <4>. HIDE DEF f
      <4>. QED BY <2>1, <3>1, <4>1, HasLargest
    <3>. QED BY <3>2, <3>3
  <2>3. k \in 0 .. n /\ ~ SitesMatch(g[1 .. k], Upto(k))
    OBVIOUS
  <2>4. k # 0
    <3>1. SUFFICES ASSUME k = 0 PROVE FALSE
      OBVIOUS
    <3>2. Upto(k) = {}
      BY <3>1
    <3>. HIDE DEF Upto
    <3>. QED BY <1>2, <2>3, <3>1, <3>2, NoSites
  <2>5. k \in 1 .. n /\ k - 1 \in 0 .. n /\ k \in Int
    BY <1>1, <2>3, <2>4
  <2>6. SitesMatch(g[1 .. (k - 1)], Upto(k - 1))
    <3>1. k - 1 \notin Bad
      <4>. HIDE DEF Bad
      <4>. QED BY <2>2, <2>5
    <3>. QED BY <2>5, <3>1
  <2>7. Upto(k - 1) \subseteq Dtos /\ lines[k] \in Dtos /\ lines[k] \notin Upto(k - 1)
    BY <1>1, <2>5
  <2>8. IsFiniteSet(Upto(k - 1))
    <3> DEFINE f == [i \in 1 .. (k - 1) |-> lines[i]]
               U == Upto(k - 1)
    <3>1. f \in Surjection(1 .. (k - 1), U)
      BY DEF Surjection
    <3>2. IsFiniteSet(1 .. (k - 1))
      BY <2>5, FS_Interval
    <3>3. IsFiniteSet(U)
      <4>. HIDE DEF f, U
      <4>. QED BY <3>1, <3>2, FS_Surjection
    <3>. QED BY <3>3
  <2>9. Upto(k) = Upto(k - 1) \cup {lines[k]}
    BY <1>1, <2>5
  <2>. HIDE DEF Upto, Bad
  <2>10. SitesMatch(AddToSite(g[1 .. (k - 1)], lines[k]), Upto(k))
    BY <2>6, <2>7, <2>8, <2>9, SiteAdded
  <2>. QED BY <1>2, <2>3, <2>5, <2>10
<1>4. SitesMatch(g[1 .. n], Upto(n))
  <2>1. n \in 0 .. n
    BY <1>1
  <2>2. n \notin Bad
    <3>. HIDE DEF Bad
    <3>. QED BY <1>3
  <2>. QED BY <2>1, <2>2
<1>5. Upto(n) = ToSet(lines)
  BY <1>1 DEF ToSet
<1>. HIDE DEF Upto
<1>. QED BY <1>2, <1>4, <1>5

-----------------------------------------------------------------------------
(* Sorting.                                                                *)

\* NotAfter is a total order of the positions.
LEMMA NotAfterOrders ==
  ASSUME NEW sites \in Seq(SiteCards)
  PROVE  \A i, j, k \in DOMAIN sites :
           /\ sites[i].site.days \in Nat
           /\ NotAfter(sites, i, i)
           /\ NotAfter(sites, i, j) \/ NotAfter(sites, j, i)
           /\ NotAfter(sites, i, j) /\ NotAfter(sites, j, i) => i = j
           /\ NotAfter(sites, i, j) /\ NotAfter(sites, j, k) => NotAfter(sites, i, k)
<1>1. ASSUME NEW i \in DOMAIN sites PROVE sites[i].site.days \in Nat /\ i \in Int
  <2>1. sites[i] \in SiteCards /\ i \in Int
    OBVIOUS
  <2>. QED BY <2>1 DEF SiteCards, Cards
<1>. QED BY <1>1 DEF NotAfter

LEMMA RankTyped ==
  ASSUME NEW sites \in Seq(SiteCards), NEW P \in SUBSET (DOMAIN sites), IsFiniteSet(P), NEW k \in P
  PROVE  Rank(sites, P, k) \in 1 .. Cardinality(P)
<1> DEFINE S == {j \in P : NotAfter(sites, j, k)}
<1>1. S \in SUBSET P /\ k \in S
  BY NotAfterOrders
<1>2. Rank(sites, P, k) = Cardinality(S)
  BY DEF Rank
<1>. HIDE DEF S
<1>3. IsFiniteSet(S) /\ Cardinality(S) <= Cardinality(P) /\ Cardinality(S) \in Nat /\ Cardinality(P) \in Nat
  BY <1>1, FS_Subset, FS_CardinalityType
<1>4. Cardinality(S) # 0
  BY <1>1, <1>3, FS_EmptySet
<1>. QED BY <1>2, <1>3, <1>4

\* An earlier position has a smaller rank.
LEMMA RankGrows ==
  ASSUME NEW sites \in Seq(SiteCards), NEW P \in SUBSET (DOMAIN sites), IsFiniteSet(P),
         NEW j \in P, NEW k \in P, j # k, NotAfter(sites, j, k)
  PROVE  Rank(sites, P, j) < Rank(sites, P, k)
<1> DEFINE S == {i \in P : NotAfter(sites, i, j)}
           T == {i \in P : NotAfter(sites, i, k)}
<1>1. S \in SUBSET T /\ T \in SUBSET P /\ k \in T /\ k \notin S
  BY NotAfterOrders
<1>2. Rank(sites, P, j) = Cardinality(S) /\ Rank(sites, P, k) = Cardinality(T)
  BY DEF Rank
<1>. HIDE DEF S, T
<1>3. IsFiniteSet(T)
  BY <1>1, FS_Subset
<1>4. /\ IsFiniteSet(S) /\ Cardinality(S) <= Cardinality(T)
      /\ Cardinality(S) # Cardinality(T)
  BY <1>1, <1>3, FS_Subset
<1>5. Cardinality(S) \in Nat /\ Cardinality(T) \in Nat
  BY <1>3, <1>4, FS_CardinalityType
<1>. QED BY <1>2, <1>4, <1>5

\* A sorted list has each of the positions once, and none before an older one.
Sorts(sites, P, p) ==
  /\ p \in [1 .. Cardinality(P) -> P]
  /\ \A k \in P : \E n \in 1 .. Cardinality(P) : p[n] = k
  /\ \A m, n \in 1 .. Cardinality(P) :
       m < n => p[m] # p[n] /\ sites[p[m]].site.days >= sites[p[n]].site.days

\* Each rank belongs to one position, so that ByAge sorts.
LEMMA ByAgeSorts ==
  ASSUME NEW sites \in Seq(SiteCards), NEW P \in SUBSET (DOMAIN sites), IsFiniteSet(P)
  PROVE  \E p : Sorts(sites, P, p) /\ ByAge(sites, P) = [n \in 1 .. Cardinality(P) |-> sites[p[n]]]
<1> DEFINE N == 1 .. Cardinality(P)
           r == [k \in P |-> Rank(sites, P, k)]
           p == [n \in N |-> CHOOSE k \in P : Rank(sites, P, k) = n]
<1>1. Cardinality(P) \in Nat /\ IsFiniteSet(N) /\ Cardinality(N) = Cardinality(P)
  BY FS_CardinalityType, FS_Interval
<1>2. \A k \in P : Rank(sites, P, k) \in N
  BY RankTyped
<1>3. \A j, k \in P : Rank(sites, P, j) = Rank(sites, P, k) => j = k
  <2>. SUFFICES ASSUME NEW j \in P, NEW k \in P, j # k
                PROVE  Rank(sites, P, j) # Rank(sites, P, k)
    OBVIOUS
  <2>1. NotAfter(sites, j, k) \/ NotAfter(sites, k, j)
    BY NotAfterOrders
  <2>2. Rank(sites, P, j) \in Int /\ Rank(sites, P, k) \in Int
    BY <1>1, <1>2
  <2>. QED BY <2>1, <2>2, RankGrows
<1>4. \A n \in N : \E k \in P : Rank(sites, P, k) = n
  <2>1. r \in Injection(P, N)
    BY <1>2, <1>3 DEF Injection, IsInjective
  <2>2. r \in Surjection(P, N)
    <3>. HIDE DEF N, r
    <3>. QED BY <1>1, <2>1, FS_Injection
  <2>. QED BY <2>2 DEF Surjection
<1>5. \A n \in N : p[n] \in P /\ Rank(sites, P, p[n]) = n
  BY <1>4
<1>6. \A k \in P : p[Rank(sites, P, k)] = k
  BY <1>2, <1>3, <1>5
<1>7. ASSUME NEW m \in N, NEW n \in N, m < n
      PROVE  p[m] # p[n] /\ sites[p[m]].site.days >= sites[p[n]].site.days
  <2>. HIDE DEF p
  <2>1. p[m] \in P /\ p[n] \in P /\ Rank(sites, P, p[m]) = m /\ Rank(sites, P, p[n]) = n
    BY <1>5
  <2>2. m \in Int /\ n \in Int
    BY <1>1
  <2>3. p[m] # p[n]
    BY <1>7, <2>1, <2>2
  <2>4. ~ NotAfter(sites, p[n], p[m])
    BY <1>7, <2>1, <2>2, <2>3, RankGrows
  <2>5. NotAfter(sites, p[m], p[n])
    BY <2>1, <2>4, NotAfterOrders
  <2>6. sites[p[m]].site.days \in Nat /\ sites[p[n]].site.days \in Nat
    BY <2>1, NotAfterOrders
  <2>. QED BY <2>3, <2>5, <2>6 DEF NotAfter
<1>8. Sorts(sites, P, p)
  <2>1. p \in [N -> P]
    BY <1>5
  <2>2. \A k \in P : \E n \in N : p[n] = k
    <3>. HIDE DEF p, N
    <3>. QED BY <1>2, <1>6
  <2>. HIDE DEF p
  <2>. QED BY <1>7, <2>1, <2>2 DEF Sorts
<1>9. ByAge(sites, P) = [n \in N |-> sites[p[n]]]
  BY DEF ByAge
<1>. QED
  <2>. HIDE DEF p
  <2>. QED BY <1>8, <1>9

-----------------------------------------------------------------------------
(* What the dashboard answers.                                             *)

\* Counting positions is counting what is at them, if that differs.
LEMMA CountedAt ==
  ASSUME NEW P, IsFiniteSet(P), NEW f, f = [k \in P |-> f[k]], \A j, k \in P : f[j] = f[k] => j = k,
         NEW T, \A x : x \in T <=> \E k \in P : f[k] = x
  PROVE  IsFiniteSet(T) /\ Cardinality(T) = Cardinality(P)
<1> f \in Injection(P, T) /\ f \in Surjection(P, T)
  BY DEF Injection, IsInjective, Surjection
<1>. QED BY FS_Surjection

\* No two cards are of one site.
LEMMA DistinctSites ==
  ASSUME NEW lines, NEW sites, SitesMatch(sites, lines)
  PROVE  \A j, k \in DOMAIN sites : sites[j].id = sites[k].id => j = k
<1> DEFINE P == DOMAIN sites
           T == SitesOf(lines)
           f == [k \in P |-> sites[k].id]
<1>1. /\ sites \in Seq(SiteCards) /\ Len(sites) = Cardinality(T)
      /\ \A d : d \in T <=> Has(sites, d)
  BY DEF SitesMatch
<1>2. IsFiniteSet(P) /\ Cardinality(P) = Cardinality(T)
  <2>1. P = 1 .. Len(sites) /\ Len(sites) \in Nat
    BY <1>1
  <2>. QED BY <1>1, <2>1, FS_Interval
<1>3. f \in Surjection(P, T)
  BY <1>1 DEF Has, Surjection
<1>4. f \in Injection(P, T)
  <2>. HIDE DEF P, T, f
  <2>. QED BY <1>2, <1>3, FS_SurjSameCardinalityImpliesInj
<1>. QED BY <1>4 DEF Injection, IsInjective

\* Cards in any order agree with the lines.
LEMMA CardsAgreeInAnyOrder ==
  ASSUME NEW lines, NEW sites, SitesMatch(sites, lines),
         NEW list, list \in Seq(SiteCards), Len(list) = Len(sites),
         \A n \in DOMAIN list : \E k \in DOMAIN sites : list[n] = sites[k],
         \A k \in DOMAIN sites : \E n \in DOMAIN list : list[n] = sites[k]
  PROVE  CardsAgree(list, lines)
<1>1. Len(list) = Cardinality({line.duid : line \in lines})
  BY DEF SitesMatch, SitesOf
<1>2. {c.id : c \in ToSet(list)} = SitesOf(lines)
  <2>1. \A d : d \in SitesOf(lines) <=> \E k \in DOMAIN sites : sites[k].id = d
    BY DEF SitesMatch, Has
  <2>2. \A c : c \in ToSet(list) <=> \E k \in DOMAIN sites : sites[k] = c
    BY DEF ToSet
  <2> DEFINE ids == {c.id : c \in ToSet(list)}
  <2>3. \A d : d \in ids <=> \E c : c \in ToSet(list) /\ c.id = d
    OBVIOUS
  <2>4. \A d : d \in ids <=> \E k \in DOMAIN sites : sites[k].id = d
    <3>. HIDE DEF ids
    <3>. QED BY <2>2, <2>3
  <2>. HIDE DEF ids
  <2>5. ids = SitesOf(lines)
    BY <2>1, <2>4
  <2>. QED BY <2>5 DEF ids
<1>3. ASSUME NEW c \in ToSet(list), NEW own, own = OfSite(c.id, lines)
      PROVE  /\ c.site = CardOf(c.id, own)
             /\ Len(c.orders) = Cardinality({line.order : line \in own})
             /\ {o.id : o \in ToSet(c.orders)} = {line.order : line \in own}
             /\ \A o \in ToSet(c.orders) : o = CardOf(o.id, OfOrder(o.id, own))
  <2>1. SiteMatches(c, lines)
    BY <1>3 DEF SitesMatch, ToSet
  <2>2. c.site = CardOf(c.id, own) /\ OrdersMatch(c.orders, own)
    BY <1>3, <2>1 DEF SiteMatches
  <2>3. \A d : d \in {line.order : line \in own} <=> \E k \in DOMAIN c.orders : c.orders[k].id = d
    BY <2>2 DEF OrdersMatch, OrdersOf, Has
  <2>4. {o.id : o \in ToSet(c.orders)} = {line.order : line \in own}
    BY <2>3 DEF ToSet
  <2>5. Len(c.orders) = Cardinality({line.order : line \in own})
    BY <2>2 DEF OrdersMatch, OrdersOf
  <2>6. \A o \in ToSet(c.orders) : o = CardOf(o.id, OfOrder(o.id, own))
    BY <2>2 DEF OrdersMatch, ToSet
  <2>. QED BY <2>2, <2>4, <2>5, <2>6
<1>. QED BY <1>1, <1>2, <1>3 DEF CardsAgree, SitesOf

\* A list of the sites at the positions P, the oldest first.
Lists(sites, P, list, p) ==
  /\ list \in Seq(SiteCards) /\ Len(list) = Cardinality(P) /\ Len(list) \in Nat
  /\ DOMAIN list = 1 .. Cardinality(P)
  /\ \A n \in DOMAIN list : p[n] \in P /\ list[n] = sites[p[n]]
  /\ \A k \in P : \E n \in DOMAIN list : p[n] = k
  /\ \A m, n \in DOMAIN list : m < n => list[m].site.days >= list[n].site.days

LEMMA ByAgeLists ==
  ASSUME NEW sites \in Seq(SiteCards), NEW P \in SUBSET (DOMAIN sites), IsFiniteSet(P)
  PROVE  \E p : Lists(sites, P, ByAge(sites, P), p)
<1> DEFINE N == 1 .. Cardinality(P)
           list == ByAge(sites, P)
<1>1. PICK p : Sorts(sites, P, p) /\ list = [n \in N |-> sites[p[n]]]
  BY ByAgeSorts
<1>2. Cardinality(P) \in Nat
  BY FS_CardinalityType
<1>3. \A n \in N : p[n] \in P /\ sites[p[n]] \in SiteCards
  BY <1>1 DEF Sorts
<1>. HIDE DEF list
<1>4. list \in Seq(SiteCards) /\ Len(list) = Cardinality(P) /\ DOMAIN list = N
  BY <1>1, <1>2, <1>3
<1>5. \A m, n \in N : m < n => sites[p[m]].site.days >= sites[p[n]].site.days
  BY <1>1 DEF Sorts
<1>6. \A k \in P : \E n \in N : p[n] = k
  BY <1>1 DEF Sorts
<1>7. \A n \in N : list[n] = sites[p[n]]
  BY <1>1
<1>. HIDE DEF N
<1>8. Lists(sites, P, list, p)
  <2>1. DOMAIN list = 1 .. Cardinality(P)
    BY <1>4 DEF N
  <2>. QED BY <1>2, <1>3, <1>4, <1>5, <1>6, <1>7, <2>1 DEF Lists
<1>. QED BY <1>8 DEF list

\* The answer to lines in any order.
LEMMA AggregateAgrees ==
  ASSUME NEW lines \in Seq(Dtos), \A i, j \in DOMAIN lines : i # j => lines[i] # lines[j]
  PROVE  Agrees(Aggregate(lines), ToSet(lines))
<1> DEFINE all == ToSet(lines)
           sites == Sites(lines)
           P == DOMAIN sites
           C == {k \in DOMAIN sites : sites[k].site.worst # "GREEN"}
           duids == ByAge(sites, P)
           listed == ByAge(sites, C)
           most == Smaller(TopProjects, Len(listed))
           top == SubSeq(listed, 1, most)
           reds == {k \in DOMAIN sites : sites[k].site.worst = "RED"}
           answer == Aggregate(lines)
           critical == {c \in ToSet(duids) : c.site.worst # "GREEN"}
           shown == ToSet(top)
<1>1. answer.duids = duids /\ answer.topCritical = top /\ answer.criticalAged = Cardinality(reds)
  BY DEF Aggregate
<1>2. SitesMatch(sites, all)
  BY SitesOfLines
<1>3. /\ sites \in Seq(SiteCards) /\ Len(sites) = Cardinality(SitesOf(all)) /\ Len(sites) \in Nat
      /\ \A k \in DOMAIN sites : SiteMatches(sites[k], all)
      /\ \A d : d \in SitesOf(all) <=> Has(sites, d)
  <2>. HIDE DEF sites, all
  <2>. QED BY <1>2 DEF SitesMatch
<1>4. \A j, k \in DOMAIN sites : sites[j].id = sites[k].id => j = k
  <2>. HIDE DEF sites, all
  <2>. QED BY <1>2, DistinctSites
<1>. HIDE DEF sites, all
<1>5. IsFiniteSet(P) /\ Cardinality(P) = Len(sites) /\ P \in SUBSET (DOMAIN sites) /\ C \in SUBSET (DOMAIN sites)
  <2>1. P = 1 .. Len(sites)
    BY <1>3
  <2>2. IsFiniteSet(1 .. Len(sites)) /\ Cardinality(1 .. Len(sites)) = Len(sites)
    BY <1>3, FS_Interval
  <2>. QED BY <2>1, <2>2
<1>6. IsFiniteSet(C)
  <2>. HIDE DEF C
  <2>. QED BY <1>5, FS_Subset
<1>7. PICK p : Lists(sites, P, duids, p)
  <2>. HIDE DEF C
  <2>. QED BY <1>3, <1>5, ByAgeLists
<1>8. PICK q : Lists(sites, C, listed, q)
  <2>. HIDE DEF C
  <2>. QED BY <1>3, <1>5, <1>6, ByAgeLists
<1>. HIDE DEF P, C, duids, listed
<1>9. /\ duids \in Seq(SiteCards) /\ Len(duids) = Cardinality(P) /\ DOMAIN duids = 1 .. Cardinality(P)
      /\ \A n \in DOMAIN duids : p[n] \in P /\ duids[n] = sites[p[n]]
      /\ \A m, n \in DOMAIN duids : m < n => duids[m].site.days >= duids[n].site.days
  BY <1>7 DEF Lists
<1>10. /\ listed \in Seq(SiteCards) /\ Len(listed) = Cardinality(C) /\ Len(listed) \in Nat
       /\ DOMAIN listed = 1 .. Cardinality(C)
       /\ \A n \in DOMAIN listed : q[n] \in C /\ listed[n] = sites[q[n]]
       /\ \A m, n \in DOMAIN listed : m < n => listed[m].site.days >= listed[n].site.days
  BY <1>8 DEF Lists
<1>11. /\ \A k \in P : \E n \in 1 .. Cardinality(P) : p[n] = k
       /\ \A k \in C : \E n \in 1 .. Cardinality(C) : q[n] = k
  BY <1>7, <1>8 DEF Lists
<1>12. most \in Nat /\ most <= Len(listed) /\ most = Smaller(TopProjects, Cardinality(C))
  BY <1>10, DashboardAssumption DEF Smaller
<1>. HIDE DEF most
<1>13. Len(top) = most /\ DOMAIN top = 1 .. most /\ \A n \in 1 .. most : top[n] = listed[n]
  <2>1. /\ top \in Seq(SiteCards) /\ Len(top) = IF 1 <= most THEN most - 1 + 1 ELSE 0
        /\ \A n \in 1 .. most - 1 + 1 : top[n] = listed[1 + n - 1]
    BY <1>10, <1>12, SubSeqProperties
  <2>. HIDE DEF top
  <2>2. most - 1 + 1 = most /\ \A n \in 1 .. most : 1 + n - 1 = n
    BY <1>12
  <2>. QED BY <1>12, <2>1, <2>2
<1>. HIDE DEF top
<1>14. CardsAgree(duids, all)
  <2>1. \A n \in DOMAIN duids : \E k \in DOMAIN sites : duids[n] = sites[k]
    BY <1>9 DEF P
  <2>2. \A k \in DOMAIN sites : \E n \in DOMAIN duids : duids[n] = sites[k]
    BY <1>9, <1>11 DEF P
  <2>3. duids \in Seq(SiteCards) /\ Len(duids) = Len(sites)
    BY <1>5, <1>9
  <2>. QED BY <1>2, <2>1, <2>2, <2>3, CardsAgreeInAnyOrder
<1>15. \A x : x \in critical <=> \E k \in C : sites[k] = x
  <2>1. \A x : x \in ToSet(duids) <=> \E k \in P : sites[k] = x
    BY <1>9, <1>11 DEF ToSet
  <2>. QED BY <2>1 DEF C, P
<1>16. \A x : x \in shown <=> \E n \in 1 .. most : sites[q[n]] = x
  BY <1>10, <1>12, <1>13 DEF ToSet
<1>17. shown \subseteq critical
  BY <1>10, <1>12, <1>15, <1>16
<1>18. Cardinality(critical) = Cardinality(C)
  <2> DEFINE f == [k \in C |-> sites[k]]
  <2>1. \A j, k \in C : f[j] = f[k] => j = k
    BY <1>4 DEF C
  <2>2. \A x : x \in critical <=> \E k \in C : f[k] = x
    BY <1>15
  <2>3. f = [k \in C |-> f[k]]
    OBVIOUS
  <2>. HIDE DEF f, critical
  <2>. QED BY <1>6, <2>1, <2>2, <2>3, CountedAt
<1>19. ASSUME NEW c \in shown, NEW d \in critical \ shown PROVE c.site.days >= d.site.days
  <2>1. PICK m \in 1 .. most : sites[q[m]] = c
    BY <1>16
  <2>2. PICK n \in 1 .. Cardinality(C) : sites[q[n]] = d
    BY <1>11, <1>15
  <2>3. n \notin 1 .. most
    BY <1>16, <2>2
  <2>4. m \in DOMAIN listed /\ n \in DOMAIN listed /\ m < n
    BY <1>10, <1>12, <2>1, <2>2, <2>3
  <2>. QED BY <1>10, <2>1, <2>2, <2>4
<1>20. Cardinality(reds) = Cardinality({line.duid : line \in {e \in all : e.flag = "RED"}})
  <2> DEFINE f == [k \in reds |-> sites[k].id]
             T == {line.duid : line \in {e \in all : e.flag = "RED"}}
  <2>1. reds \in SUBSET P
    BY DEF P
  <2>2. IsFiniteSet(reds)
    <3>. HIDE DEF reds
    <3>. QED BY <1>5, <2>1, FS_Subset
  <2>3. \A j, k \in reds : f[j] = f[k] => j = k
    BY <1>4
  <2>4. \A k \in DOMAIN sites : sites[k].site.worst = "RED"
                               <=> \E line \in all : line.duid = sites[k].id /\ line.flag = "RED"
    <3>. SUFFICES ASSUME NEW k \in DOMAIN sites
                  PROVE  sites[k].site.worst = "RED"
                         <=> \E line \in all : line.duid = sites[k].id /\ line.flag = "RED"
      OBVIOUS
    <3>1. sites[k].site = CardOf(sites[k].id, OfSite(sites[k].id, all))
      BY <1>3 DEF SiteMatches
    <3>2. sites[k].site.worst = WorstOf(OfSite(sites[k].id, all))
      BY <3>1 DEF CardOf
    <3>. QED BY <3>2 DEF WorstOf, OfSite
  <2>5. \A line \in all : \E k \in DOMAIN sites : sites[k].id = line.duid
    BY <1>3 DEF SitesOf, Has
  <2>6. \A x : x \in T <=> \E k \in reds : f[k] = x
    <3>1. \A x : x \in T <=> \E line \in all : line.flag = "RED" /\ line.duid = x
      OBVIOUS
    <3>2. \A x : (\E k \in reds : f[k] = x)
                  <=> \E k \in DOMAIN sites : sites[k].site.worst = "RED" /\ sites[k].id = x
      OBVIOUS
    <3>. HIDE DEF T, f, reds
    <3>. QED BY <2>4, <2>5, <3>1, <3>2
  <2>7. f = [k \in reds |-> f[k]]
    OBVIOUS
  <2>. HIDE DEF f, T, reds
  <2>8. Cardinality(T) = Cardinality(reds)
    BY <2>2, <2>3, <2>6, <2>7, CountedAt
  <2>. QED BY <2>8 DEF T
<1>. HIDE DEF answer, reds
<1>21. ASSUME NEW c \in shown PROVE \E line \in OfSite(c.id, all) : ~ line.invoiced
  <2>1. PICK k \in DOMAIN sites : c = sites[k] /\ c.site.worst # "GREEN"
    BY <1>15, <1>17 DEF C
  <2>2. c.site = CardOf(c.id, OfSite(c.id, all))
    BY <1>3, <2>1 DEF SiteMatches
  <2>3. WorstOf(OfSite(c.id, all)) # "GREEN"
    BY <2>1, <2>2 DEF CardOf
  <2>4. PICK line \in OfSite(c.id, all) : line.flag # "GREEN"
    BY <2>3 DEF WorstOf
  <2>5. line \in Dtos
    <3>1. line \in all
      BY DEF OfSite
    <3>. QED BY <3>1 DEF all, ToSet
  <2>. QED BY <2>4, <2>5 DEF Dtos
<1>22. Agrees(answer, all)
  BY <1>1, <1>9, <1>12, <1>13, <1>14, <1>17, <1>18, <1>19, <1>20, <1>21 DEF Agrees
<1>. QED BY <1>22 DEF answer, all

\* The lines of a dashboard, as the aggregator sees them.
LEMMA DtosTyped ==
  ASSUME TypeOK, NEW s \in Dashboards, NEW duidOf \in [Lines -> Duids], NEW orderOf \in [Lines -> Orders],
         NEW dtos, dtos = {Dto(l, duidOf, orderOf) : l \in Scope[s]}
  PROVE  dtos \subseteq Dtos /\ IsFiniteSet(dtos)
<1>1. Scope[s] \in SUBSET Lines /\ IsFiniteSet(Scope[s])
  BY AgingAssumption, DashboardAssumption, FS_Subset
<1>2. today \in Int
  BY AgingAssumption DEF TypeOK
<1>3. ASSUME NEW l \in Scope[s] PROVE Dto(l, duidOf, orderOf) \in Dtos
  <2>1. row[l] \in Rows
    BY <1>1 DEF TypeOK
  <2>2. Evaluate(row[l], today).flag \in Flags
    BY <2>1, FlagTyped
  <2>3. Evaluate(row[l], today).days \in Nat
    <3>1. row[l].issued \in Int /\ row[l].allowed \in Nat \cup {None}
      BY <2>1, DashboardAssumption DEF Rows
    <3>2. CASE row[l].invoiced \/ row[l].allowed \in {None, 0}
      BY <3>2 DEF Evaluate
    <3>3. CASE ~ row[l].invoiced /\ row[l].allowed \notin {None, 0}
      <4> DEFINE days == Smaller(Larger(0, today - row[l].issued), row[l].allowed)
      <4>1. days \in Nat
        BY <1>2, <3>1, <3>3 DEF Smaller, Larger
      <4>2. Evaluate(row[l], today).days = days
        BY <3>3 DEF Evaluate
      <4>. HIDE DEF days
      <4>. QED BY <4>1, <4>2
    <3>. QED BY <3>2, <3>3
  <2>4. row[l].invoiced => Evaluate(row[l], today).flag = "GREEN"
    BY DEF Evaluate
  <2>5. row[l].invoiced \in BOOLEAN
    BY <2>1 DEF Rows
  <2>. QED BY <1>1, <2>2, <2>3, <2>4, <2>5 DEF Dto, Dtos
<1>4. IsFiniteSet(dtos)
  <2> DEFINE f == [l \in Scope[s] |-> Dto(l, duidOf, orderOf)]
  <2>1. f \in Surjection(Scope[s], dtos)
    BY DEF Surjection
  <2>. HIDE DEF f
  <2>. QED BY <1>1, <2>1, FS_Surjection
<1>. QED BY <1>3, <1>4

\* Every order has each line once.
LEMMA AnyOrder ==
  ASSUME NEW dtos, dtos \subseteq Dtos, IsFiniteSet(dtos), NEW order \in SetToSeqs(dtos)
  PROVE  /\ order \in Seq(Dtos) /\ ToSet(order) = dtos
         /\ \A i, j \in DOMAIN order : i # j => order[i] # order[j]
<1> DEFINE n == Cardinality(dtos)
           D == 1 .. n
<1>1. n \in Nat /\ IsFiniteSet(D) /\ Cardinality(D) = n
  BY FS_CardinalityType, FS_Interval
<1>2. order \in [D -> dtos] /\ \A i, j \in D : i # j => order[i] # order[j]
  BY DEF SetToSeqs
<1>3. order \in Injection(D, dtos)
  BY <1>2 DEF Injection, IsInjective
<1>4. order \in Surjection(D, dtos)
  <2>. HIDE DEF D
  <2>. QED BY <1>1, <1>3, FS_Injection
<1>5. ToSet(order) = dtos
  <2>. HIDE DEF D
  <2>. QED BY <1>2, <1>4 DEF Surjection, ToSet
<1>6. order \in Seq(Dtos)
  BY <1>1, <1>2
<1>. QED BY <1>2, <1>5, <1>6

\* Safety (aggregatePoAgingDashboard): whatever lines a dashboard covers, and
\* whatever order the database returns them in, its cards say of each site
\* and order what its lines say, the oldest first, no critical site is left
\* out for a younger one, and none is critical for lines that are invoiced
\* (evaluate: "so it disappears from 'At Risk' reports").
THEOREM AnswersAlwaysAgree == Spec => []AnswersAgree
<1>1. TypeOK => AnswersAgree
  <2>. SUFFICES ASSUME TypeOK, NEW s \in Dashboards,
                       NEW duidOf \in [Lines -> Duids], NEW orderOf \in [Lines -> Orders],
                       NEW order \in SetToSeqs({Dto(l, duidOf, orderOf) : l \in Scope[s]})
                PROVE  Agrees(Aggregate(order), {Dto(l, duidOf, orderOf) : l \in Scope[s]})
    BY DEF AnswersAgree
  <2> DEFINE dtos == {Dto(l, duidOf, orderOf) : l \in Scope[s]}
  <2>1. dtos \subseteq Dtos /\ IsFiniteSet(dtos)
    BY DtosTyped
  <2>. HIDE DEF dtos
  <2>2. order \in SetToSeqs(dtos)
    BY DEF dtos
  <2>3. /\ order \in Seq(Dtos) /\ ToSet(order) = dtos
        /\ \A i, j \in DOMAIN order : i # j => order[i] # order[j]
    BY <2>1, <2>2, AnyOrder
  <2>4. Agrees(Aggregate(order), dtos)
    BY <2>3, AggregateAgrees
  <2>. QED BY <2>4 DEF dtos
<1>. QED BY <1>1, AgingTypeCorrect, PTL
=============================================================================
