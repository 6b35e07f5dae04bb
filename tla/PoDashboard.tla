---------------------------- MODULE PoDashboard ----------------------------
(***************************************************************************)
(* What the ageing dashboard computes from the lines it has read: how old  *)
(* a line is (po-aging-evaluator.service.ts), and the cards of the sites   *)
(* (DUIDs) and of the orders on each site, folded from the lines in the    *)
(* order in which the database returned them (po-aging-aggregator.ts).     *)
(* The sums of money on the cards are left out; they are folded like the   *)
(* number of lines.                                                        *)
(*                                                                         *)
(* "Fault:" introduces plausible bugs, as in PoLedger.                     *)
(***************************************************************************)
EXTENDS Integers, FiniteSets, Sequences, SequencesExt

CONSTANTS
  Lines,       \* the lines of all orders
  Duids,       \* sites
  Orders,      \* numbers of orders
  Dates,       \* the days a line can be issued on
  Allowances,  \* the days a line may stay open; None where there is none
  TopProjects, \* how many sites the list of the most critical ones has
  None

ASSUME DashboardAssumption ==
  /\ IsFiniteSet(Lines)
  /\ Dates \subseteq Int /\ 0 \in Dates
  /\ Allowances \subseteq Nat \cup {None}
  /\ TopProjects \in Nat

Flags == {"GREEN", "WARNING", "RED"}

Smaller(a, b) == IF a < b THEN a ELSE b

Larger(a, b) == IF a > b THEN a ELSE b

\* Fault: a line goes on ageing after it was invoiced.
EvaluateInvoiced(r, today) ==
  IF r.allowed \in {None, 0} THEN [flag |-> "GREEN", days |-> 0]
  ELSE LET days == Smaller(Larger(0, today - r.issued), r.allowed) IN
       [days |-> days,
        flag |-> IF days >= r.allowed THEN "RED"
                 ELSE IF 10 * days > 7 * r.allowed THEN "WARNING" ELSE "GREEN"]

\* A line ages from its date to its allowance and no further.  One without
\* an allowance does not age, and neither does one that has been invoiced
\* ("so it disappears from 'At Risk' reports").
Evaluate(r, today) ==
  IF r.invoiced \/ r.allowed \in {None, 0} THEN [flag |-> "GREEN", days |-> 0]
  ELSE LET days == Smaller(Larger(0, today - r.issued), r.allowed) IN
       [days |-> days,
        flag |-> IF days >= r.allowed THEN "RED"
                 ELSE IF 10 * days > 7 * r.allowed THEN "WARNING" ELSE "GREEN"]

-----------------------------------------------------------------------------
(* aggregatePoAgingDashboard.  A line is a record with its site, its       *)
(* order, whether it was invoiced and what Evaluate gives.                 *)

\* Fault: the last line of a card that is not green gives it its flag.
EscalatedToLast(worst, flag) == IF flag # "GREEN" THEN flag ELSE worst

Escalated(worst, flag) ==
  IF flag = "RED" THEN "RED"
  ELSE IF flag = "WARNING" /\ worst # "RED" THEN "WARNING"
  ELSE worst

\* The lines that are not invoiced, which the code counts too, are the others.
Card(id) == [id |-> id, lines |-> 0, invoiced |-> 0, days |-> 0, worst |-> "GREEN"]

Counted(card, line) ==
  [id |-> card.id, lines |-> card.lines + 1,
   invoiced |-> card.invoiced + (IF line.invoiced THEN 1 ELSE 0),
   days |-> Larger(card.days, line.days), worst |-> Escalated(card.worst, line.flag)]

\* The cards with one for id, which comes last if it is new.
With(cards, new) ==
  IF \E k \in DOMAIN cards : cards[k].id = new.id THEN cards ELSE Append(cards, new)

AddToOrder(cards, line) ==
  LET all == With(cards, Card(line.order)) IN
  [k \in DOMAIN all |-> IF all[k].id = line.order THEN Counted(all[k], line) ELSE all[k]]

AddToSite(sites, line) ==
  LET all == With(sites, [site |-> Card(line.duid), id |-> line.duid, orders |-> <<>>]) IN
  [k \in DOMAIN all |->
     IF all[k].id = line.duid
     THEN [site |-> Counted(all[k].site, line), id |-> line.duid,
           orders |-> AddToOrder(all[k].orders, line)]
     ELSE all[k]]

Sites(lines) == FoldLeft(AddToSite, <<>>, lines)

\* Both lists are sorted by the age of the oldest line, and by nothing else:
\* sort leaves equally old sites in the order they are in.
NotAfter(sites, j, k) ==
  \/ sites[j].site.days > sites[k].site.days
  \/ sites[j].site.days = sites[k].site.days /\ j <= k

Rank(sites, P, k) == Cardinality({j \in P : NotAfter(sites, j, k)})

\* The sites at the positions P, the oldest first.
ByAge(sites, P) ==
  [n \in 1 .. Cardinality(P) |-> sites[CHOOSE k \in P : Rank(sites, P, k) = n]]

Aggregate(lines) ==
  LET sites == Sites(lines)
      critical == ByAge(sites, {k \in DOMAIN sites : sites[k].site.worst # "GREEN"})
  IN [duids |-> ByAge(sites, DOMAIN sites),
      topCritical |-> SubSeq(critical, 1, Smaller(TopProjects, Len(critical))),
      criticalAged |-> Cardinality({k \in DOMAIN sites : sites[k].site.worst = "RED"}),
      totalPOs |-> Cardinality({line.order : line \in ToSet(lines)})]

-----------------------------------------------------------------------------
(* What the cards should say of a set of lines.                            *)

WorstOf(lines) ==
  IF \E line \in lines : line.flag = "RED" THEN "RED"
  ELSE IF \E line \in lines : line.flag = "WARNING" THEN "WARNING" ELSE "GREEN"

OldestOf(lines) == CHOOSE d \in {line.days : line \in lines} : \A line \in lines : line.days <= d

CardOf(id, lines) ==
  [id |-> id, lines |-> Cardinality(lines),
   invoiced |-> Cardinality({line \in lines : line.invoiced}),
   days |-> OldestOf(lines), worst |-> WorstOf(lines)]

OfSite(duid, lines) == {line \in lines : line.duid = duid}

OfOrder(order, lines) == {line \in lines : line.order = order}

\* One card for each site and, on it, for each of the site's orders.
CardsAgree(sites, lines) ==
  /\ Len(sites) = Cardinality({line.duid : line \in lines})
  /\ {c.id : c \in ToSet(sites)} = {line.duid : line \in lines}
  /\ \A c \in ToSet(sites) :
       LET its == OfSite(c.id, lines) IN
       /\ c.site = CardOf(c.id, its)
       /\ Len(c.orders) = Cardinality({line.order : line \in its})
       /\ {o.id : o \in ToSet(c.orders)} = {line.order : line \in its}
       /\ \A o \in ToSet(c.orders) : o = CardOf(o.id, OfOrder(o.id, its))

\* The sites oldest first; among the critical ones none that is not, none
\* all of whose lines are invoiced, and none missing that is older than one
\* of them.
Agrees(answer, lines) ==
  LET shown == ToSet(answer.topCritical)
      critical == {c \in ToSet(answer.duids) : c.site.worst # "GREEN"}
  IN /\ CardsAgree(answer.duids, lines)
     /\ \A j, k \in DOMAIN answer.duids :
          j < k => answer.duids[j].site.days >= answer.duids[k].site.days
     /\ shown \subseteq critical
     /\ Len(answer.topCritical) = Smaller(TopProjects, Cardinality(critical))
     /\ \A c \in shown, d \in critical \ shown : c.site.days >= d.site.days
     /\ \A c \in shown : \E line \in OfSite(c.id, lines) : ~ line.invoiced
     /\ answer.criticalAged = Cardinality({line.duid : line \in {e \in lines : e.flag = "RED"}})
=============================================================================
