----------------------------- MODULE SumLemmas -----------------------------
(***************************************************************************)
(* Facts about SumFunction of the Functions module over a finite domain:   *)
(* its type, its value on the zero function, and how it changes when the   *)
(* function changes at one point.                                          *)
(*                                                                         *)
(* SumFunction is defined by recursion over finite sets that removes a     *)
(* chosen element at each call.  The recursion is restated here as a       *)
(* function on the subsets of the domain, Partial; each lemma about it     *)
(* takes a minimal set on which it would fail and derives a contradiction  *)
(* from that set without one element.                                      *)
(***************************************************************************)
EXTENDS Integers, Functions, FiniteSetTheorems, TLAPS

\* The element the recursion removes first.
Pick(s) == CHOOSE x \in s : TRUE

\* One level of the recursion, given the sums g of the smaller sets.
Unfold(g, fun, s) == IF s = {} THEN 0 ELSE fun[Pick(s)] + g[s \ {Pick(s)}]

\* g is the table of the sums of fun over all subsets of T.
IsPartial(g, fun, T) == g = [s \in SUBSET T |-> Unfold(g, fun, s)]

\* That table.
Partial(fun, T) == CHOOSE g : IsPartial(g, fun, T)

\* The library's sum over S is the entry of S in the table.
LEMMA SumIsPartial ==
  ASSUME NEW fun, NEW S
  PROVE  SumFunctionOnSet(fun, S) = Partial(fun, S)[S]
BY DEF SumFunctionOnSet, FoldFunctionOnSet, MapThenFoldSet, Partial, IsPartial, Unfold, Pick

\* A non-empty set of subsets of a finite set has a minimal member.
LEMMA MinimalSubset ==
  ASSUME NEW S, IsFiniteSet(S), NEW T, T \subseteq SUBSET S, T # {}
  PROVE  \E m \in T : \A u \in T : u \subseteq m => u = m
<1>1. T \subseteq FiniteSubsetsOf(S)
  BY FS_Subset DEF FiniteSubsetsOf
<1>2. PICK m \in T : \A u \in T : ~ (<<u, m>> \in StrictSubsetOrdering(S))
  BY <1>1, FS_StrictSubsetOrderingWellFounded, WFMin
<1>. QED BY <1>2 DEF StrictSubsetOrdering

\* The chosen element is one of the set.
LEMMA PickIn ==
  ASSUME NEW s, s # {}
  PROVE  Pick(s) \in s
BY DEF Pick

\* Tables over different sets agree on the subsets they share.
LEMMA PartialUnique ==
  ASSUME NEW fun, NEW T, NEW U, IsFiniteSet(T), T \subseteq U,
         NEW g, IsPartial(g, fun, T), NEW h, IsPartial(h, fun, U)
  PROVE  \A s \in SUBSET T : g[s] = h[s]
<1>. DEFINE D == {s \in SUBSET T : g[s] # h[s]}
<1>1. SUFFICES ASSUME D # {} PROVE FALSE
  OBVIOUS
<1>2. PICK d \in D : \A u \in D : u \subseteq d => u = d
  <2>. D \subseteq SUBSET T
    OBVIOUS
  <2>. HIDE DEF D
  <2>. QED BY <1>1, MinimalSubset
<1>3. d \in SUBSET T /\ d \in SUBSET U /\ g[d] # h[d]
  OBVIOUS
<1>4. g[d] = Unfold(g, fun, d) /\ h[d] = Unfold(h, fun, d)
  BY <1>3 DEF IsPartial
<1>5. d # {}
  BY <1>3, <1>4 DEF Unfold
<1>6. Pick(d) \in d
  BY <1>5, PickIn
<1>7. g[d \ {Pick(d)}] = h[d \ {Pick(d)}]
  <2>1. d \ {Pick(d)} \in SUBSET T /\ d \ {Pick(d)} \subseteq d /\ d \ {Pick(d)} # d
    BY <1>3, <1>6
  <2>2. d \ {Pick(d)} \notin D
    <3>. HIDE DEF D
    <3>. QED BY <2>1, <1>2
  <2>. QED BY <2>1, <2>2
<1>. QED BY <1>3, <1>4, <1>5, <1>7 DEF Unfold

\* There is a table for every finite set.
LEMMA PartialExists ==
  ASSUME NEW fun, NEW S, IsFiniteSet(S)
  PROVE  \E g : IsPartial(g, fun, S)
<1>. DEFINE Bad == {T \in SUBSET S : ~ \E g : IsPartial(g, fun, T)}
<1>1. SUFFICES ASSUME Bad # {} PROVE FALSE
  OBVIOUS
<1>2. PICK m \in Bad : \A u \in Bad : u \subseteq m => u = m
  <2>. Bad \subseteq SUBSET S
    OBVIOUS
  <2>. HIDE DEF Bad
  <2>. QED BY <1>1, MinimalSubset
<1>3. m \in SUBSET S /\ ~ \E g : IsPartial(g, fun, m)
  OBVIOUS
<1>4. ASSUME NEW T, T \subseteq m, T # m
      PROVE  IsPartial(Partial(fun, T), fun, T) /\ IsFiniteSet(T)
  <2>1. T \notin Bad
    <3>. HIDE DEF Bad
    <3>. QED BY <1>2, <1>4
  <2>2. T \in SUBSET S
    BY <1>3, <1>4
  <2>3. \E g : IsPartial(g, fun, T)
    BY <2>1, <2>2
  <2>. QED BY <2>2, <2>3, FS_Subset DEF Partial
<1>. DEFINE Val(s) == IF s = {} THEN 0
                      ELSE fun[Pick(s)] + Partial(fun, s \ {Pick(s)})[s \ {Pick(s)}]
            G == [s \in SUBSET m |-> Val(s)]
<1>5. ASSUME NEW t, t \subseteq m, t # m
      PROVE  Val(t) = Partial(fun, t)[t]
  <2>1. IsPartial(Partial(fun, t), fun, t) /\ t \in SUBSET t
    BY <1>4, <1>5
  <2>2. Partial(fun, t)[t] = Unfold(Partial(fun, t), fun, t)
    BY <2>1 DEF IsPartial
  <2>3. CASE t = {}
    BY <2>2, <2>3 DEF Unfold
  <2>4. CASE t # {}
    <3>. DEFINE w == t \ {Pick(t)}
    <3>1. Pick(t) \in t
      BY <2>4, PickIn
    <3>2. w \subseteq m /\ w # m /\ w \subseteq t /\ w \in SUBSET w
      BY <3>1, <1>5
    <3>3. IsPartial(Partial(fun, w), fun, w) /\ IsFiniteSet(w)
      BY <3>2, <1>4
    <3>4. Partial(fun, w)[w] = Partial(fun, t)[w]
      <4>. HIDE DEF w
      <4>. QED BY <3>2, <3>3, <2>1, PartialUnique
    <3>. QED BY <2>2, <2>4, <3>4 DEF Unfold
  <2>. QED BY <2>3, <2>4
<1>6. \A s \in SUBSET m : Val(s) = Unfold(G, fun, s)
  <2>. SUFFICES ASSUME NEW s \in SUBSET m PROVE Val(s) = Unfold(G, fun, s)
    OBVIOUS
  <2>1. CASE s = {}
    BY <2>1 DEF Unfold
  <2>2. CASE s # {}
    <3>. DEFINE t == s \ {Pick(s)}
    <3>1. Pick(s) \in s
      BY <2>2, PickIn
    <3>2. t \subseteq m /\ t # m
      BY <3>1
    <3>3. G[t] = Val(t)
      BY <3>2
    <3>4. Val(t) = Partial(fun, t)[t]
      <4>. HIDE DEF t, Val
      <4>. QED BY <3>2, <1>5
    <3>5. Val(s) = fun[Pick(s)] + Partial(fun, t)[t]
      BY <2>2
    <3>6. Unfold(G, fun, s) = fun[Pick(s)] + G[t]
      BY <2>2 DEF Unfold
    <3>. QED
      <4>. HIDE DEF t, Val, G
      <4>. QED BY <3>3, <3>4, <3>5, <3>6
  <2>. QED BY <2>1, <2>2
<1>7. IsPartial(G, fun, m)
  <2>. G = [s \in SUBSET m |-> Unfold(G, fun, s)]
    <3>. HIDE DEF Val
    <3>. QED BY <1>6
  <2>. QED BY DEF IsPartial
<1>. QED BY <1>3, <1>7

\* The recursion equations of the table.
LEMMA PartialStep ==
  ASSUME NEW fun, NEW S, IsFiniteSet(S), NEW s \in SUBSET S
  PROVE  /\ s = {} => Partial(fun, S)[s] = 0
         /\ s # {} => /\ Pick(s) \in s
                      /\ Partial(fun, S)[s] = fun[Pick(s)] + Partial(fun, S)[s \ {Pick(s)}]
<1>1. IsPartial(Partial(fun, S), fun, S)
  BY PartialExists DEF Partial
<1>2. Partial(fun, S)[s] = Unfold(Partial(fun, S), fun, s)
  BY <1>1 DEF IsPartial
<1>. QED BY <1>2, PickIn DEF Unfold

\* Sums of natural numbers are natural numbers.
LEMMA PartialNat ==
  ASSUME NEW S, IsFiniteSet(S), NEW fun \in [S -> Nat]
  PROVE  \A s \in SUBSET S : Partial(fun, S)[s] \in Nat
<1>. DEFINE P == Partial(fun, S)
            D == {s \in SUBSET S : P[s] \notin Nat}
<1>1. SUFFICES ASSUME D # {} PROVE FALSE
  OBVIOUS
<1>2. PICK d \in D : \A u \in D : u \subseteq d => u = d
  <2>. D \subseteq SUBSET S
    OBVIOUS
  <2>. HIDE DEF D
  <2>. QED BY <1>1, MinimalSubset
<1>3. d \in SUBSET S /\ P[d] \notin Nat
  OBVIOUS
<1>. HIDE DEF P
<1>4. d # {} /\ Pick(d) \in d /\ P[d] = fun[Pick(d)] + P[d \ {Pick(d)}]
  <2>. HIDE DEF D
  <2>1. d = {} => P[d] = 0
    BY <1>3, PartialStep DEF P
  <2>2. d # {}
    BY <1>3, <2>1
  <2>3. d \in SUBSET S
    BY <1>3
  <2>4. Partial(fun, S)[d] = fun[Pick(d)] + Partial(fun, S)[d \ {Pick(d)}]
    BY <2>2, <2>3, PartialStep
  <2>. QED BY <2>2, <2>4, PickIn DEF P
<1>5. d \ {Pick(d)} \notin D
  <2>1. d \ {Pick(d)} \subseteq d /\ d \ {Pick(d)} # d
    BY <1>4
  <2>. HIDE DEF D
  <2>. QED BY <1>2, <2>1
<1>6. P[d \ {Pick(d)}] \in Nat
  BY <1>3, <1>5
<1>7. fun[Pick(d)] \in Nat
  BY <1>3, <1>4
<1>. QED BY <1>3, <1>4, <1>6, <1>7

\* Any element may be taken out of a sum, not only the chosen one.
LEMMA PartialRemove ==
  ASSUME NEW S, IsFiniteSet(S), NEW fun \in [S -> Nat]
  PROVE  \A s \in SUBSET S : \A x \in s :
           Partial(fun, S)[s] = fun[x] + Partial(fun, S)[s \ {x}]
<1>. DEFINE P == Partial(fun, S)
            D == {s \in SUBSET S : \E x \in s : P[s] # fun[x] + P[s \ {x}]}
<1>1. SUFFICES ASSUME D # {} PROVE FALSE
  OBVIOUS
<1>2. PICK d \in D : \A u \in D : u \subseteq d => u = d
  <2>. D \subseteq SUBSET S
    OBVIOUS
  <2>. HIDE DEF D
  <2>. QED BY <1>1, MinimalSubset
<1>3. d \in SUBSET S
  OBVIOUS
<1>4. PICK x \in d : P[d] # fun[x] + P[d \ {x}]
  OBVIOUS
<1>. HIDE DEF P
<1>5. Pick(d) \in d /\ P[d] = fun[Pick(d)] + P[d \ {Pick(d)}]
  BY <1>3, <1>4, PartialStep DEF P
<1>. DEFINE p == Pick(d)
<1>6. x # p
  BY <1>4, <1>5
<1>7. ASSUME NEW u \in SUBSET d, u # d, NEW y \in u
      PROVE  P[u] = fun[y] + P[u \ {y}]
  <2>1. u \notin D
    <3>. HIDE DEF D
    <3>. QED BY <1>2, <1>7
  <2>. QED BY <1>3, <2>1
<1>8. P[d \ {p}] = fun[x] + P[(d \ {p}) \ {x}]
  BY <1>7, <1>5, <1>6
<1>9. P[d \ {x}] = fun[p] + P[(d \ {x}) \ {p}]
  BY <1>7, <1>5, <1>6
<1>10. (d \ {p}) \ {x} = (d \ {x}) \ {p}
  OBVIOUS
<1>11. fun[x] \in Nat /\ fun[p] \in Nat /\ P[(d \ {p}) \ {x}] \in Nat
  BY <1>3, <1>5, PartialNat DEF P
<1>. QED
  <2>. HIDE DEF p
  <2>1. P[d] = fun[p] + (fun[x] + P[(d \ {p}) \ {x}])
    BY <1>5, <1>8 DEF p
  <2>2. fun[x] + P[d \ {x}] = fun[x] + (fun[p] + P[(d \ {p}) \ {x}])
    BY <1>9, <1>10
  <2>. QED BY <1>4, <1>11, <2>1, <2>2

\* Functions that agree on a set have the same sum over it.
LEMMA PartialAgree ==
  ASSUME NEW S, IsFiniteSet(S), NEW f \in [S -> Nat], NEW g \in [S -> Nat]
  PROVE  \A s \in SUBSET S : (\A y \in s : f[y] = g[y])
                             => Partial(f, S)[s] = Partial(g, S)[s]
<1>. DEFINE P == Partial(f, S)
            Q == Partial(g, S)
            D == {s \in SUBSET S : (\A y \in s : f[y] = g[y]) /\ P[s] # Q[s]}
<1>1. SUFFICES ASSUME D # {} PROVE FALSE
  OBVIOUS
<1>2. PICK d \in D : \A u \in D : u \subseteq d => u = d
  <2>. D \subseteq SUBSET S
    OBVIOUS
  <2>. HIDE DEF D
  <2>. QED BY <1>1, MinimalSubset
<1>3. d \in SUBSET S /\ (\A y \in d : f[y] = g[y]) /\ P[d] # Q[d]
  OBVIOUS
<1>. HIDE DEF P, Q
<1>4. d # {}
  BY <1>3, PartialStep DEF P, Q
<1>5. PICK x \in d : TRUE
  BY <1>4
<1>6. P[d] = f[x] + P[d \ {x}] /\ Q[d] = g[x] + Q[d \ {x}]
  <2>1. d \in SUBSET S /\ x \in d
    BY <1>3, <1>5
  <2>2. P[d] = f[x] + P[d \ {x}]
    BY <2>1, PartialRemove DEF P
  <2>3. Q[d] = g[x] + Q[d \ {x}]
    BY <2>1, PartialRemove DEF Q
  <2>. QED BY <2>2, <2>3
<1>7. d \ {x} \notin D
  <2>1. d \ {x} \subseteq d /\ d \ {x} # d
    BY <1>5
  <2>. HIDE DEF D
  <2>. QED BY <1>2, <2>1
<1>8. P[d \ {x}] = Q[d \ {x}]
  BY <1>3, <1>7
<1>. QED BY <1>3, <1>6, <1>8

\* The sum of natural numbers over a finite domain is a natural number: no
\* aggregate of request amounts is ever negative.
THEOREM SumNat ==
  ASSUME NEW S, IsFiniteSet(S), NEW f \in [S -> Nat]
  PROVE  SumFunction(f) \in Nat
BY SumIsPartial, PartialNat DEF SumFunction

\* The sum of a function that is zero everywhere is zero.
THEOREM SumZero ==
  ASSUME NEW S, IsFiniteSet(S), NEW f \in [S -> Nat], \A x \in S : f[x] = 0
  PROVE  SumFunction(f) = 0
<1>. DEFINE P == Partial(f, S)
            D == {s \in SUBSET S : P[s] # 0}
<1>1. SUFFICES ASSUME D # {} PROVE FALSE
  <2>1. P[S] = 0
    BY <1>1
  <2>. QED BY <2>1, SumIsPartial DEF SumFunction
<1>2. PICK d \in D : \A u \in D : u \subseteq d => u = d
  <2>. D \subseteq SUBSET S
    OBVIOUS
  <2>. HIDE DEF D
  <2>. QED BY <1>1, MinimalSubset
<1>3. d \in SUBSET S /\ P[d] # 0
  OBVIOUS
<1>. HIDE DEF P
<1>4. d # {}
  BY <1>3, PartialStep DEF P
<1>5. PICK x \in d : TRUE
  BY <1>4
<1>6. P[d] = f[x] + P[d \ {x}] /\ f[x] = 0
  BY <1>3, PartialRemove DEF P
<1>7. d \ {x} \notin D
  <2>1. d \ {x} \subseteq d /\ d \ {x} # d
    BY <1>5
  <2>. HIDE DEF D
  <2>. QED BY <1>2, <2>1
<1>8. P[d \ {x}] = 0
  BY <1>3, <1>7
<1>. QED BY <1>3, <1>6, <1>8

\* A change at one point changes the sum by as much: what a decision on one
\* request does to an aggregate of its line.
THEOREM SumChange ==
  ASSUME NEW S, IsFiniteSet(S), NEW f \in [S -> Nat], NEW g \in [S -> Nat],
         NEW x \in S, \A y \in S \ {x} : g[y] = f[y]
  PROVE  /\ SumFunction(g) + f[x] = SumFunction(f) + g[x]
         /\ SumFunction(f) \in Nat
         /\ SumFunction(g) \in Nat
<1>1. /\ SumFunction(f) = Partial(f, S)[S]
      /\ SumFunction(g) = Partial(g, S)[S]
  BY SumIsPartial DEF SumFunction
<1>2. /\ Partial(f, S)[S] = f[x] + Partial(f, S)[S \ {x}]
      /\ Partial(g, S)[S] = g[x] + Partial(g, S)[S \ {x}]
  BY PartialRemove
<1>3. Partial(f, S)[S \ {x}] = Partial(g, S)[S \ {x}]
  <2>1. S \ {x} \in SUBSET S /\ \A y \in S \ {x} : f[y] = g[y]
    OBVIOUS
  <2>. QED BY <2>1, PartialAgree
<1>4. Partial(f, S)[S \ {x}] \in Nat /\ f[x] \in Nat /\ g[x] \in Nat
  <2>1. S \ {x} \in SUBSET S
    OBVIOUS
  <2>. QED BY <2>1, PartialNat
<1>. QED BY <1>1, <1>2, <1>3, <1>4
============================================================================
