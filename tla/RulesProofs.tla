------------------------------ MODULE RulesProofs ------------------------------
(***************************************************************************)
(* Theorems of Matching, Domination and RscScan, for every set of          *)
(* candidates, every price, every ranking, whatever its length, crowns and *)
(* quantities, and every text.                                             *)
(***************************************************************************)
EXTENDS Rules, RscScan, Integers, FiniteSets, FiniteSetTheorems, NaturalsInduction,
        WellFoundedInduction, TLAPS

\* math.ceil of a quotient: enough orders, and no order too many.
LEMMA CeilIsRight ==
    ASSUME NEW a \in Nat, NEW q \in Nat \ {0}
    PROVE  LET o == (a + q - 1) \div q
           IN  /\ o \in 0..a /\ o * q >= a
               /\ \A n \in Nat : n * q >= a => o <= n
<1> DEFINE x == a + q - 1
           o == x \div q
<1>1. o \in Int /\ o * q <= x /\ x < (o + 1) * q
  BY SMT
<1> HIDE DEF o
<1>2. o * q >= a
  <2>1. (o + 1) * q = o * q + q
    BY <1>1
  <2> QED BY <1>1, <2>1
<1>3. \A n \in Int : n < o => n * q < a
  <2> TAKE n \in Int
  <2>1. HAVE n < o
  <2>2. n + 1 <= o
    BY <1>1, <2>1
  <2>3. (n + 1) * q <= o * q
    BY <1>1, <2>2
  <2>4. (n + 1) * q = n * q + q
    OBVIOUS
  <2>5. n * q \in Int /\ o * q \in Int
    BY <1>1
  <2> QED BY <1>1, <2>3, <2>4, <2>5
<1>4. o >= 0
  <2>1. \A k \in Int : k < 0 => (k + 1) * q <= 0
    <3>1. \A i, j \in Int : i <= 0 /\ j >= 0 => i * j <= 0
      OBVIOUS
    <3> QED BY <3>1
  <2> QED BY <1>1, <2>1
<1>5. o <= a
  <2>1. a * q >= a
    OBVIOUS
  <2>2. ~(a < o)
    BY <1>3, <2>1
  <2> QED BY <1>1, <2>2
<1>6. \A n \in Nat : n * q >= a => o <= n
  <2> TAKE n \in Nat
  <2>1. HAVE n * q >= a
  <2>2. n * q \in Int
    OBVIOUS
  <2>3. ~(n < o)
    BY <1>3, <2>1, <2>2
  <2> QED BY <1>1, <2>3
<1> QED BY <1>1, <1>2, <1>4, <1>5, <1>6 DEF o

\* A choice by the least value of a key, among any set.
LEMMA LeastBy ==
    ASSUME NEW S, S # {}, NEW f \in [S -> Nat]
    PROVE  \E s \in S : \A t \in S : f[s] <= f[t]
<1> DEFINE T == {f[s] : s \in S}
<1>1. T # {} /\ T \in SUBSET Nat
  OBVIOUS
<1>2. IsWellFoundedOn(OpToRel(<, Nat), Nat)
  BY NatLessThanWellFounded
<1>3. PICK x \in T : \A y \in T : ~(<<y, x>> \in OpToRel(<, Nat))
  BY <1>1, <1>2, WFMin
<1>4. \A y \in T : x <= y
  <2> TAKE y \in T
  <2>1. ~(y < x)
    BY <1>3 DEF OpToRel
  <2>2. x \in Nat /\ y \in Nat
    BY <1>1
  <2> QED BY <2>1, <2>2
<1> QED BY <1>4

\* A choice by the largest value of a key, among a finite set.
LEMMA MostBy ==
    ASSUME NEW S, S # {}, IsFiniteSet(S), NEW f \in [S -> Nat]
    PROVE  \E s \in S : \A t \in S : f[t] <= f[s]
<1> DEFINE Above(s) == {t \in S : f[t] > f[s]}
           g == [s \in S |-> Cardinality(Above(s))]
<1>1. \A s \in S : IsFiniteSet(Above(s)) /\ Cardinality(Above(s)) \in Nat
  BY FS_Subset, FS_CardinalityType
<1>2. g \in [S -> Nat]
  BY <1>1
<1>3. PICK s \in S : \A t \in S : g[s] <= g[t]
  <2> HIDE DEF g
  <2> QED BY <1>2, LeastBy
<1>4. ASSUME NEW t \in S, f[t] > f[s]
      PROVE  FALSE
  <2>1. f[t] \in Nat /\ f[s] \in Nat /\ \A u \in S : f[u] \in Nat
    OBVIOUS
  <2>2. \A u \in S : f[u] > f[t] => f[u] > f[s]
    BY <1>4, <2>1
  <2>3. Above(t) \subseteq Above(s) /\ t \in Above(s) /\ t \notin Above(t)
    BY <1>4, <2>1, <2>2
  <2>4. Cardinality(Above(s)) <= Cardinality(Above(t))
    BY <1>3
  <2> HIDE DEF Above, g
  <2>5. /\ Cardinality(Above(t)) <= Cardinality(Above(s))
        /\ Cardinality(Above(s)) = Cardinality(Above(t)) => Above(s) = Above(t)
    BY <1>1, <2>3, FS_Subset
  <2> QED BY <1>1, <2>3, <2>4, <2>5
<1>5. \A t \in S : f[t] <= f[s]
  <2> TAKE t \in S
  <2>1. f[t] \in Nat /\ f[s] \in Nat
    OBVIOUS
  <2> QED BY <1>4, <2>1
<1> QED BY <1>5
------------------------------------------------------------------------------
(* mark_dominated.                                                          *)

Ways(target) ==
    {w \in (DOMAIN rows) \X D!Counts(target) : D!Replaces(w[1], w[2], target)}

Ranking(n) ==
    /\ n \in Nat /\ rows \in [1..n -> Portions]
    /\ next \in 1..(n + 1)
    /\ by \in [1..n -> SUBSET (1..n)] /\ raised \in BOOLEAN
    /\ \A target \in next..n : by[target] = {}

\* The rounded division leaves out no way to replace a reward and lets none in
\* that does not replace it.
LEMMA AlternativesAreRight ==
    ASSUME NEW n, Ranking(n), NEW target \in 1..n,
           D!Considered(target), ~D!Divides(target)
    PROVE  /\ \A s \in D!Alternatives(target) :
                /\ s \in 1..n /\ D!Orders(s, target) \in D!Counts(target)
                /\ D!Replaces(s, D!Orders(s, target), target)
           /\ \A s \in 1..n, m \in Nat : D!Replaces(s, m, target) =>
                s \in D!Alternatives(target) /\ D!Cost(s, target) <= m * rows[s].crowns
<1> DEFINE a == rows[target].quantity
<1>1. DOMAIN rows = 1..n /\ \A r \in 1..n : rows[r] \in Portions
  BY DEF Ranking
<1>2. /\ a \in Nat /\ rows[target].crowns \in Nat
      /\ rows[target].usable /\ rows[target].family # D!NoFamily
  BY <1>1, RealPortions DEF D!Considered
<1>3. ASSUME NEW s \in D!Rivals(target)
      PROVE  /\ s \in 1..n /\ rows[s].quantity \in Nat \ {0} /\ rows[s].crowns \in Nat
             /\ D!Orders(s, target) \in 0..a
             /\ D!Orders(s, target) * rows[s].quantity >= a
             /\ \A m \in Nat : m * rows[s].quantity >= a => D!Orders(s, target) <= m
  <2>1. s \in 1..n /\ rows[s].family = rows[target].family /\ rows[s].quantity # 0
    BY <1>1 DEF D!Rivals, D!Divides
  <2>2. rows[s].quantity \in Nat \ {0} /\ rows[s].crowns \in Nat
    BY <1>1, <1>2, <2>1, RealPortions
  <2> QED BY <1>2, <2>1, <2>2, CeilIsRight DEF D!Orders
<1>4. ASSUME NEW s \in D!Alternatives(target)
      PROVE  /\ s \in 1..n /\ D!Orders(s, target) \in D!Counts(target)
             /\ D!Replaces(s, D!Orders(s, target), target)
  <2>1. s \in D!Rivals(target) /\ D!Cost(s, target) <= rows[target].crowns
    BY DEF D!Alternatives
  <2>2. D!MayReplace(s, target)
    BY <1>2, <2>1 DEF D!Rivals, D!MayReplace
  <2> HIDE DEF a
  <2> QED BY <1>3, <2>1, <2>2 DEF D!Counts, D!Cost, D!Replaces, a
<1>5. ASSUME NEW s \in 1..n, NEW m \in Nat, D!Replaces(s, m, target)
      PROVE  s \in D!Alternatives(target) /\ D!Cost(s, target) <= m * rows[s].crowns
  <2>1. /\ rows[s].family = rows[target].family /\ rows[s].usable
        /\ rows[s].crowns < rows[target].crowns
        /\ m * rows[s].quantity >= a /\ m * rows[s].crowns <= rows[target].crowns
    BY <1>5 DEF D!Replaces, D!MayReplace
  <2>6. s # target /\ s \in D!Rivals(target)
    BY <1>1, <1>2, <2>1 DEF D!Rivals
  <2>2. D!Orders(s, target) <= m /\ D!Orders(s, target) \in Nat /\ rows[s].crowns \in Nat
    BY <1>2, <1>3, <2>1, <2>6
  <2> DEFINE o == D!Orders(s, target)
             c == rows[s].crowns
  <2> HIDE DEF o, c
  <2>3. o * c <= m * c /\ o * c \in Nat /\ m * c \in Nat
    BY <2>2 DEF o, c
  <2>4. D!Cost(s, target) = o * c
    BY DEF D!Cost, o, c
  <2>5. D!Cost(s, target) <= m * c /\ D!Cost(s, target) <= rows[target].crowns
    BY <1>2, <2>1, <2>3, <2>4 DEF c
  <2>7. D!Total(s, target) >= rows[target].quantity
    BY <1>3, <2>6 DEF D!Total
  <2> QED BY <2>5, <2>6, <2>7 DEF D!Alternatives, c
<1> QED BY <1>4, <1>5

\* min finds one of the alternatives, and a cheapest one.
LEMMA BestIsCheapest ==
    ASSUME NEW n, Ranking(n), NEW target \in 1..n,
           D!Considered(target), ~D!Divides(target),
           NEW best, best = {s \in D!Alternatives(target) :
                               \A t \in D!Alternatives(target) : ~D!Better(t, s, target)}
    PROVE  /\ best = {} <=> D!Alternatives(target) = {}
           /\ \A s \in best : /\ s \in 1..n
                              /\ \A t \in D!Alternatives(target) :
                                   D!Cost(s, target) <= D!Cost(t, target)
<1> DEFINE found == D!Alternatives(target)
           Key(s) == D!Cost(s, target)
<1>1. \A s \in found : /\ s \in 1..n /\ D!Orders(s, target) \in Nat
                       /\ Key(s) \in Nat /\ D!Total(s, target) \in Nat
  <2> TAKE s \in found
  <2>1. s \in 1..n /\ D!Orders(s, target) \in D!Counts(target)
    BY AlternativesAreRight
  <2>2. rows[target] \in Portions /\ rows[s] \in Portions
    BY <2>1 DEF Ranking
  <2>3. rows[s].family = rows[target].family /\ rows[target].family # D!NoFamily
    BY DEF D!Alternatives, D!Rivals, D!Considered
  <2>4. /\ rows[s].crowns \in Nat /\ rows[s].quantity \in Nat
        /\ rows[target].quantity \in Nat
    BY <2>2, <2>3, RealPortions
  <2>5. D!Orders(s, target) \in Nat
    BY <2>1, <2>4 DEF D!Counts
  <2>6. Key(s) \in Nat /\ D!Total(s, target) \in Nat
    BY <2>4, <2>5 DEF D!Cost, D!Total
  <2> QED BY <2>1, <2>5, <2>6
<1>2. IsFiniteSet(found)
  <2>1. found \subseteq 1..n /\ n \in Nat
    BY <1>1 DEF Ranking
  <2>2. IsFiniteSet(1..n)
    BY <2>1, FS_Interval
  <2> QED BY <2>1, <2>2, FS_Subset
<1>3. ASSUME NEW s \in best
      PROVE  s \in 1..n /\ \A t \in found : Key(s) <= Key(t)
  <2>1. s \in found /\ \A t \in found : ~(Key(t) < Key(s))
    BY DEF D!Better
  <2> HIDE DEF found, Key
  <2> QED BY <1>1, <2>1
<1>4. ASSUME found # {}
      PROVE  best # {}
  <2> DEFINE f == [s \in found |-> Key(s)]
  <2>1. f \in [found -> Nat]
    BY <1>1
  <2>2. PICK a \in found : \A t \in found : Key(a) <= Key(t)
    <3>1. PICK a \in found : \A t \in found : f[a] <= f[t]
      <4> HIDE DEF f, found
      <4> QED BY <1>4, <2>1, LeastBy
    <3> QED BY <3>1
  <2> DEFINE A == {s \in found : Key(s) = Key(a)}
             g == [s \in A |-> D!Orders(s, target)]
  <2>3. g \in [A -> Nat] /\ a \in A
    BY <1>1
  <2>4. PICK b \in A : \A t \in A : D!Orders(b, target) <= D!Orders(t, target)
    <3>1. PICK b \in A : \A t \in A : g[b] <= g[t]
      <4> HIDE DEF g, A
      <4> QED BY <2>3, LeastBy
    <3> QED BY <3>1
  <2> DEFINE B == {s \in A : D!Orders(s, target) = D!Orders(b, target)}
             h == [s \in B |-> D!Total(s, target)]
  <2>5. h \in [B -> Nat] /\ b \in B /\ B \subseteq found
    BY <1>1
  <2>6. PICK c \in B : \A t \in B : D!Total(t, target) <= D!Total(c, target)
    <3>1. IsFiniteSet(B)
      <4> HIDE DEF B, found
      <4> QED BY <1>2, <2>5, FS_Subset
    <3>2. PICK c \in B : \A t \in B : h[t] <= h[c]
      <4> HIDE DEF h, B
      <4> QED BY <2>5, <3>1, MostBy
    <3> QED BY <3>2
  <2>7. ASSUME NEW t \in found
        PROVE  ~D!Better(t, c, target)
    <3>1. c \in found /\ Key(c) = Key(a) /\ D!Orders(c, target) = D!Orders(b, target)
      OBVIOUS
    <3>2. ~(Key(t) < Key(c))
      <4>1. Key(a) <= Key(t)
        BY <2>2
      <4> HIDE DEF Key, found
      <4> QED BY <1>1, <3>1, <4>1
    <3>3. CASE Key(t) = Key(c) /\ D!Orders(t, target) = D!Orders(c, target)
      <4>1. D!Total(t, target) <= D!Total(c, target)
        BY <2>6, <3>1, <3>3
      <4>2. ~(D!Total(t, target) > D!Total(c, target))
        <5> HIDE DEF found
        <5> QED BY <1>1, <3>1, <4>1
      <4> QED BY <3>2, <3>3, <4>2, <1>1, <3>1 DEF D!Better
    <3>4. CASE Key(t) = Key(c) /\ D!Orders(t, target) # D!Orders(c, target)
      <4>1. D!Orders(c, target) <= D!Orders(t, target)
        BY <2>4, <3>1, <3>4
      <4>2. ~(D!Orders(t, target) < D!Orders(c, target))
        <5> HIDE DEF found
        <5> QED BY <1>1, <3>1, <4>1
      <4> QED BY <3>2, <3>4, <4>2 DEF D!Better
    <3>5. CASE Key(t) # Key(c)
      BY <3>2, <3>5 DEF D!Better
    <3> QED BY <3>3, <3>4, <3>5
  <2> QED BY <2>7
<1>5. best \subseteq found
  OBVIOUS
<1> HIDE DEF found, Key
<1> QED BY <1>3, <1>4, <1>5 DEF found, Key

\* The note of one target: there is one exactly when something replaces it,
\* and it names the cheapest way.
RightNote(note, target) ==
    /\ note = {} <=> Ways(target) = {}
    /\ \A s \in note, w \in Ways(target) :
         D!Cost(s, target) <= w[2] * rows[w[1]].crowns

\* What one turn of the outer loop may write is a right note.
LEMMA NoteIsRight ==
    ASSUME NEW n, Ranking(n), NEW target \in 1..n,
           ~D!Divides(target), NEW found,
           found = (IF D!Considered(target) THEN D!Alternatives(target) ELSE {}),
           NEW best,
           \A s : s \in best <=> s \in found /\ \A t \in found : ~D!Better(t, s, target)
    PROVE  /\ best \subseteq 1..n
           /\ best = {} => RightNote({}, target)
           /\ \A s \in best : RightNote({s}, target)
<1>1. CASE ~D!Considered(target)
  <2>1. found = {} /\ best = {}
    BY <1>1
  <2>2. Ways(target) = {}
    BY <1>1 DEF Ways, D!Replaces, D!MayReplace, D!Considered
  <2> QED BY <2>1, <2>2 DEF RightNote
<1>2. CASE D!Considered(target)
  <2>1. found = D!Alternatives(target)
    BY <1>2
  <2>2. /\ best = {} <=> D!Alternatives(target) = {}
        /\ \A s \in best : /\ s \in 1..n
                           /\ \A t \in D!Alternatives(target) :
                                D!Cost(s, target) <= D!Cost(t, target)
    <3>1. best = {s \in D!Alternatives(target) :
                    \A t \in D!Alternatives(target) : ~D!Better(t, s, target)}
      BY <2>1
    <3> QED BY <1>2, <3>1, BestIsCheapest
  <2>3. DOMAIN rows = 1..n
    BY DEF Ranking
  <2>4. \A s \in D!Alternatives(target) : <<s, D!Orders(s, target)>> \in Ways(target)
    BY <1>2, <2>3, AlternativesAreRight DEF Ways
  <2>5. ASSUME NEW w \in Ways(target)
        PROVE  /\ w[1] \in D!Alternatives(target)
               /\ D!Cost(w[1], target) <= w[2] * rows[w[1]].crowns
               /\ w[2] \in Nat /\ rows[w[1]].crowns \in Nat
    <3>1. w[1] \in 1..n /\ w[2] \in D!Counts(target) /\ D!Replaces(w[1], w[2], target)
      BY <2>3 DEF Ways
    <3>2. rows[target].quantity \in Nat /\ rows[w[1]].crowns \in Nat
      BY <1>2, <3>1, RealPortions DEF Ranking, D!Replaces, D!MayReplace
    <3>3. w[2] \in Nat
      BY <3>1, <3>2 DEF D!Counts
    <3> QED BY <1>2, <3>1, <3>2, <3>3, AlternativesAreRight
  <2>6. D!Alternatives(target) = {} <=> Ways(target) = {}
    BY <2>4, <2>5
  <2>7. ASSUME NEW s \in best, NEW w \in Ways(target)
        PROVE  D!Cost(s, target) <= w[2] * rows[w[1]].crowns
    <3>1. D!Cost(s, target) <= D!Cost(w[1], target)
      BY <2>2, <2>5
    <3>2. \A t \in D!Alternatives(target) : D!Cost(t, target) \in Int
      <4> TAKE t \in D!Alternatives(target)
      <4>1. t \in 1..n /\ D!Orders(t, target) \in D!Counts(target)
        BY <1>2, AlternativesAreRight
      <4>2. rows[target].quantity \in Nat /\ rows[t].crowns \in Nat
        BY <1>2, <4>1, RealPortions DEF Ranking, D!Considered
      <4> QED BY <4>1, <4>2 DEF D!Counts, D!Cost
    <3>3. s \in D!Alternatives(target)
      BY <2>1
    <3>4. w[2] * rows[w[1]].crowns \in Int
      BY <2>5
    <3> QED BY <2>5, <3>1, <3>2, <3>3, <3>4
  <2> QED BY <2>2, <2>6, <2>7 DEF RightNote
<1> QED BY <1>1, <1>2

\* The inductive invariant of the marking.
MarkInv ==
    /\ \E n : Ranking(n)
    /\ \A target \in 1..(next - 1) : RightNote(by[target], target) /\ ~D!Divides(target)
    /\ raised => D!Divides(next) /\ next \in DOMAIN rows

\* One turn keeps it: it settles one more target, and no other note.
LEMMA MarkKeeps == MarkInv /\ [D!Next]_(D!vars) => MarkInv'
<1> SUFFICES ASSUME MarkInv, [D!Next]_(D!vars)
             PROVE  MarkInv'
  OBVIOUS
<1>1. PICK n : Ranking(n)
  BY DEF MarkInv
<1>2. CASE UNCHANGED D!vars
  <2>1. rows' = rows /\ next' = next /\ by' = by /\ raised' = raised
    BY <1>2 DEF D!vars
  <2>2. Ranking(n)'
    BY <1>1, <2>1 DEF Ranking
  <2>3. /\ \A target \in 1..(next - 1) : RightNote(by[target], target)'
        /\ \A target : D!Divides(target)' <=> D!Divides(target)
    BY <2>1 DEF MarkInv, RightNote, Ways, D!Counts, D!Replaces, D!MayReplace, D!Cost,
                D!Orders, D!Divides, D!Considered, D!Rivals
  <2> QED BY <2>1, <2>2, <2>3 DEF MarkInv
<1>4. CASE D!Raise
  <2>1. /\ rows' = rows /\ next' = next /\ by' = by /\ raised' = TRUE
        /\ next \in DOMAIN rows /\ D!Divides(next)
    BY <1>4 DEF D!Raise
  <2>2. Ranking(n)'
    BY <1>1, <2>1 DEF Ranking
  <2>3. /\ \A target \in 1..(next - 1) : RightNote(by[target], target)'
        /\ \A target : D!Divides(target)' <=> D!Divides(target)
    BY <2>1 DEF MarkInv, RightNote, Ways, D!Counts, D!Replaces, D!MayReplace, D!Cost,
                D!Orders, D!Divides, D!Considered, D!Rivals
  <2> QED BY <2>1, <2>2, <2>3 DEF MarkInv
<1>3. CASE D!Mark
  <2> DEFINE found == IF D!Considered(next) THEN D!Alternatives(next) ELSE {}
             best == {s \in found : \A t \in found : ~D!Better(t, s, next)}
  <2>1. /\ next \in 1..n /\ next' = next + 1 /\ rows' = rows
        /\ raised' = raised /\ ~raised /\ ~D!Divides(next)
        /\ \/ best = {} /\ by' = by
           \/ \E s \in best : by' = [by EXCEPT ![next] = {s}]
    BY <1>1, <1>3 DEF D!Mark, Ranking
  <2>2. /\ best \subseteq 1..n
        /\ best = {} => RightNote({}, next)
        /\ \A s \in best : RightNote({s}, next)
    <3>1. found = (IF D!Considered(next) THEN D!Alternatives(next) ELSE {})
      OBVIOUS
    <3>2. \A s : s \in best <=> s \in found /\ \A t \in found : ~D!Better(t, s, next)
      OBVIOUS
    <3>3. next \in 1..n /\ ~D!Divides(next)
      BY <2>1
    <3> HIDE DEF best, found
    <3> QED BY <1>1, <3>1, <3>2, <3>3, NoteIsRight
  <2> HIDE DEF best
  <2>3. /\ by' \in [1..n -> SUBSET (1..n)] /\ RightNote(by'[next], next)
        /\ \A target \in 1..n : target # next => by'[target] = by[target]
    <3>0. by \in [1..n -> SUBSET (1..n)] /\ by[next] = {}
      BY <1>1, <2>1 DEF Ranking
    <3>1. CASE best = {} /\ by' = by
      BY <2>2, <3>0, <3>1
    <3>2. CASE \E s \in best : by' = [by EXCEPT ![next] = {s}]
      <4>1. PICK s \in best : by' = [by EXCEPT ![next] = {s}]
        BY <3>2
      <4>2. s \in 1..n /\ RightNote({s}, next)
        BY <2>2
      <4>3. by'[next] = {s}
        BY <2>1, <3>0, <4>1
      <4> QED BY <2>1, <3>0, <4>1, <4>2, <4>3
    <3> QED BY <2>1, <3>1, <3>2
  <2>4. n \in Nat /\ next \in Int /\ 1 <= next /\ next <= n
    BY <1>1, <2>1 DEF Ranking
  <2>5. Ranking(n)'
    <3>1. next' \in 1..(n + 1)
      BY <2>1, <2>4
    <3>2. \A target \in next'..n : by'[target] = {}
      <4> TAKE target \in next'..n
      <4>1. target \in next..n /\ target # next /\ target \in 1..n
        BY <2>1, <2>4
      <4> QED BY <1>1, <2>3, <4>1 DEF Ranking
    <3> QED BY <1>1, <2>1, <2>3, <3>1, <3>2 DEF Ranking
  <2>6. \A target \in 1..(next' - 1) : RightNote(by'[target], target)
    <3> TAKE target \in 1..(next' - 1)
    <3>1. target \in 1..n /\ (target = next \/ target \in 1..(next - 1))
      BY <2>1, <2>4
    <3>2. CASE target = next
      BY <2>3, <3>2
    <3>3. CASE target # next
      BY <2>3, <3>1, <3>3 DEF MarkInv
    <3> QED BY <3>2, <3>3
  <2>7. \A target \in 1..(next' - 1) : RightNote(by[target], target)' /\ ~D!Divides(target)'
    <3> TAKE target \in 1..(next' - 1)
    <3>1. RightNote(by'[target], target) /\ ~D!Divides(target)
      <4>1. target = next \/ target \in 1..(next - 1)
        BY <2>1, <2>4
      <4> QED BY <2>1, <2>6, <4>1 DEF MarkInv
    <3>2. RightNote(by[target], target)'
      BY <2>1, <3>1 DEF RightNote, Ways, D!Counts, D!Replaces, D!MayReplace, D!Cost, D!Orders
    <3>3. D!Divides(target)' <=> D!Divides(target)
      BY <2>1 DEF D!Divides, D!Considered, D!Rivals
    <3> QED BY <3>1, <3>2, <3>3
  <2> QED BY <2>1, <2>5, <2>7 DEF MarkInv
<1> QED BY <1>2, <1>3, <1>4 DEF D!Next

\* The invariant holds at every state of the marking.
LEMMA MarkInvHolds == D!Spec => []MarkInv
<1>1. D!Init => MarkInv
  <2> SUFFICES ASSUME D!Init PROVE MarkInv
    OBVIOUS
  <2>1. PICK n \in 1..MaxRows : rows \in [1..n -> Portions]
    BY DEF D!Init
  <2>2. n \in Nat /\ n >= 1
    BY RealPortions
  <2>3. /\ next = 1 /\ next \in 1..(n + 1)
        /\ by = [r \in 1..n |-> {}] /\ raised = FALSE
    BY <2>1, <2>2 DEF D!Init
  <2>4. by \in [1..n -> SUBSET (1..n)]
    BY <2>3
  <2>5. \A target \in next..n : by[target] = {}
    BY <2>3
  <2>6. Ranking(n)
    BY <2>1, <2>2, <2>3, <2>4, <2>5 DEF Ranking
  <2>7. 1..(next - 1) = {}
    BY <2>3
  <2> QED BY <2>3, <2>6, <2>7 DEF MarkInv
<1>2. MarkInv /\ [D!Next]_(D!vars) => MarkInv'
  BY MarkKeeps
<1> QED BY <1>1, <1>2, PTL DEF D!Spec

\* mark_dominated marks a reward exactly when some number of orders of some
\* other reward replaces it, its note names the cheapest way to do so, and it
\* divides by zero exactly when a portion of zero may replace another reward.
THEOREM MarkedRewardsAreRight == D!Spec => []MarksAreRight
<1>1. ASSUME MarkInv
      PROVE  D!MarksAreRight
  <2>1. PICK n : Ranking(n)
    BY <1>1 DEF MarkInv
  <2>2. DOMAIN rows = 1..n /\ n \in Nat /\ next \in 1..(n + 1) /\ raised \in BOOLEAN
    BY <2>1 DEF Ranking
  <2>3. \A t \in 1..n :
          D!Divides(t) <=> \E s \in 1..n : D!MayReplace(s, t) /\ rows[s].quantity = 0
    <3> TAKE t \in 1..n
    <3>1. \A s \in 1..n : rows[s].crowns < rows[t].crowns /\ D!Considered(t) => s # t
      <4> TAKE s \in 1..n
      <4>1. D!Considered(t) => rows[t].crowns \in Nat
        BY <2>1, RealPortions DEF Ranking
      <4> QED BY <4>1
    <3>2. \A s \in 1..n : D!MayReplace(s, t) <=> D!Considered(t) /\ s \in D!Rivals(t)
      BY <2>2, <3>1 DEF D!MayReplace, D!Considered, D!Rivals
    <3> QED BY <2>2, <3>2 DEF D!Divides, D!Rivals
  <2>4. CASE raised
    BY <1>1, <2>2, <2>3, <2>4 DEF MarkInv, RightNote, Ways, D!MarksAreRight
  <2>5. CASE ~raised
    <3>1. next \notin 1..n => \A t \in 1..n : ~D!Divides(t)
      <4>1. next \notin 1..n => \A t \in 1..n : t \in 1..(next - 1)
        BY <2>2
      <4> QED BY <1>1, <4>1 DEF MarkInv
    <3> QED BY <1>1, <2>2, <2>3, <2>5, <3>1 DEF MarkInv, RightNote, Ways, D!MarksAreRight
  <2> QED BY <2>4, <2>5
<1>2. MarkInv => MarksAreRight
  BY <1>1 DEF MarksAreRight
<1> QED BY <1>2, MarkInvHolds, PTL

\* Replacing is transitive: m orders of s, each replaced by k orders of r.
LEMMA ReplacesComposes ==
    ASSUME NEW n, Ranking(n),
           NEW r \in 1..n, NEW s \in 1..n, NEW target \in 1..n,
           NEW k \in Nat, NEW m \in Nat,
           D!Replaces(r, k, s), D!Replaces(s, m, target)
    PROVE  D!Replaces(r, m * k, target)
<1>1. \A x \in {r, s, target} :
        rows[x].quantity \in Nat /\ rows[x].crowns \in Nat
  BY RealPortions DEF D!Replaces, D!MayReplace, Ranking
<1> DEFINE q1 == rows[r].quantity       c1 == rows[r].crowns
           q2 == rows[s].quantity       c2 == rows[s].crowns
           q3 == rows[target].quantity  c3 == rows[target].crowns
<1>2. /\ k * q1 >= q2 /\ k * c1 <= c2 /\ c1 < c2
      /\ m * q2 >= q3 /\ m * c2 <= c3 /\ c2 < c3
  BY DEF D!Replaces, D!MayReplace
<1>3. q1 \in Nat /\ q2 \in Nat /\ q3 \in Nat /\ c1 \in Nat /\ c2 \in Nat /\ c3 \in Nat
  BY <1>1
<1> HIDE DEF q1, q2, q3, c1, c2, c3
<1>4. m * (k * q1) >= m * q2 /\ m * (k * c1) <= m * c2
  <2>1. k * q1 \in Int /\ k * c1 \in Int
    BY <1>3
  <2>2. \A x, y \in Int : x <= y => m * x <= m * y
    OBVIOUS
  <2> QED BY <1>2, <1>3, <2>1, <2>2
<1>5. /\ (m * k) * q1 = m * (k * q1) /\ (m * k) * c1 = m * (k * c1)
      /\ (m * k) * q1 \in Int /\ (m * k) * c1 \in Int
      /\ m * q2 \in Int /\ m * c2 \in Int
  BY <1>3
<1>6. (m * k) * q1 >= q3 /\ (m * k) * c1 <= c3 /\ c1 < c3
  <2> DEFINE a == (m * k) * q1  b == m * q2  c == (m * k) * c1  d == m * c2
  <2>1. a >= b /\ c <= d /\ b >= q3 /\ d <= c3
    BY <1>2, <1>4, <1>5
  <2>2. a \in Int /\ b \in Int /\ c \in Int /\ d \in Int
    BY <1>5
  <2>3. a >= q3 /\ c <= c3
    <3> HIDE DEF a, b, c, d
    <3> QED BY <1>3, <2>1, <2>2
  <2> QED BY <1>2, <1>3, <2>3
<1> QED BY <1>6 DEF D!Replaces, D!MayReplace, q1, q2, q3, c1, c2, c3

\* Once the ranking is marked, every marked reward can be had from orders of
\* one that is not marked: following the notes never ends in another note,
\* since the replacement with the fewest crowns cannot itself be marked.
THEOREM UnmarkedRewardsSuffice == D!Spec => []UnmarkedSuffice
<1>1. ASSUME MarkInv
      PROVE  D!UnmarkedSuffice
  <2>1. PICK n : Ranking(n)
    BY <1>1 DEF MarkInv
  <2>2. DOMAIN rows = 1..n /\ n \in Nat /\ next \in 1..(n + 1)
    BY <2>1 DEF Ranking
  <2> SUFFICES ASSUME next \notin 1..n, NEW target \in 1..n, by[target] # {}
               PROVE  \E s \in 1..n, m \in D!Counts(target) :
                        by[s] = {} /\ D!Replaces(s, m, target)
    BY <2>2 DEF D!UnmarkedSuffice
  <2>3. ~D!Divides(target)
    BY <1>1, <2>2 DEF MarkInv
  <2>4. \A t \in 1..n : by[t] = {} <=> Ways(t) = {}
    <3>1. \A t \in 1..n : t \in 1..(next - 1)
      BY <2>2
    <3> QED BY <1>1, <3>1 DEF MarkInv, RightNote
  <2> DEFINE S == {s \in 1..n : \E m \in D!Counts(target) : D!Replaces(s, m, target)}
             f == [s \in S |-> rows[s].crowns]
  <2>5. S # {}
    BY <2>2, <2>4 DEF Ways
  <2>6. f \in [S -> Nat]
    BY <2>1, RealPortions DEF Ranking
  <2>7. PICK s \in S : \A r \in S : rows[s].crowns <= rows[r].crowns
    <3>1. PICK s \in S : \A r \in S : f[s] <= f[r]
      <4> HIDE DEF f, S
      <4> QED BY <2>5, <2>6, LeastBy
    <3> QED BY <3>1
  <2>8. PICK m \in D!Counts(target) : D!Replaces(s, m, target)
    OBVIOUS
  <2>9. ASSUME by[s] # {}
        PROVE  FALSE
    <3>1. PICK r \in 1..n, k \in D!Counts(s) : D!Replaces(r, k, s)
      BY <2>2, <2>4, <2>9 DEF Ways
    <3>2. /\ rows[target].quantity \in Nat /\ rows[s].quantity \in Nat
          /\ rows[r].crowns \in Nat /\ rows[s].crowns \in Nat
      BY <2>1, <2>8, <3>1, RealPortions DEF D!Replaces, D!MayReplace, Ranking
    <3>3. m \in Nat /\ k \in Nat /\ m * k \in Nat
      BY <3>2 DEF D!Counts
    <3>4. D!Replaces(r, m * k, target)
      BY <2>1, <2>8, <3>1, <3>3, ReplacesComposes
    <3>5. D!Considered(target)
      BY <2>8 DEF D!Replaces, D!MayReplace, D!Considered
    <3>6. r \in S
      <4>1. r \in D!Alternatives(target)
        BY <2>1, <2>3, <3>3, <3>4, <3>5, AlternativesAreRight
      <4> QED BY <2>1, <2>3, <3>5, <4>1, AlternativesAreRight
    <3>7. rows[r].crowns < rows[s].crowns
      BY <3>1 DEF D!Replaces, D!MayReplace
    <3> HIDE DEF S
    <3> QED BY <2>7, <3>2, <3>6, <3>7
  <2> QED BY <2>8, <2>9
<1>2. MarkInv => UnmarkedSuffice
  BY <1>1 DEF UnmarkedSuffice
<1> QED BY <1>2, MarkInvHolds, PTL
------------------------------------------------------------------------------
(* match_reward and _resolve.                                               *)

Priced(method) == {id \in M!Hits(method) : offer[id].price # 0}

Top(method) == {a \in Priced(method) : \A b \in Priced(method) : ~M!Preferred(b, a)}

\* The order of preference is that of one number, so it has no cycle.
Loss(a) ==
    (IF offer[a].active THEN 0 ELSE 4) + (IF offer[a].available THEN 0 ELSE 2)
      + (IF offer[a].categorised THEN 0 ELSE 1)

\* A candidate preferred to another loses less.
LEMMA PreferredIsALoss ==
    ASSUME offer \in [Ids -> M!Candidate], NEW a \in Ids, NEW b \in Ids,
           M!Preferred(b, a)
    PROVE  Loss(b) < Loss(a) /\ Loss(a) \in Nat /\ Loss(b) \in Nat
<1>1. /\ offer[a].active \in BOOLEAN /\ offer[b].active \in BOOLEAN
      /\ offer[a].available \in BOOLEAN /\ offer[b].available \in BOOLEAN
      /\ offer[a].categorised \in BOOLEAN /\ offer[b].categorised \in BOOLEAN
  BY DEF M!Candidate
<1> QED BY <1>1 DEF Loss, M!Preferred

\* A method that finds a price has candidates that no other is preferred to.
LEMMA TopIsNotEmpty ==
    ASSUME offer \in [Ids -> M!Candidate], NEW method, Priced(method) # {}
    PROVE  Top(method) # {}
<1> DEFINE P == Priced(method)
           f == [a \in P |-> Loss(a)]
<1>1. P \subseteq Ids
  BY DEF Priced, M!Hits
<1>2. f \in [P -> Nat]
  BY DEF Loss
<1>3. PICK a \in P : \A b \in P : f[a] <= f[b]
  <2> HIDE DEF f, P
  <2>1. P # {}
    BY DEF P
  <2> QED BY <1>2, <2>1, LeastBy
<1>4. \A b \in P : Loss(a) <= Loss(b)
  BY <1>3
<1>5. \A b \in P : ~M!Preferred(b, a)
  <2> TAKE b \in P
  <2>1. Loss(a) <= Loss(b)
    BY <1>4
  <2>2. M!Preferred(b, a) => Loss(b) < Loss(a) /\ Loss(a) \in Nat /\ Loss(b) \in Nat
    BY <1>1, PreferredIsALoss
  <2> QED BY <2>1, <2>2
<1> QED BY <1>5 DEF Top

\* What _resolve returns, whatever the candidates.
LEMMA ResolveIsRight ==
    ASSUME offer \in [Ids -> M!Candidate], NEW method
    PROVE  /\ M!Resolve(method).method = method
           /\ Priced(method) = {} => M!Resolve(method).status = "unmatched"
           /\ Priced(method) # {} =>
                /\ M!Resolve(method).status \in {"matched", "ambiguous"}
                /\ M!Resolve(method).status = "ambiguous" <=>
                     \E a, b \in Top(method) : offer[a].price # offer[b].price
                /\ M!Resolve(method).status = "matched" =>
                     M!Resolve(method).id \in Top(method)
<1>1. CASE Priced(method) = {}
  BY <1>1 DEF M!Resolve, M!Unmatched, Priced
<1>2. CASE Priced(method) # {}
  <2>1. M!Resolve(method) = M!Settle(Top(method), method)
    BY <1>2 DEF M!Resolve, Priced, Top
  <2>2. PICK a \in Top(method) : \A b \in Top(method) : a <= b
    <3> DEFINE S == Top(method)
               f == [s \in S |-> s]
    <3>1. S # {}
      BY <1>2, TopIsNotEmpty
    <3>2. f \in [S -> Nat]
      BY IdsAssumption DEF Top, Priced, M!Hits
    <3>3. PICK a \in S : \A b \in S : f[a] <= f[b]
      <4> HIDE DEF f, S
      <4> QED BY <3>1, <3>2, LeastBy
    <3> QED BY <3>3
  <2>3. (CHOOSE x \in Top(method) : \A b \in Top(method) : x <= b) \in Top(method)
    BY <2>2
  <2> HIDE DEF Top
  <2>4. CASE \E x, y \in Top(method) : offer[x].price # offer[y].price
    <3>1. M!Resolve(method) = [status |-> "ambiguous", id |-> 0, method |-> method]
      BY <2>1, <2>4 DEF M!Settle
    <3> QED BY <1>2, <2>4, <3>1
  <2>5. CASE ~\E x, y \in Top(method) : offer[x].price # offer[y].price
    <3>1. M!Resolve(method) =
            [status |-> "matched", method |-> method,
             id |-> CHOOSE x \in Top(method) : \A b \in Top(method) : x <= b]
      BY <2>1, <2>5 DEF M!Settle
    <3> QED BY <1>2, <2>3, <2>5, <3>1
  <2> QED BY <2>4, <2>5
<1> QED BY <1>1, <1>2

\* The inductive invariant of the loop over the methods: those already tried
\* found no price, and only their failure is remembered.
MatchInv ==
    /\ offer \in [Ids -> M!Candidate]
    /\ step \in 1..4
    /\ \A m \in 1..(step - 1) : Priced(m) = {}
    /\ failed = M!Pending \/ failed.status = "unmatched"
    /\ result = M!Pending \/ M!MatchIsRight

\* The property, of a result a step may give.
RightResult(r) ==
    LET first == {m \in 1..3 : Priced(m) # {} /\ \A k \in 1..(m - 1) : Priced(k) = {}}
    IN  /\ r.status = "unmatched" => first = {}
        /\ r.status \in {"matched", "ambiguous"} =>
             /\ first = {r.method}
             /\ r.status = "ambiguous" <=>
                  \E a, b \in Top(r.method) : offer[a].price # offer[b].price
             /\ r.status = "matched" => r.id \in Top(r.method)

\* The property is that of the result reached.
LEMMA MatchIsRightResult == M!MatchIsRight <=> RightResult(result)
BY DEF M!MatchIsRight, RightResult, Priced, Top

\* Each method that runs keeps it.
LEMMA MatchStepKeeps == MatchInv /\ [M!Next]_(M!vars) => MatchInv'
<1> SUFFICES ASSUME MatchInv, [M!Next]_(M!vars)
             PROVE  MatchInv'
  OBVIOUS
<1> USE DEF MatchInv
<1>1. CASE UNCHANGED M!vars
  <2>1. offer' = offer /\ step' = step /\ failed' = failed /\ result' = result
    BY <1>1 DEF M!vars
  <2>2. \A m : (Priced(m))' = Priced(m)
    BY <2>1 DEF Priced, M!Hits
  <2>3. (M!MatchIsRight)' <=> M!MatchIsRight
    BY <2>1 DEF M!MatchIsRight, M!Hits, M!Preferred
  <2> QED BY <2>1, <2>2, <2>3 DEF M!Pending
<1>2. CASE M!Skip
  <2>1. /\ step \in 1..3 /\ step' = step + 1 /\ M!Hits(step) = {}
        /\ offer' = offer /\ failed' = failed /\ result' = result /\ result = M!Pending
    BY <1>2 DEF M!Skip
  <2>2. Priced(step) = {}
    BY <2>1 DEF Priced
  <2>3. \A m \in 1..(step' - 1) : Priced(m)' = {}
    <3> TAKE m \in 1..(step' - 1)
    <3>1. m = step \/ m \in 1..(step - 1)
      BY <2>1
    <3>2. Priced(m) = {}
      BY <2>2, <3>1
    <3> QED BY <2>1, <3>2 DEF Priced, M!Hits
  <2>4. step' \in 1..4 /\ result' = M!Pending' /\ M!Pending' = M!Pending
    BY <2>1 DEF M!Pending
  <2> QED BY <2>1, <2>3, <2>4
<1>3. CASE M!Try
  <2> DEFINE r == M!Resolve(step)
  <2>1. step \in 1..3 /\ offer' = offer /\ M!Pending' = M!Pending
    BY <1>3 DEF M!Try, M!Pending
  <2>2. /\ r.method = step
        /\ Priced(step) = {} => r.status = "unmatched"
        /\ Priced(step) # {} =>
             /\ r.status \in {"matched", "ambiguous"}
             /\ r.status = "ambiguous" <=>
                  \E a, b \in Top(step) : offer[a].price # offer[b].price
             /\ r.status = "matched" => r.id \in Top(step)
    BY ResolveIsRight
  <2> HIDE DEF r
  <2>3. CASE step < 3 /\ r.status = "unmatched"
    <3>1. failed' = r /\ step' = step + 1 /\ result' = result /\ result = M!Pending
      BY <1>3, <2>3 DEF M!Try, r
    <3>2. Priced(step) = {}
      BY <2>2, <2>3
    <3>3. \A m \in 1..(step' - 1) : Priced(m)' = {}
      <4> TAKE m \in 1..(step' - 1)
      <4>1. m = step \/ m \in 1..(step - 1)
        BY <2>1, <3>1
      <4>2. Priced(m) = {}
        BY <3>2, <4>1
      <4> QED BY <2>1, <4>2 DEF Priced, M!Hits
    <3>4. step' \in 1..4
      BY <2>1, <3>1
    <3> QED BY <2>1, <2>3, <3>1, <3>3, <3>4
  <2>4. CASE ~(step < 3 /\ r.status = "unmatched")
    <3>1. failed' = failed /\ step' = step /\ result' = r
      BY <1>3, <2>4 DEF M!Try, r
    <3>2. RightResult(r)
      <4>1. CASE Priced(step) = {}
        <5>1. r.status = "unmatched" /\ step = 3
          BY <2>1, <2>2, <2>4, <4>1
        <5>2. \A m \in 1..3 : Priced(m) = {}
          <6> TAKE m \in 1..3
          <6>1. m = 3 \/ m \in 1..(step - 1)
            BY <5>1
          <6> QED BY <4>1, <5>1, <6>1
        <5> QED BY <5>1, <5>2 DEF RightResult
      <4>2. CASE Priced(step) # {}
        <5> DEFINE first == {m \in 1..3 : /\ Priced(m) # {}
                                          /\ \A k \in 1..(m - 1) : Priced(k) = {}}
        <5>1. step \in first
          BY <2>1, <4>2
        <5>2. \A m \in first : m = step
          <6> TAKE m \in first
          <6>1. ~(m < step)
            <7>1. m < step => m \in 1..(step - 1)
              BY <2>1
            <7> QED BY <7>1
          <6>2. ~(step < m)
            <7>1. step < m => step \in 1..(m - 1)
              BY <2>1
            <7> QED BY <4>2, <7>1
          <6> QED BY <2>1, <6>1, <6>2
        <5>3. first = {r.method}
          BY <2>2, <5>1, <5>2
        <5> QED BY <2>2, <4>2, <5>3 DEF RightResult
      <4> QED BY <4>1, <4>2
    <3>3. RightResult(result)'
      <4>1. \A m : Priced(m)' = Priced(m)
        BY <2>1 DEF Priced, M!Hits
      <4>2. \A m : Top(m)' = Top(m)
        BY <2>1, <4>1 DEF Top, M!Preferred
      <4> HIDE DEF MatchInv
      <4> QED BY <2>1, <3>1, <3>2, <4>1, <4>2 DEF RightResult
    <3>4. M!MatchIsRight'
      BY <3>3 DEF M!MatchIsRight, RightResult, Priced, Top
    <3>5. \A m \in 1..(step' - 1) : Priced(m)' = {}
      BY <2>1, <3>1 DEF Priced, M!Hits
    <3> QED BY <2>1, <3>1, <3>4, <3>5
  <2> QED BY <2>3, <2>4
<1>4. CASE M!Diagnose
  <2>1. /\ step = 4 /\ offer' = offer /\ step' = step /\ failed' = failed
        /\ result' = IF failed # M!Pending THEN failed ELSE M!Unmatched(0)
        /\ M!Pending' = M!Pending
    BY <1>4 DEF M!Diagnose, M!Pending
  <2>2. result'.status = "unmatched"
    BY <2>1 DEF M!Unmatched
  <2>3. \A m \in 1..3 : Priced(m)' = {}
    BY <2>1 DEF Priced, M!Hits
  <2>4. RightResult(result)'
    BY <2>2, <2>3 DEF RightResult
  <2>5. M!MatchIsRight'
    BY <2>4 DEF M!MatchIsRight, RightResult, Priced, Top
  <2>6. \A m \in 1..(step' - 1) : Priced(m)' = {}
    BY <2>1, <2>3
  <2> QED BY <2>1, <2>5, <2>6
<1> QED BY <1>1, <1>2, <1>3, <1>4 DEF M!Next

\* match_reward prices a reward by the first method that finds a price, from a
\* candidate that no other priced one is preferred to, reports candidates that
\* disagree on the price, and gives up only when no method finds a price.
THEOREM RewardsAreMatchedRight == M!Spec => []MatchIsRight
<1>1. M!Init => MatchInv
  BY DEF M!Init, MatchInv
<1>2. MatchInv /\ [M!Next]_(M!vars) => MatchInv'
  BY MatchStepKeeps
<1>3. MatchInv => MatchIsRight
  BY MatchIsRightResult DEF MatchIsRight, MatchInv, RightResult, M!Pending
<1> QED BY <1>1, <1>2, <1>3, PTL DEF M!Spec

------------------------------------------------------------------------------
(* iter_balanced_json.                                                       *)

\* Outside, and the two positions past the end that After may give.
Closed(s, C) == s \in C /\ \A p \in C : p <= Len(text) => After(p) \in C
Reach(s) ==
    {p \in s..(Len(text) + 2) : \A C \in SUBSET (s..(Len(text) + 2)) : Closed(s, C) => p \in C}

\* The pass stands outside strings at i: whatever comes before i leads to i.
Frontier(s, i) ==
    /\ i \in Reach(s)
    /\ \A p \in Reach(s) : p < i => p <= Len(text) /\ After(p) <= i

\* The characters c outside strings, up to e, and the braces that balance s.
Count(s, c, e) == Cardinality({p \in Outside(s) : p <= e /\ text[p] = c})
IsCloser(s, e) == text[e] = "close" /\ Count(s, "open", e) = Count(s, "close", e)

\* The pass has read the characters from s to i - 1 without an end: it is outside
\* strings, or in the string that begins at some p and does not end before i.
Reading(s, i, d, q, escape) ==
    /\ s \in 1..Len(text) /\ i \in s..(Len(text) + 1)
    /\ d = Count(s, "open", i - 1) - Count(s, "close", i - 1)
    /\ \A e \in Outside(s) : e < i => ~IsCloser(s, e)
    /\ IF q = "none" THEN Frontier(s, i) /\ ~escape
       ELSE \E p \in s..(i - 1) :
              /\ Frontier(s, p) /\ text[p] = q /\ i <= StringEnd(p)
              /\ \E k \in (p + 1)..i : Backslashes(p, k, i) /\ (escape <=> (i - k) % 2 = 1)

\* The inductive invariant of the scan.
ScanInv ==
    /\ text \in Seq(Alphabet) /\ offset \in Nat \ {0} /\ start \in Nat /\ index \in Nat
    /\ quote \in Quotes \cup {"none"} /\ escaped \in BOOLEAN
    /\ scan = "slice" => Reading(start, index, depth, quote, escaped)
    /\ scan = "load" =>
         /\ index - 1 \in Outside(start) /\ IsCloser(start, index - 1)
         /\ \A e \in Outside(start) : e < index - 1 => ~IsCloser(start, e)
    /\ scan = "unbalanced" => \A e \in Outside(start) : ~IsCloser(start, e)

\* A string ends at the first position where it may, or past the text.
LEMMA EndOfString ==
    ASSUME text \in Seq(Alphabet), NEW p \in 1..Len(text)
    PROVE  /\ StringEnd(p) \in (p + 1)..(Len(text) + 1)
           /\ StringEnd(p) <= Len(text) =>
                /\ text[StringEnd(p)] = text[p]
                /\ \E k \in (p + 1)..StringEnd(p) :
                     Backslashes(p, k, StringEnd(p)) /\ (StringEnd(p) - k) % 2 = 0
           /\ \A i \in (p + 1)..Len(text) : \A k \in (p + 1)..i :
                text[i] = text[p] /\ Backslashes(p, k, i) /\ (i - k) % 2 = 0 =>
                  StringEnd(p) <= i
<1> DEFINE T == {i \in (p + 1)..Len(text) :
                   /\ text[i] = text[p]
                   /\ \E k \in (p + 1)..i : Backslashes(p, k, i) /\ (i - k) % 2 = 0}
           S == {Len(text) + 1} \cup T
           f == [i \in S |-> i]
<1>0. Len(text) \in Nat
  OBVIOUS
<1>1. S # {} /\ f \in [S -> Nat]
  BY <1>0
<1>2. PICK x \in S : \A y \in S : x <= y
  <2>1. PICK x \in S : \A y \in S : f[x] <= f[y]
    <3> HIDE DEF f, S
    <3> QED BY <1>1, LeastBy
  <2> QED BY <2>1
<1>3. StringEnd(p) = Min(S)
  BY DEF StringEnd
<1> HIDE DEF S
<1>4. Min(S) \in S /\ \A y \in S : Min(S) <= y
  BY <1>2 DEF Min
<1>5. StringEnd(p) \in S /\ \A y \in S : StringEnd(p) <= y
  BY <1>3, <1>4
<1> QED BY <1>0, <1>5 DEF S

\* What follows a position lies behind it.
LEMMA AfterIsBehind ==
    ASSUME text \in Seq(Alphabet), NEW p \in 1..Len(text)
    PROVE  After(p) \in (p + 1)..(Len(text) + 2)
<1>1. StringEnd(p) \in (p + 1)..(Len(text) + 1) /\ Len(text) \in Nat
  BY EndOfString
<1> QED BY <1>1 DEF After

\* Outside is Reach, up to the end of the text.
LEMMA OutsideIsReach ==
    ASSUME text \in Seq(Alphabet), NEW s \in 1..Len(text)
    PROVE  Outside(s) = {p \in Reach(s) : p <= Len(text)}
<1>1. Len(text) \in Nat
  OBVIOUS
<1> DEFINE after == [p \in s..Len(text) |-> After(p)]
           closed == {C \in SUBSET (s..(Len(text) + 2)) :
                        s \in C /\ \A p \in C : p <= Len(text) => after[p] \in C}
<1>2. Outside(s) = {p \in s..Len(text) : \A C \in closed : p \in C}
  BY DEF Outside
<1>3. \A C \in SUBSET (s..(Len(text) + 2)) : C \in closed <=> Closed(s, C)
  <2> TAKE C \in SUBSET (s..(Len(text) + 2))
  <2>1. \A p \in C : p <= Len(text) => p \in s..Len(text) /\ after[p] = After(p)
    BY <1>1
  <2> HIDE DEF after
  <2> QED BY <2>1 DEF Closed
<1>4. \A p \in s..(Len(text) + 2) : (\A C \in closed : p \in C) <=> p \in Reach(s)
  <2>1. closed \subseteq SUBSET (s..(Len(text) + 2))
    OBVIOUS
  <2> HIDE DEF closed
  <2> QED BY <1>3, <2>1 DEF Reach
<1>5. Reach(s) \subseteq s..(Len(text) + 2)
  BY DEF Reach
<1> HIDE DEF closed
<1> QED BY <1>1, <1>2, <1>4, <1>5

\* Reach is itself closed.
LEMMA ReachIsClosed ==
    ASSUME text \in Seq(Alphabet), NEW s \in 1..Len(text)
    PROVE  /\ Reach(s) \subseteq s..(Len(text) + 2) /\ s \in Reach(s)
           /\ \A p \in Reach(s) : p <= Len(text) => After(p) \in Reach(s)
<1>1. Len(text) \in Nat
  OBVIOUS
<1>2. Reach(s) \subseteq s..(Len(text) + 2)
  BY DEF Reach
<1>3. s \in Reach(s)
  BY <1>1 DEF Reach, Closed
<1>4. ASSUME NEW p \in Reach(s), p <= Len(text)
      PROVE  After(p) \in Reach(s)
  <2>1. p \in s..Len(text) /\ p \in 1..Len(text)
    BY <1>1, <1>2, <1>4
  <2>2. After(p) \in s..(Len(text) + 2)
    <3>1. After(p) \in (p + 1)..(Len(text) + 2)
      BY <2>1, AfterIsBehind
    <3> QED BY <1>1, <2>1, <3>1
  <2>3. \A C \in SUBSET (s..(Len(text) + 2)) : Closed(s, C) => After(p) \in C
    BY <1>4 DEF Reach, Closed
  <2> QED BY <2>2, <2>3 DEF Reach
<1> QED BY <1>2, <1>3, <1>4

\* A frontier moves on to what follows it, and nothing lies in between.
LEMMA FrontierMoves ==
    ASSUME text \in Seq(Alphabet), NEW s \in 1..Len(text), NEW i \in 1..Len(text), Frontier(s, i)
    PROVE  /\ Frontier(s, After(i))
           /\ \A p \in Reach(s) : p <= i \/ p >= After(i)
<1> DEFINE a == After(i)
           C == {p \in Reach(s) : p <= i \/ p >= a}
<1>0. /\ Len(text) \in Nat /\ a \in (i + 1)..(Len(text) + 2) /\ i \in Int /\ a \in Int
      /\ Reach(s) \subseteq Int /\ s <= i
  <2>1. Reach(s) \subseteq s..(Len(text) + 2) /\ i \in Reach(s)
    BY ReachIsClosed DEF Frontier
  <2>2. a \in (i + 1)..(Len(text) + 2)
    BY AfterIsBehind
  <2> HIDE DEF a
  <2> QED BY <2>1, <2>2
<1>1. C \in SUBSET (s..(Len(text) + 2)) /\ s \in C
  BY <1>0, ReachIsClosed
<1>2. ASSUME NEW p \in C, p <= Len(text)
      PROVE  After(p) \in C
  <2>1. After(p) \in Reach(s) /\ p \in Int /\ After(p) \in Int /\ After(p) > p
    <3>1. p \in Reach(s) /\ p \in s..Len(text) /\ p \in 1..Len(text)
      BY <1>0, <1>1, <1>2
    <3>2. After(p) \in (p + 1)..(Len(text) + 2)
      BY <3>1, AfterIsBehind
    <3> QED BY <1>0, <1>2, <3>1, <3>2, ReachIsClosed
  <2>2. CASE p < i
    <3>1. After(p) <= i
      BY <2>2 DEF Frontier
    <3> QED BY <2>1, <3>1
  <2>3. CASE p = i
    BY <2>1, <2>3, <1>0
  <2>4. CASE p > i
    <3>1. p >= a
      BY <1>0, <2>1, <2>4
    <3>2. After(p) >= a
      BY <1>0, <2>1, <3>1
    <3> QED BY <2>1, <3>2
  <2> HIDE DEF C
  <2> QED BY <1>0, <2>1, <2>2, <2>3, <2>4
<1>3. Reach(s) \subseteq C
  <2>1. Closed(s, C)
    BY <1>1, <1>2 DEF Closed
  <2> HIDE DEF C
  <2> QED BY <1>1, <2>1 DEF Reach
<1>4. \A p \in Reach(s) : p <= i \/ p >= a
  BY <1>3
<1>5. a \in Reach(s)
  BY <1>0, ReachIsClosed DEF Frontier
<1>6. ASSUME NEW p \in Reach(s), p < a
      PROVE  p <= Len(text) /\ After(p) <= a
  <2>1. p \in Int /\ p <= i
    <3> HIDE DEF a
    <3> QED BY <1>0, <1>4, <1>6
  <2>2. CASE p = i
    BY <1>0, <2>2
  <2>3. CASE p < i
    <3>1. After(p) <= i /\ p <= Len(text)
      BY <2>3 DEF Frontier
    <3>2. p \in 1..Len(text)
      BY <1>0, <3>1, ReachIsClosed
    <3>3. After(p) \in Int
      BY <3>2, AfterIsBehind
    <3> HIDE DEF a
    <3> QED BY <1>0, <3>1, <3>3
  <2> HIDE DEF a
  <2> QED BY <1>0, <2>1, <2>2, <2>3
<1> QED BY <1>4, <1>5, <1>6 DEF Frontier

\* The backslashes before a position begin at one place only.
LEMMA OneRun ==
    ASSUME NEW p \in Int, NEW i \in Int, NEW k \in (p + 1)..i, NEW j \in (p + 1)..i,
           Backslashes(p, k, i), Backslashes(p, j, i)
    PROVE  k = j
<1>1. ~(k < j)
  <2>1. k < j => j - 1 \in k..(i - 1) /\ j # p + 1
    OBVIOUS
  <2> QED BY <2>1 DEF Backslashes
<1>2. ~(j < k)
  <2>1. j < k => k - 1 \in j..(i - 1) /\ k # p + 1
    OBVIOUS
  <2> QED BY <2>1 DEF Backslashes
<1> QED BY <1>1, <1>2

\* One more character counts when it is outside strings.
LEMMA CountMoves ==
    ASSUME text \in Seq(Alphabet), NEW s \in 1..Len(text), NEW i \in 1..Len(text), NEW c
    PROVE  /\ Count(s, c, i) \in Nat /\ Count(s, c, i - 1) \in Nat
           /\ Count(s, c, i) = Count(s, c, i - 1)
                + (IF i \in Outside(s) /\ text[i] = c THEN 1 ELSE 0)
<1> DEFINE S(e) == {p \in Outside(s) : p <= e /\ text[p] = c}
<1>1. Outside(s) \subseteq 1..Len(text) /\ Len(text) \in Nat
  BY DEF Outside
<1>2. IsFiniteSet(1..Len(text))
  BY <1>1, FS_Interval
<1>3. S(i) \subseteq 1..Len(text) /\ S(i - 1) \subseteq 1..Len(text)
  BY <1>1
<1>4. IsFiniteSet(S(i)) /\ IsFiniteSet(S(i - 1))
  BY <1>2, <1>3, FS_Subset
<1>5. Cardinality(S(i)) \in Nat /\ Cardinality(S(i - 1)) \in Nat
  BY <1>4, FS_CardinalityType
<1>6. S(i) = IF i \in Outside(s) /\ text[i] = c THEN S(i - 1) \cup {i} ELSE S(i - 1)
  <2>1. \A p \in Outside(s) : p <= i <=> p <= i - 1 \/ p = i
    BY <1>1
  <2> QED BY <1>1, <2>1
<1>7. i \notin S(i - 1)
  BY <1>1
<1>8. Cardinality(S(i)) = Cardinality(S(i - 1))
        + (IF i \in Outside(s) /\ text[i] = c THEN 1 ELSE 0)
  <2>1. Cardinality(S(i - 1) \cup {i}) = Cardinality(S(i - 1)) + 1
    <3> HIDE DEF S
    <3> QED BY <1>4, <1>7, FS_AddElement
  <2>2. CASE i \in Outside(s) /\ text[i] = c
    <3>1. S(i) = S(i - 1) \cup {i}
      BY <1>6, <2>2
    <3> HIDE DEF S
    <3> QED BY <2>1, <2>2, <3>1
  <2>3. CASE ~(i \in Outside(s) /\ text[i] = c)
    <3>1. S(i) = S(i - 1)
      BY <1>6, <2>3
    <3> HIDE DEF S
    <3> QED BY <1>5, <2>3, <3>1
  <2> QED BY <2>2, <2>3
<1> QED BY <1>5, <1>8 DEF Count

\* One character outside strings: it opens a string, counts, or closes the first
\* brace, unless the pass goes on.
LEMMA ReadsOutside ==
    ASSUME text \in Seq(Alphabet), NEW s, NEW i, NEW d, NEW escape \in BOOLEAN,
           Reading(s, i, d, "none", escape), i <= Len(text)
    PROVE  /\ text[i] \in Quotes => Reading(s, i + 1, d, text[i], FALSE)
           /\ text[i] = "backslash" => Reading(s, i + 1, d, "none", FALSE)
           /\ text[i] = "open" => Reading(s, i + 1, d + 1, "none", FALSE)
           /\ text[i] = "close" /\ d # 1 => Reading(s, i + 1, d - 1, "none", FALSE)
           /\ text[i] = "close" /\ d = 1 => i \in Outside(s) /\ IsCloser(s, i)
<1>1. /\ s \in 1..Len(text) /\ i \in s..Len(text) /\ i \in 1..Len(text)
      /\ Len(text) \in Nat /\ i + 1 \in s..(Len(text) + 1)
  <2>1. s \in 1..Len(text) /\ i \in s..(Len(text) + 1)
    BY DEF Reading
  <2>2. Len(text) \in Nat
    OBVIOUS
  <2> QED BY <2>1, <2>2
<1>2. Frontier(s, i) /\ i \in Outside(s)
  BY <1>1, OutsideIsReach DEF Reading, Frontier
<1> DEFINE o == Count(s, "open", i)       c == Count(s, "close", i)
           before == Count(s, "open", i - 1)  closed == Count(s, "close", i - 1)
<1>3. d = before - closed
  BY DEF Reading
<1>4. /\ o \in Nat /\ c \in Nat /\ before \in Nat /\ closed \in Nat
      /\ o = before + (IF text[i] = "open" THEN 1 ELSE 0)
      /\ c = closed + (IF text[i] = "close" THEN 1 ELSE 0)
  BY <1>1, <1>2, CountMoves
<1> HIDE DEF o, c, before, closed
<1>5. /\ d \in Int
      /\ text[i] = "open" => d + 1 = o - c
      /\ text[i] = "close" => d - 1 = o - c
      /\ text[i] # "open" /\ text[i] # "close" => d = o - c
  <2>1. d \in Int
    BY <1>3, <1>4
  <2>2. CASE text[i] = "open"
    <3>1. o = before + 1 /\ c = closed /\ text[i] # "close"
      BY <1>4, <2>2
    <3> QED BY <1>3, <1>4, <2>1, <2>2, <3>1
  <2>3. CASE text[i] = "close"
    <3>1. o = before /\ c = closed + 1 /\ text[i] # "open"
      BY <1>4, <2>3
    <3> QED BY <1>3, <1>4, <2>1, <2>3, <3>1
  <2>4. CASE text[i] # "open" /\ text[i] # "close"
    <3>1. o = before /\ c = closed
      BY <1>4, <2>4
    <3> QED BY <1>3, <2>1, <2>4, <3>1
  <2> QED BY <2>1, <2>2, <2>3, <2>4
<1>6. (i + 1) - 1 = i
  BY <1>1
<1>7. \A e \in Outside(s) : e < i => ~IsCloser(s, e)
  BY DEF Reading
<1>8. ASSUME ~IsCloser(s, i)
      PROVE  \A e \in Outside(s) : e < i + 1 => ~IsCloser(s, e)
  <2>1. \A e \in Outside(s) : e < i + 1 => e < i \/ e = i
    BY <1>1 DEF Outside
  <2> QED BY <1>7, <1>8, <2>1
<1>9. text[i] # "close" => ~IsCloser(s, i)
  BY DEF IsCloser
<1>10. text[i] \notin Quotes => Frontier(s, i + 1)
  BY <1>1, <1>2, FrontierMoves DEF After
<1>11. CASE text[i] \in Quotes
  <2>1. i + 1 <= StringEnd(i) /\ StringEnd(i) \in Int
    BY <1>1, EndOfString
  <2>2. Backslashes(i, i + 1, i + 1)
    BY <1>1 DEF Backslashes
  <2>3. i \in s..((i + 1) - 1) /\ i + 1 \in (i + 1)..(i + 1) /\ ((i + 1) - (i + 1)) % 2 = 0
    BY <1>1
  <2>4. text[i] # "open" /\ text[i] # "close" /\ text[i] # "none" /\ text[i] # "backslash"
    BY <1>11 DEF Quotes
  <2>5. d = Count(s, "open", (i + 1) - 1) - Count(s, "close", (i + 1) - 1)
    BY <1>5, <1>6, <2>4 DEF o, c
  <2>6. \E p \in s..((i + 1) - 1) :
           /\ Frontier(s, p) /\ text[p] = text[i] /\ i + 1 <= StringEnd(p)
           /\ \E k \in (p + 1)..(i + 1) :
                Backslashes(p, k, i + 1) /\ (FALSE <=> ((i + 1) - k) % 2 = 1)
    BY <1>2, <2>1, <2>2, <2>3
  <2>7. Reading(s, i + 1, d, text[i], FALSE)
    BY <1>1, <1>8, <1>9, <2>4, <2>5, <2>6 DEF Reading
  <2> QED BY <2>4, <2>7
<1>12. CASE text[i] = "backslash"
  <2>1. text[i] \notin Quotes /\ text[i] # "open" /\ text[i] # "close"
    BY <1>12 DEF Quotes
  <2>2. d = Count(s, "open", (i + 1) - 1) - Count(s, "close", (i + 1) - 1)
    BY <1>5, <1>6, <2>1 DEF o, c
  <2>3. Reading(s, i + 1, d, "none", FALSE)
    BY <1>1, <1>8, <1>9, <1>10, <2>1, <2>2 DEF Reading
  <2> QED BY <2>1, <2>3
<1>13. CASE text[i] = "open"
  <2>1. text[i] \notin Quotes /\ text[i] # "backslash" /\ text[i] # "close"
    BY <1>13 DEF Quotes
  <2>2. d + 1 = Count(s, "open", (i + 1) - 1) - Count(s, "close", (i + 1) - 1)
    BY <1>5, <1>6, <1>13 DEF o, c
  <2>3. Reading(s, i + 1, d + 1, "none", FALSE)
    BY <1>1, <1>8, <1>9, <1>10, <2>1, <2>2 DEF Reading
  <2> QED BY <2>1, <2>3
<1>14. CASE text[i] = "close"
  <2>1. text[i] \notin Quotes /\ text[i] # "backslash" /\ text[i] # "open"
    BY <1>14 DEF Quotes
  <2>2. d - 1 = Count(s, "open", (i + 1) - 1) - Count(s, "close", (i + 1) - 1)
    BY <1>5, <1>6, <1>14 DEF o, c
  <2>3. IsCloser(s, i) <=> d = 1
    <3>1. d - 1 = o - c
      BY <1>5, <1>14
    <3>2. o = c <=> d = 1
      BY <1>4, <1>5, <3>1
    <3> QED BY <1>14, <3>2 DEF IsCloser, o, c
  <2>4. d # 1 => Reading(s, i + 1, d - 1, "none", FALSE)
    BY <1>1, <1>8, <1>10, <2>1, <2>2, <2>3 DEF Reading
  <2> QED BY <1>2, <2>1, <2>3, <2>4
<1> QED BY <1>11, <1>12, <1>13, <1>14

\* One character inside a string: the quote that ends it, or any other.
LEMMA ReadsInside ==
    ASSUME text \in Seq(Alphabet), NEW s, NEW i, NEW d, NEW q \in Quotes,
           NEW escape \in BOOLEAN, Reading(s, i, d, q, escape), i <= Len(text)
    PROVE  Reading(s, i + 1, d, IF ~escape /\ text[i] = q THEN "none" ELSE q,
                   ~escape /\ text[i] = "backslash")
<1>0. q # "none" /\ q # "backslash"
  BY DEF Quotes
<1>1. /\ s \in 1..Len(text) /\ i \in s..Len(text) /\ i \in 1..Len(text)
      /\ Len(text) \in Nat /\ i + 1 \in s..(Len(text) + 1) /\ (i + 1) - 1 = i
  <2>1. s \in 1..Len(text) /\ i \in s..(Len(text) + 1)
    BY DEF Reading
  <2>2. Len(text) \in Nat
    OBVIOUS
  <2> QED BY <2>1, <2>2
<1>2. PICK p \in s..(i - 1) :
        /\ Frontier(s, p) /\ text[p] = q /\ i <= StringEnd(p)
        /\ \E k \in (p + 1)..i : Backslashes(p, k, i) /\ (escape <=> (i - k) % 2 = 1)
  BY <1>0 DEF Reading
<1>3. PICK k \in (p + 1)..i : Backslashes(p, k, i) /\ (escape <=> (i - k) % 2 = 1)
  BY <1>2
<1>4. p \in 1..Len(text) /\ p \in Int /\ i \in Int /\ p < i /\ k \in Int
  BY <1>1, <1>3
<1>5. StringEnd(p) \in Int /\ After(p) = StringEnd(p) + 1
  BY <1>2, <1>4, EndOfString DEF After
<1>6. i \notin Outside(s)
  <2>1. \A r \in Reach(s) : r <= p \/ r >= After(p)
    BY <1>1, <1>2, <1>4, FrontierMoves
  <2>2. ~(i <= p) /\ ~(i >= After(p))
    BY <1>2, <1>4, <1>5
  <2> QED BY <1>1, <2>1, <2>2, OutsideIsReach
<1>7. d = Count(s, "open", (i + 1) - 1) - Count(s, "close", (i + 1) - 1)
  <2>1. \A c : Count(s, c, i) = Count(s, c, i - 1)
    <3> TAKE c
    <3>1. /\ Count(s, c, i - 1) \in Nat
          /\ Count(s, c, i) = Count(s, c, i - 1)
               + (IF i \in Outside(s) /\ text[i] = c THEN 1 ELSE 0)
      BY <1>1, CountMoves
    <3> QED BY <1>6, <3>1
  <2> QED BY <1>1, <2>1 DEF Reading
<1>8. \A e \in Outside(s) : e < i + 1 => ~IsCloser(s, e)
  <2>1. \A e \in Outside(s) : e \in Int /\ e # i
    <3>1. Outside(s) \subseteq s..Len(text)
      BY DEF Outside
    <3> QED BY <1>1, <1>6, <3>1
  <2>2. \A e \in Outside(s) : e < i + 1 => e < i
    BY <1>1, <2>1
  <2> QED BY <2>2 DEF Reading
<1>9. CASE ~escape /\ text[i] = q
  <2>1. (i - k) % 2 = 0
    BY <1>3, <1>4, <1>9
  <2>2. i \in (p + 1)..Len(text)
    BY <1>1, <1>4
  <2>3. StringEnd(p) <= i
    BY <1>2, <1>3, <1>4, <1>9, <2>1, <2>2, EndOfString
  <2>4. After(p) = i + 1
    BY <1>2, <1>4, <1>5, <2>3
  <2>5. Frontier(s, i + 1)
    BY <1>1, <1>2, <1>4, <2>4, FrontierMoves
  <2>6. ~(~escape /\ text[i] = "backslash")
    BY <1>0, <1>9
  <2> QED BY <1>1, <1>7, <1>8, <1>9, <2>5, <2>6 DEF Reading
<1>10. CASE ~(~escape /\ text[i] = q)
  <2>1. i + 1 <= StringEnd(p)
    <3>1. ASSUME i = StringEnd(p)
          PROVE  FALSE
      <4>1. text[i] = text[p] /\ \E j \in (p + 1)..i : Backslashes(p, j, i) /\ (i - j) % 2 = 0
        BY <1>1, <1>4, <3>1, EndOfString
      <4>2. PICK j \in (p + 1)..i : Backslashes(p, j, i) /\ (i - j) % 2 = 0
        BY <4>1
      <4>3. j = k
        BY <1>3, <1>4, <4>2, OneRun
      <4>4. (i - k) % 2 # 1
        BY <4>2, <4>3
      <4> QED BY <1>2, <1>3, <1>10, <4>1, <4>4
    <3> QED BY <1>2, <1>4, <1>5, <3>1
  <2>2. \E j \in (p + 1)..(i + 1) :
          /\ Backslashes(p, j, i + 1)
          /\ (~escape /\ text[i] = "backslash") <=> ((i + 1) - j) % 2 = 1
    <3>1. CASE text[i] = "backslash"
      <4>1. Backslashes(p, k, i + 1)
        BY <1>3, <1>4, <3>1 DEF Backslashes
      <4>2. ((i + 1) - k) % 2 = 1 <=> ~((i - k) % 2 = 1)
        BY <1>4
      <4>3. k \in (p + 1)..(i + 1)
        BY <1>4
      <4> QED BY <1>3, <3>1, <4>1, <4>2, <4>3
    <3>2. CASE text[i] # "backslash"
      <4>1. Backslashes(p, i + 1, i + 1)
        BY <1>4, <3>2 DEF Backslashes
      <4>2. ~(((i + 1) - (i + 1)) % 2 = 1) /\ i + 1 \in (p + 1)..(i + 1)
        BY <1>4
      <4> QED BY <3>2, <4>1, <4>2
    <3> QED BY <3>1, <3>2
  <2>3. p \in s..((i + 1) - 1)
    BY <1>1, <1>4
  <2>4. Reading(s, i + 1, d, q, ~escape /\ text[i] = "backslash")
    <3> DEFINE e == ~escape /\ text[i] = "backslash"
    <3>1. \E r \in s..((i + 1) - 1) :
            /\ Frontier(s, r) /\ text[r] = q /\ i + 1 <= StringEnd(r)
            /\ \E j \in (r + 1)..(i + 1) :
                 Backslashes(r, j, i + 1) /\ (e <=> ((i + 1) - j) % 2 = 1)
      BY <1>2, <2>1, <2>2, <2>3
    <3> HIDE DEF e
    <3>2. Reading(s, i + 1, d, q, e)
      BY <1>0, <1>1, <1>7, <1>8, <3>1 DEF Reading
    <3> QED BY <3>2 DEF e
  <2> QED BY <1>10, <2>4
<1> QED BY <1>9, <1>10

\* Closers says what IsCloser does.
LEMMA ClosersAreClosers ==
    ASSUME NEW s
    PROVE  Closers(Outside(s)) = {e \in Outside(s) : IsCloser(s, e)}
BY DEF Closers, IsCloser, Count

\* The pass begins at a brace, with nothing before it.
LEMMA ReadingBegins ==
    ASSUME text \in Seq(Alphabet), NEW s \in 1..Len(text)
    PROVE  Reading(s, s, 0, "none", FALSE)
<1>1. Outside(s) \subseteq s..Len(text) /\ Len(text) \in Nat /\ s \in Int
  BY DEF Outside
<1>2. \A e \in Outside(s) : ~(e < s) /\ ~(e <= s - 1)
  BY <1>1
<1>3. \A c : Count(s, c, s - 1) = 0
  <2> TAKE c
  <2>1. {p \in Outside(s) : p <= s - 1 /\ text[p] = c} = {}
    BY <1>2
  <2> QED BY <2>1, FS_EmptySet DEF Count
<1>4. 0 = Count(s, "open", s - 1) - Count(s, "close", s - 1)
  BY <1>3
<1>5. Frontier(s, s)
  <2>1. Reach(s) \subseteq s..(Len(text) + 2) /\ s \in Reach(s)
    BY ReachIsClosed
  <2>2. \A p \in Reach(s) : ~(p < s)
    BY <1>1, <2>1
  <2> QED BY <2>1, <2>2 DEF Frontier
<1>6. s \in s..(Len(text) + 1)
  BY <1>1
<1> QED BY <1>2, <1>4, <1>5, <1>6 DEF Reading

\* The text never changes, and with it what lies outside strings.
LEMMA ScanFrame ==
    ASSUME text' = text
    PROVE  \A s : /\ (Outside(s))' = Outside(s)
                  /\ \A e : (IsCloser(s, e))' <=> IsCloser(s, e)
                  /\ \A i, d, q, x : (Reading(s, i, d, q, x))' <=> Reading(s, i, d, q, x)
BY DEF Outside, After, StringEnd, Backslashes, IsCloser, Count, Reading, Frontier,
       Reach, Closed

\* Find looks for the next brace from the offset on.
LEMMA NextBrace ==
    ASSUME text \in Seq(Alphabet), offset \in Nat \ {0},
           NEW braces, braces = {i \in offset..Len(text) : text[i] = "open"}, braces # {}
    PROVE  Min(braces) \in offset..Len(text)
<1>1. Len(text) \in Nat /\ braces \subseteq offset..Len(text)
  OBVIOUS
<1> DEFINE f == [i \in braces |-> i]
<1>2. f \in [braces -> Nat]
  BY <1>1
<1>3. PICK x \in braces : \A y \in braces : x <= y
  <2>1. PICK x \in braces : \A y \in braces : f[x] <= f[y]
    <3> HIDE DEF f
    <3> QED BY <1>2, LeastBy
  <2> QED BY <2>1
<1>4. Min(braces) \in braces
  BY <1>3 DEF Min
<1> QED BY <1>1, <1>4

\* The inductive invariant of the scan, by the step.
LEMMA ScanStepKeeps == ScanInv /\ [ScanNext]_scanVars => ScanInv'
<1> SUFFICES ASSUME ScanInv, [ScanNext]_scanVars
             PROVE  ScanInv'
  OBVIOUS
<1>1. text \in Seq(Alphabet) /\ Len(text) \in Nat /\ text' = text
  BY DEF ScanInv, ScanNext, scanVars, Find, ReadOne, Unbalanced, Load
<1>2. \A s : /\ (Outside(s))' = Outside(s)
             /\ \A e : (IsCloser(s, e))' <=> IsCloser(s, e)
             /\ \A i, d, q, x : (Reading(s, i, d, q, x))' <=> Reading(s, i, d, q, x)
  BY <1>1, ScanFrame
<1>3. ScanInv' <=>
        /\ offset' \in Nat \ {0} /\ start' \in Nat /\ index' \in Nat
        /\ quote' \in Quotes \cup {"none"} /\ escaped' \in BOOLEAN
        /\ scan' = "slice" => Reading(start', index', depth', quote', escaped')
        /\ scan' = "load" =>
             /\ index' - 1 \in Outside(start') /\ IsCloser(start', index' - 1)
             /\ \A e \in Outside(start') : e < index' - 1 => ~IsCloser(start', e)
        /\ scan' = "unbalanced" => \A e \in Outside(start') : ~IsCloser(start', e)
  BY <1>1, <1>2 DEF ScanInv
<1>4. CASE UNCHANGED scanVars
  BY <1>3, <1>4 DEF ScanInv, scanVars
<1>5. CASE Find
  <2> DEFINE braces == {i \in offset..Len(text) : text[i] = "open"}
  <2>1. /\ offset' = offset /\ quote' = "none" /\ escaped' = FALSE /\ depth' = 0
        /\ \/ scan' = "ended" /\ start' = start /\ index' = index
           \/ /\ braces # {} /\ scan' = "slice"
              /\ start' = Min(braces) /\ index' = start'
    BY <1>5 DEF Find
  <2>2. braces # {} => Min(braces) \in 1..Len(text)
    <3>1. offset \in Nat \ {0}
      BY DEF ScanInv
    <3>2. braces # {} => Min(braces) \in offset..Len(text)
      BY <1>1, <3>1, NextBrace
    <3> QED BY <1>1, <3>1, <3>2
  <2> HIDE DEF braces
  <2>3. CASE scan' = "ended" /\ start' = start /\ index' = index
    BY <1>3, <2>1, <2>3 DEF ScanInv
  <2>4. CASE braces # {} /\ scan' = "slice" /\ start' = Min(braces) /\ index' = start'
    <3>1. start' \in 1..Len(text)
      BY <2>2, <2>4
    <3>2. Reading(start', start', 0, "none", FALSE)
      BY <1>1, <3>1, ReadingBegins
    <3>3. offset' \in Nat \ {0} /\ start' \in Nat
      BY <1>1, <2>1, <3>1 DEF ScanInv
    <3> QED BY <1>3, <2>1, <2>4, <3>2, <3>3
  <2> QED BY <2>1, <2>3, <2>4
<1>6. CASE ReadOne
  <2>1. /\ scan = "slice" /\ index <= Len(text) /\ index' = index + 1
        /\ offset' = offset /\ start' = start
        /\ InsideQuotes(text[index]) \/ OutsideQuotes(text[index])
    BY <1>6 DEF ReadOne
  <2>2. /\ Reading(start, index, depth, quote, escaped)
        /\ quote \in Quotes \cup {"none"} /\ escaped \in BOOLEAN /\ index \in Nat
        /\ start \in Nat /\ offset \in Nat \ {0}
    BY <2>1 DEF ScanInv
  <2>3. CASE InsideQuotes(text[index])
    <3>1. /\ quote # "none" /\ escaped' = (~escaped /\ text[index] = "backslash")
          /\ quote' = IF ~escaped /\ text[index] = quote THEN "none" ELSE quote
          /\ depth' = depth /\ scan' = "slice"
      BY <2>1, <2>3 DEF InsideQuotes
    <3>2. Reading(start', index', depth', quote', escaped')
      BY <1>1, <2>1, <2>2, <3>1, ReadsInside
    <3>3. quote' \in Quotes \cup {"none"} /\ escaped' \in BOOLEAN
      BY <2>2, <3>1
    <3> QED BY <1>3, <2>1, <2>2, <3>1, <3>2, <3>3
  <2>4. CASE OutsideQuotes(text[index])
    <3> DEFINE c == text[index]
    <3>1. /\ quote = "none" /\ escaped' = escaped
          /\ quote' = IF c \in Quotes THEN c ELSE "none"
          /\ depth' = CASE c = "open" -> depth + 1 [] c = "close" -> depth - 1
                        [] OTHER -> depth
          /\ scan' = IF c = "close" /\ depth = 1 THEN "load" ELSE "slice"
      BY <2>4 DEF OutsideQuotes
    <3>2. c \in Alphabet /\ ~escaped
      <4>1. index \in 1..Len(text) /\ ~escaped
        BY <1>1, <2>1, <2>2, <3>1 DEF Reading
      <4> QED BY <1>1, <4>1
    <3>3. /\ c \in Quotes => Reading(start, index + 1, depth, c, FALSE)
          /\ c = "backslash" => Reading(start, index + 1, depth, "none", FALSE)
          /\ c = "open" => Reading(start, index + 1, depth + 1, "none", FALSE)
          /\ c = "close" /\ depth # 1 => Reading(start, index + 1, depth - 1, "none", FALSE)
          /\ c = "close" /\ depth = 1 => index \in Outside(start) /\ IsCloser(start, index)
      BY <1>1, <2>1, <2>2, <3>1, ReadsOutside
    <3>4. quote' \in Quotes \cup {"none"} /\ escaped' = FALSE
      BY <2>2, <3>1, <3>2
    <3>5. CASE c = "close" /\ depth = 1
      <4>1. index' - 1 = index /\ scan' = "load"
        BY <2>1, <2>2, <3>1, <3>5
      <4>2. \A e \in Outside(start) : e < index => ~IsCloser(start, e)
        BY <2>2 DEF Reading
      <4>3. /\ index' - 1 \in Outside(start') /\ IsCloser(start', index' - 1)
            /\ \A e \in Outside(start') : e < index' - 1 => ~IsCloser(start', e)
        BY <2>1, <3>3, <3>5, <4>1, <4>2
      <4>4. offset' \in Nat \ {0} /\ start' \in Nat
        BY <2>1, <2>2
      <4>5. index' \in Nat /\ escaped' \in BOOLEAN
        <5>1. index' \in Nat
          BY <2>1, <2>2
        <5> QED BY <3>4, <5>1
      <4> HIDE DEF c
      <4> QED BY <1>3, <3>4, <4>1, <4>3, <4>4, <4>5
    <3>6. CASE ~(c = "close" /\ depth = 1)
      <4>1. scan' = "slice"
        BY <3>1, <3>6
      <4>2. Reading(start, index + 1, depth', quote', FALSE)
        <5> HIDE DEF c
        <5>1. CASE c \in Quotes
          <6>1. quote' = c /\ c # "open" /\ c # "close" /\ depth' = depth
            BY <3>1, <5>1 DEF Quotes
          <6> QED BY <3>3, <5>1, <6>1
        <5>2. CASE c = "open" \/ c = "close" \/ c = "backslash"
          <6>1. quote' = "none"
            BY <3>1, <5>2 DEF Quotes
          <6> QED BY <3>1, <3>3, <3>6, <5>2, <6>1
        <5> QED BY <3>2, <5>1, <5>2 DEF Alphabet
      <4>3. Reading(start', index', depth', quote', escaped')
        BY <2>1, <3>4, <4>2
      <4>4. offset' \in Nat \ {0} /\ start' \in Nat
        BY <2>1, <2>2
      <4>5. index' \in Nat /\ escaped' \in BOOLEAN
        <5>1. index' \in Nat
          BY <2>1, <2>2
        <5> QED BY <3>4, <5>1
      <4> HIDE DEF c
      <4> QED BY <1>3, <3>4, <4>1, <4>3, <4>4, <4>5
    <3> QED BY <3>5, <3>6
  <2> QED BY <2>1, <2>3, <2>4
<1>7. CASE Unbalanced
  <2>1. /\ scan = "slice" /\ index > Len(text) /\ scan' = "unbalanced"
        /\ UNCHANGED <<offset, start, index, depth, quote, escaped>>
    BY <1>7 DEF Unbalanced
  <2>2. Reading(start, index, depth, quote, escaped) /\ index \in Nat
    BY <2>1 DEF ScanInv
  <2>3. \A e \in Outside(start) : e < index
    <3>1. Outside(start) \subseteq start..Len(text)
      BY DEF Outside
    <3>2. start \in Nat
      BY DEF ScanInv
    <3> QED BY <1>1, <2>1, <2>2, <3>1, <3>2
  <2>4. \A e \in Outside(start) : ~IsCloser(start, e)
    BY <2>2, <2>3 DEF Reading
  <2> QED BY <1>3, <2>1, <2>4 DEF ScanInv
<1>8. CASE Load
  <2>1. /\ scan' = "find" /\ offset' \in {index, start + 1}
        /\ UNCHANGED <<start, index, depth, quote, escaped>> /\ scan = "load"
    BY <1>8 DEF Load
  <2>2. index \in Nat \ {0}
    <3>1. index - 1 \in Outside(start) /\ index \in Nat
      BY <2>1 DEF ScanInv
    <3>2. start \in Nat /\ Outside(start) \subseteq start..Len(text)
      BY DEF ScanInv, Outside
    <3> QED BY <1>1, <3>1, <3>2
  <2>3. offset' \in Nat \ {0}
    BY <2>1, <2>2 DEF ScanInv
  <2> QED BY <1>3, <2>1, <2>3 DEF ScanInv
<1> QED BY <1>4, <1>5, <1>6, <1>7, <1>8 DEF ScanNext

\* Whatever the text, _balanced_slice ends at the first brace outside strings
\* that balances the one it began at, and raises only when there is none: one
\* pass, with one quote and one escape to remember, does what the definition of
\* a string says.
THEOREM SlicesAreRight == ScanSpec => []SliceIsRight
<1>1. ScanInit => ScanInv
  <2> SUFFICES ASSUME ScanInit
               PROVE  ScanInv
    OBVIOUS
  <2>1. PICK n \in 1..MaxText : text \in [1..n -> Alphabet]
    BY DEF ScanInit
  <2>2. text \in Seq(Alphabet)
    BY <2>1, ScanAssumption
  <2>3. /\ offset = 1 /\ start = 0 /\ index = 0 /\ quote = "none" /\ escaped = FALSE
        /\ scan = "find"
    BY DEF ScanInit
  <2>4. offset \in Nat \ {0} /\ start \in Nat /\ index \in Nat
    BY <2>3
  <2>5. quote \in Quotes \cup {"none"} /\ escaped \in BOOLEAN
    BY <2>3
  <2>6. scan # "slice" /\ scan # "load" /\ scan # "unbalanced"
    BY <2>3
  <2> QED BY <2>2, <2>4, <2>5, <2>6 DEF ScanInv
<1>2. ScanInv /\ [ScanNext]_scanVars => ScanInv'
  BY ScanStepKeeps
<1>3. ScanInv => SliceIsRight
  <2> SUFFICES ASSUME ScanInv, scan \in {"load", "unbalanced"}
               PROVE  IF scan = "unbalanced" THEN Closers(Outside(start)) = {}
                      ELSE /\ index - 1 \in Closers(Outside(start))
                           /\ \A e \in Closers(Outside(start)) : index - 1 <= e
    BY DEF SliceIsRight
  <2>1. Closers(Outside(start)) = {e \in Outside(start) : IsCloser(start, e)}
    BY ClosersAreClosers
  <2>2. CASE scan = "unbalanced"
    BY <2>1, <2>2 DEF ScanInv
  <2>3. CASE scan = "load"
    <3>1. /\ index - 1 \in Outside(start) /\ IsCloser(start, index - 1)
          /\ \A e \in Outside(start) : e < index - 1 => ~IsCloser(start, e)
      BY <2>3 DEF ScanInv
    <3>2. index - 1 \in Int /\ \A e \in Outside(start) : e \in Int
      BY DEF ScanInv, Outside
    <3>3. \A e \in Closers(Outside(start)) : index - 1 <= e
      BY <2>1, <3>1, <3>2
    <3> QED BY <2>1, <2>3, <3>1, <3>3
  <2> QED BY <2>2, <2>3
<1> QED BY <1>1, <1>2, <1>3, PTL DEF ScanSpec

\* What is left of the scan: the offset first, which moves past the brace just
\* tried, then the phase of the pass, then the characters it has not read.
Phase == [find |-> 3, slice |-> 2, load |-> 1, ended |-> 0, unbalanced |-> 0][scan]
ScanAdvances ==
    \/ offset <= start /\ start < offset' /\ offset' <= Len(text) + 1
    \/ offset' = offset /\ Phase' < Phase
    \/ /\ offset' = offset /\ Phase' = Phase
       /\ index' > index /\ index' <= Len(text) + 1

\* The pass is at or after its brace, which is at or after the offset.
ScanPlace ==
    /\ text \in Seq(Alphabet) /\ offset \in 1..(Len(text) + 1)
    /\ scan \in {"find", "slice", "load", "ended", "unbalanced"}
    /\ scan = "slice" => start \in offset..Len(text) /\ index \in start..(Len(text) + 1)
    /\ scan = "load" => start \in offset..Len(text) /\ index \in (start + 1)..(Len(text) + 1)

\* Each step keeps the place and advances the scan.
LEMMA ScanStepAdvances ==
    ASSUME ScanPlace, ScanNext
    PROVE  ScanPlace' /\ ScanAdvances
<1>1. /\ text \in Seq(Alphabet) /\ Len(text) \in Nat /\ text' = text
      /\ offset \in 1..(Len(text) + 1)
  BY DEF ScanPlace, ScanNext, Find, ReadOne, Unbalanced, Load
<1>2. CASE Find
  <2> DEFINE braces == {i \in offset..Len(text) : text[i] = "open"}
  <2>1. /\ scan = "find" /\ offset' = offset
        /\ \/ scan' = "ended"
           \/ /\ braces # {} /\ scan' = "slice"
              /\ start' = Min(braces) /\ index' = start'
    BY <1>2 DEF Find
  <2>2. braces # {} => Min(braces) \in offset..Len(text)
    <3>1. offset \in Nat \ {0}
      BY <1>1
    <3> QED BY <1>1, <3>1, NextBrace
  <2> HIDE DEF braces
  <2>3. Phase' < Phase
    BY <2>1 DEF Phase
  <2>4. ScanPlace'
    BY <1>1, <2>1, <2>2 DEF ScanPlace
  <2> QED BY <2>1, <2>3, <2>4 DEF ScanAdvances
<1>3. CASE ReadOne
  <2>1. /\ scan = "slice" /\ index <= Len(text) /\ index' = index + 1
        /\ offset' = offset /\ start' = start
        /\ scan' \in {"slice", "load"}
    BY <1>3 DEF ReadOne, InsideQuotes, OutsideQuotes
  <2>2. start \in offset..Len(text) /\ index \in start..Len(text)
    BY <1>1, <2>1 DEF ScanPlace
  <2>3. ScanPlace'
    BY <1>1, <2>1, <2>2 DEF ScanPlace
  <2>4. Phase' < Phase \/ Phase' = Phase
    BY <2>1 DEF Phase
  <2>5. index' > index /\ index' <= Len(text) + 1
    BY <1>1, <2>1, <2>2
  <2> QED BY <2>1, <2>3, <2>4, <2>5, <1>1 DEF ScanAdvances
<1>4. CASE Unbalanced
  <2>1. scan = "slice" /\ scan' = "unbalanced" /\ offset' = offset
    BY <1>4 DEF Unbalanced
  <2> QED BY <1>1, <2>1 DEF ScanPlace, ScanAdvances, Phase
<1>5. CASE Load
  <2>1. scan = "load" /\ scan' = "find" /\ offset' \in {index, start + 1}
    BY <1>5 DEF Load
  <2>2. offset <= start /\ start < offset' /\ offset' <= Len(text) + 1
    BY <1>1, <2>1 DEF ScanPlace
  <2> QED BY <1>1, <2>1, <2>2 DEF ScanPlace, ScanAdvances
<1> QED BY <1>2, <1>3, <1>4, <1>5 DEF ScanNext

\* iter_balanced_json never stands still nor goes back to a brace it has tried,
\* whatever json.loads makes of the slices: it ends for texts of every length.
THEOREM ScanAlwaysAdvances == ScanSpec => [][ScanAdvances]_scanVars
<1>1. ScanInit => ScanPlace
  <2> SUFFICES ASSUME ScanInit
               PROVE  ScanPlace
    OBVIOUS
  <2>1. PICK n \in 1..MaxText : text \in [1..n -> Alphabet]
    BY DEF ScanInit
  <2>2. text \in Seq(Alphabet) /\ Len(text) \in Nat
    BY <2>1, ScanAssumption
  <2> QED BY <2>2 DEF ScanInit, ScanPlace
<1>2. ScanPlace /\ [ScanNext]_scanVars => ScanPlace' /\ [ScanAdvances]_scanVars
  BY ScanStepAdvances DEF ScanPlace, scanVars
<1> QED
  BY <1>1, <1>2, PTL DEF ScanSpec
=============================================================================
