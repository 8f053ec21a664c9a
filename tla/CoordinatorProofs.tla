-------------------------- MODULE CoordinatorProofs --------------------------
(***************************************************************************)
(* Theorems of Coordinator and of its composition with WaitingPage, for    *)
(* every directory of restaurants, size of the queue and of the cache,     *)
(* quota, window and delay, and any number of failures, faults and         *)
(* restarts.                                                               *)
(***************************************************************************)
EXTENDS WaitingPage, FiniteSetTheorems, SequenceTheorems, NaturalsInduction,
        WellFoundedInduction, TLAPS

\* A non-empty set of naturals has a least element.
LEMMA LeastIsLeast ==
    ASSUME NEW T \in SUBSET Nat, T # {}
    PROVE  Min(T) \in T /\ \A y \in T : Min(T) <= y
<1>1. IsWellFoundedOn(OpToRel(<, Nat), Nat)
  BY NatLessThanWellFounded
<1>2. PICK x \in T : \A y \in T : ~(<<y, x>> \in OpToRel(<, Nat))
  BY <1>1, WFMin
<1>3. ASSUME NEW y \in T
      PROVE  x <= y
  <2>1. ~(y < x)
    BY <1>2 DEF OpToRel
  <2>2. x \in Nat /\ y \in Nat
    OBVIOUS
  <2> QED BY <2>1, <2>2
<1> QED BY <1>3 DEF Min

\* The set of the elements of a sequence without repetitions has as many
\* members as the sequence has places.
LEMMA LenIsCardinality ==
    ASSUME NEW S, NEW s \in Seq(S), IsInjective(s)
    PROVE  IsFiniteSet(ToSet(s)) /\ Cardinality(ToSet(s)) = Len(s)
<1> DEFINE D == 1..Len(s)
<1>1. IsFiniteSet(D) /\ Cardinality(D) = Len(s)
  <2>1. Len(s) \in Nat
    OBVIOUS
  <2>2. IsFiniteSet(D) /\ Cardinality(D) = IF 1 > Len(s) THEN 0 ELSE Len(s) - 1 + 1
    BY <2>1, FS_Interval
  <2> QED BY <2>1, <2>2
<1>2. s \in Bijection(D, ToSet(s))
  BY DEF Bijection, Injection, Surjection, IsInjective, ToSet
<1>3. ExistsBijection(D, ToSet(s))
  BY <1>2 DEF ExistsBijection
<1> QED BY <1>1, <1>3, FS_Bijection

\* Numbering the members of a set of places from the left is a bijection.
LEMMA RankIsBijection ==
    ASSUME NEW m \in Nat, NEW places \in SUBSET (1..m)
    PROVE  /\ IsFiniteSet(places) /\ Cardinality(places) \in Nat
           /\ [i \in places |-> Cardinality(places \cap 1..i)]
                \in Bijection(places, 1..Cardinality(places))
<1> DEFINE n == Cardinality(places)
           rank == [i \in places |-> Cardinality(places \cap 1..i)]
<1>1. IsFiniteSet(places) /\ n \in Nat
  <2>1. IsFiniteSet(1..m)
    BY FS_Interval
  <2>2. IsFiniteSet(places)
    BY <2>1, FS_Subset
  <2> QED BY <2>2, FS_CardinalityType
<1>2. ASSUME NEW i \in places
      PROVE  /\ rank[i] = Cardinality(places \cap 1..i)
             /\ rank[i] \in 1..n /\ rank[i] \in Int
             /\ IsFiniteSet(places \cap 1..i)
  <2> DEFINE U == places \cap 1..i
  <2>1. IsFiniteSet(U) /\ Cardinality(U) <= n /\ Cardinality(U) \in Nat
    BY <1>1, FS_Subset, FS_CardinalityType
  <2>2. i \in U
    OBVIOUS
  <2>3. Cardinality(U) # 0
    BY <2>1, <2>2, FS_EmptySet
  <2>4. rank[i] = Cardinality(U)
    OBVIOUS
  <2> HIDE DEF U, rank
  <2>5. rank[i] \in 1..n
    BY <1>1, <2>1, <2>3, <2>4
  <2>6. rank[i] \in Int
    BY <2>1, <2>4
  <2> QED BY <2>1, <2>4, <2>5, <2>6 DEF U
<1>r. rank \in [places -> 1..n]
  BY <1>2
<1> HIDE DEF rank, n
<1>3. ASSUME NEW i \in places, NEW j \in places, i < j
      PROVE  rank[i] < rank[j]
  <2>1. places \cap 1..i \in SUBSET (places \cap 1..j)
    BY <1>3
  <2>2. j \in places \cap 1..j /\ j \notin places \cap 1..i
    BY <1>3
  <2>3. /\ Cardinality(places \cap 1..i) <= Cardinality(places \cap 1..j)
        /\ Cardinality(places \cap 1..i) # Cardinality(places \cap 1..j)
    BY <2>1, <2>2, <1>2, FS_Subset
  <2> QED BY <2>3, <1>2
<1>4. rank \in Injection(places, 1..n)
  <2>1. ASSUME NEW i \in places, NEW j \in places, rank[i] = rank[j]
        PROVE  i = j
    <3>1. i \in Nat /\ j \in Nat
      OBVIOUS
    <3>2. rank[i] \in Int /\ rank[j] \in Int
      BY <1>2
    <3>3. (i < j => rank[i] < rank[j]) /\ (j < i => rank[j] < rank[i])
      BY <1>3
    <3>4. ~(i < j) /\ ~(j < i)
      BY <2>1, <3>2, <3>3
    <3> QED BY <3>1, <3>4
  <2> QED BY <1>r, <2>1 DEF Injection, IsInjective
<1>5. rank \in Surjection(places, 1..n)
  <2>1. IsFiniteSet(1..n) /\ Cardinality(1..n) = n
    BY <1>1, FS_Interval
  <2>2. Cardinality(places) = n
    BY DEF n
  <2> QED BY <1>1, <1>4, <2>1, <2>2, FS_Injection
<1>6. rank \in Bijection(places, 1..n)
  BY <1>4, <1>5 DEF Bijection
<1> QED BY <1>1, <1>6 DEF rank, n

\* Kept keeps exactly the elements of the set, each of them once.
LEMMA KeptIsRight ==
    ASSUME NEW S, NEW s \in Seq(S), NEW T
    PROVE  /\ Kept(s, T) \in Seq(S)
           /\ ToSet(Kept(s, T)) = ToSet(s) \cap T
           /\ IsInjective(s) => IsInjective(Kept(s, T))
<1> DEFINE places == {i \in DOMAIN s : s[i] \in T}
           n == Cardinality(places)
           rank == [i \in places |-> Cardinality(places \cap 1..i)]
           Nth(k) == CHOOSE i \in places : Cardinality(places \cap 1..i) = k
<1>0. places \in SUBSET (1..Len(s)) /\ Len(s) \in Nat
  OBVIOUS
<1>1. n \in Nat /\ rank \in Bijection(places, 1..n)
  BY <1>0, RankIsBijection
<1>2. \A i \in places : rank[i] = Cardinality(places \cap 1..i)
  OBVIOUS
<1> HIDE DEF rank, n
<1>3. \A i \in places : rank[i] \in 1..n
  BY <1>1 DEF Bijection, Injection
<1>6. \A k \in 1..n : Nth(k) \in places /\ rank[Nth(k)] = k
  <2> SUFFICES ASSUME NEW k \in 1..n
               PROVE  Nth(k) \in places /\ rank[Nth(k)] = k
    OBVIOUS
  <2>1. \E i \in places : Cardinality(places \cap 1..i) = k
    BY <1>1, <1>2 DEF Bijection, Surjection
  <2>2. /\ Nth(k) \in places
        /\ Cardinality(places \cap 1..Nth(k)) = k
    BY <2>1
  <2> QED BY <2>2, <1>2
<1>7. \A i \in places : Nth(rank[i]) = i
  <2> SUFFICES ASSUME NEW i \in places
               PROVE  Nth(rank[i]) = i
    OBVIOUS
  <2>1. rank[i] \in 1..n
    BY <1>3
  <2>2. Nth(rank[i]) \in places /\ rank[Nth(rank[i])] = rank[i]
    BY <1>6, <2>1
  <2>3. \A a, b \in places : rank[a] = rank[b] => a = b
    BY <1>1 DEF Bijection, Injection, IsInjective
  <2> HIDE DEF Nth, places
  <2> QED BY <2>2, <2>3
<1>8. Kept(s, T) = [k \in 1..n |-> s[Nth(k)]]
  BY DEF Kept, n
<1> HIDE DEF Nth
<1>9. \A k \in 1..n : s[Nth(k)] \in S \cap T
  BY <1>6
<1>10. Kept(s, T) \in Seq(S)
  BY <1>1, <1>8, <1>9
<1>11. ToSet(Kept(s, T)) = ToSet(s) \cap T
  <2>1. ASSUME NEW x \in ToSet(Kept(s, T))
        PROVE  x \in ToSet(s) \cap T
    <3>1. PICK k \in 1..n : x = s[Nth(k)]
      BY <1>8 DEF ToSet
    <3> QED BY <3>1, <1>6 DEF ToSet
  <2>2. ASSUME NEW x \in ToSet(s) \cap T
        PROVE  x \in ToSet(Kept(s, T))
    <3>1. PICK i \in places : x = s[i]
      BY DEF ToSet
    <3>2. rank[i] \in 1..n /\ Nth(rank[i]) = i
      BY <1>3, <1>7
    <3>3. Kept(s, T)[rank[i]] = x
      BY <3>1, <3>2, <1>8
    <3> QED BY <3>2, <3>3, <1>8 DEF ToSet
  <2> QED BY <2>1, <2>2
<1>12. ASSUME IsInjective(s), NEW a \in 1..n, NEW b \in 1..n, s[Nth(a)] = s[Nth(b)]
       PROVE  a = b
  <2>1. Nth(a) = Nth(b)
    BY <1>6, <1>12 DEF IsInjective
  <2> QED BY <2>1, <1>6
<1> QED BY <1>8, <1>10, <1>11, <1>12 DEF IsInjective

\* RemoveFirst takes an element out of a sequence without repetitions.
LEMMA RemoveIsRight ==
    ASSUME NEW S, NEW s \in Seq(S), NEW e, IsInjective(s)
    PROVE  /\ RemoveFirst(s, e) \in Seq(S)
           /\ ToSet(RemoveFirst(s, e)) = ToSet(s) \ {e}
           /\ IsInjective(RemoveFirst(s, e))
<1>1. CASE \A i \in 1..Len(s) : s[i] # e
  <2>1. RemoveFirst(s, e) = s
    BY <1>1 DEF RemoveFirst
  <2>2. ToSet(s) = ToSet(s) \ {e}
    BY <1>1 DEF ToSet
  <2> QED BY <2>1, <2>2
<1>2. CASE \E i \in 1..Len(s) : s[i] = e
  <2> DEFINE I == {i \in 1..Len(s) : s[i] = e}
             p == Min(I)
             r == SubSeq(s, 1, p - 1) \o SubSeq(s, p + 1, Len(s))
  <2>1. p \in 1..Len(s) /\ s[p] = e
    <3>1. I \in SUBSET Nat /\ I # {}
      BY <1>2
    <3>2. p \in I
      BY <3>1, LeastIsLeast
    <3> QED BY <3>2
  <2>2. RemoveFirst(s, e) = r
    BY <1>2 DEF RemoveFirst, RemoveAt, SelectInSeq
  <2> HIDE DEF p
  <2>3. /\ r \in Seq(S) /\ Len(r) = Len(s) - 1
        /\ \A i \in 1..Len(r) : r[i] = IF i < p THEN s[i] ELSE s[i + 1]
    <3> DEFINE u == SubSeq(s, 1, p - 1)
               v == SubSeq(s, p + 1, Len(s))
    <3>1. /\ u \in Seq(S) /\ Len(u) = p - 1
          /\ \A i \in 1..(p - 1) : u[i] = s[i]
      BY <2>1, SubSeqProperties
    <3>2. /\ v \in Seq(S) /\ Len(v) = Len(s) - p
          /\ \A i \in 1..(Len(s) - p) : v[i] = s[p + i]
      BY <2>1, SubSeqProperties
    <3> HIDE DEF u, v
    <3>3. /\ u \o v \in Seq(S) /\ Len(u \o v) = Len(u) + Len(v)
          /\ \A i \in 1..Len(u \o v) :
                (u \o v)[i] = IF i <= Len(u) THEN u[i] ELSE v[i - Len(u)]
      BY <3>1, <3>2, ConcatProperties
    <3>4. ASSUME NEW i \in 1..(Len(s) - 1)
          PROVE  (u \o v)[i] = IF i < p THEN s[i] ELSE s[i + 1]
      <4>1. CASE i < p
        BY <2>1, <3>1, <3>2, <3>3, <4>1
      <4>2. CASE ~(i < p)
        <5>1. i - Len(u) \in 1..(Len(s) - p) /\ p + (i - Len(u)) = i + 1
          BY <2>1, <3>1, <4>2
        <5>2. (u \o v)[i] = v[i - Len(u)]
          BY <2>1, <3>1, <3>2, <3>3, <4>2
        <5> QED BY <3>2, <4>2, <5>1, <5>2
      <4> QED BY <4>1, <4>2
    <3>5. Len(u \o v) = Len(s) - 1
      BY <2>1, <3>1, <3>2, <3>3
    <3>6. r = u \o v
      BY DEF u, v
    <3> QED BY <3>3, <3>4, <3>5, <3>6
  <2> HIDE DEF r
  <2>4. \A i \in 1..Len(s) : i # p => s[i] # e
    BY <2>1 DEF IsInjective
  <2>5. ToSet(r) \subseteq ToSet(s) \ {e}
    BY <2>1, <2>3, <2>4 DEF ToSet
  <2>6. ASSUME NEW x \in ToSet(s) \ {e}
        PROVE  x \in ToSet(r)
    <3>1. PICK i \in 1..Len(s) : x = s[i] /\ i # p
      BY <2>1 DEF ToSet
    <3>2. CASE i < p
      BY <3>1, <3>2, <2>1, <2>3 DEF ToSet
    <3>3. CASE i > p
      <4>1. i - 1 \in 1..Len(r) /\ r[i - 1] = s[i]
        BY <3>1, <3>3, <2>1, <2>3
      <4> QED BY <3>1, <4>1 DEF ToSet
    <3> QED BY <3>1, <3>2, <3>3, <2>1
  <2>7. IsInjective(r)
    BY <2>1, <2>3 DEF IsInjective
  <2> QED BY <2>2, <2>3, <2>5, <2>6, <2>7
<1> QED BY <1>1, <1>2

\* RemoveFirst leaves a sequence of the same elements.
LEMMA RemoveType ==
    ASSUME NEW S, NEW s \in Seq(S), NEW e
    PROVE  RemoveFirst(s, e) \in Seq(S)
<1>1. CASE \A i \in 1..Len(s) : s[i] # e
  BY <1>1 DEF RemoveFirst
<1>2. CASE \E i \in 1..Len(s) : s[i] = e
  <2> DEFINE I == {i \in 1..Len(s) : s[i] = e}
             p == Min(I)
  <2>1. p \in 1..Len(s)
    <3>1. I \in SUBSET Nat /\ I # {}
      BY <1>2
    <3>2. p \in I
      BY <3>1, LeastIsLeast
    <3> QED BY <3>2
  <2>2. RemoveFirst(s, e) = SubSeq(s, 1, p - 1) \o SubSeq(s, p + 1, Len(s))
    BY <1>2 DEF RemoveFirst, RemoveAt, SelectInSeq
  <2> HIDE DEF p
  <2> QED BY <2>1, <2>2
<1> QED BY <1>1, <1>2

\* Removing the first element of a line leaves its tail.
LEMMA RemoveHead ==
    ASSUME NEW S, NEW s \in Seq(S), s # <<>>
    PROVE  RemoveFirst(s, Head(s)) = Tail(s)
<1> DEFINE I == {i \in 1..Len(s) : s[i] = Head(s)}
           p == Min(I)
<1>1. 1 \in I
  OBVIOUS
<1>2. p = 1
  <2>1. p \in I /\ p <= 1
    BY <1>1, LeastIsLeast
  <2> QED BY <2>1
<1>3. RemoveFirst(s, Head(s)) = SubSeq(s, 1, p - 1) \o SubSeq(s, p + 1, Len(s))
  BY <1>1 DEF RemoveFirst, RemoveAt, SelectInSeq
<1> HIDE DEF p
<1>4. SubSeq(s, 1, 0) \o SubSeq(s, 2, Len(s)) = Tail(s)
  OBVIOUS
<1> QED BY <1>2, <1>3, <1>4

\* What Unexpired drops: everything before the first admission of the window.
LEMMA UnexpiredIsSuffix ==
    ASSUME NEW log \in Seq(Nat), NEW t \in Int, NEW n \in 1..(Len(log) + 1),
           \A i \in 1..(n - 1) : log[i] <= t - Hour,
           n <= Len(log) => log[n] > t - Hour
    PROVE  Unexpired(log, t) = SubSeq(log, n, Len(log))
<1> DEFINE recent == {i \in DOMAIN log : log[i] > t - Hour}
           I == recent \cup {Len(log) + 1}
<1>1. I \in SUBSET Nat /\ n \in I
  BY SizeAssumption
<1>2. Min(I) \in I /\ Min(I) <= n
  BY <1>1, LeastIsLeast
<1> DEFINE p == Min(I)
<1>3. Unexpired(log, t) = SubSeq(log, p, Len(log))
  BY DEF Unexpired
<1>4. p \in I /\ p \in Nat
  BY <1>1, <1>2
<1> HIDE DEF p
<1>5. ~(p < n)
  <2> SUFFICES ASSUME p < n
               PROVE  FALSE
    OBVIOUS
  <2>1. p \in DOMAIN log /\ log[p] > t - Hour
    BY <1>4
  <2>2. p \in 1..(n - 1) /\ log[p] \in Nat
    BY <1>4, <2>1
  <2>3. log[p] <= t - Hour
    BY <2>2
  <2> QED BY <2>1, <2>2, <2>3, SizeAssumption
<1>6. p <= n
  BY <1>2 DEF p
<1>7. p = n
  BY <1>4, <1>5, <1>6
<1> QED BY <1>3, <1>7

\* There is such a first admission, or none at all.
LEMMA FirstRecent ==
    ASSUME NEW log \in Seq(Nat), NEW t \in Int
    PROVE  \E n \in 1..(Len(log) + 1) :
             /\ \A i \in 1..(n - 1) : log[i] <= t - Hour
             /\ n <= Len(log) => log[n] > t - Hour
             /\ Unexpired(log, t) = SubSeq(log, n, Len(log))
<1> DEFINE recent == {i \in DOMAIN log : log[i] > t - Hour}
           I == recent \cup {Len(log) + 1}
           n == Min(I)
<1>1. I \in SUBSET Nat /\ I # {} /\ I \subseteq 1..(Len(log) + 1)
  OBVIOUS
<1>2. n \in I /\ \A i \in I : n <= i
  BY <1>1, LeastIsLeast
<1> HIDE DEF n
<1>3. n \in 1..(Len(log) + 1) /\ (n <= Len(log) => log[n] > t - Hour)
  BY <1>1, <1>2
<1>4. ASSUME NEW i \in 1..(n - 1)
      PROVE  log[i] <= t - Hour
  <2>1. i \in DOMAIN log /\ i \notin I
    BY <1>2, <1>3
  <2>2. log[i] \in Nat /\ ~(log[i] > t - Hour)
    BY <2>1
  <2> QED BY <2>2, SizeAssumption
<1>5. Unexpired(log, t) = SubSeq(log, n, Len(log))
  BY DEF Unexpired, n
<1> QED BY <1>3, <1>4, <1>5

\* popleft leaves a log of times, and one that is all recent it leaves alone.
LEMMA UnexpiredType ==
    ASSUME NEW log \in Seq(Nat), NEW t \in Int
    PROVE  /\ Unexpired(log, t) \in Seq(Nat)
           /\ Len(Unexpired(log, t)) <= Len(log)
           /\ Unexpired(log, t) # <<>> => Unexpired(log, t)[1] > t - Hour
<1>1. PICK n \in 1..(Len(log) + 1) :
        /\ n <= Len(log) => log[n] > t - Hour
        /\ Unexpired(log, t) = SubSeq(log, n, Len(log))
  BY FirstRecent
<1> QED BY <1>1

\* Dropping at t what a later drop at u drops as well changes nothing.
LEMMA UnexpiredTwice ==
    ASSUME NEW log \in Seq(Nat), NEW t \in Int, NEW u \in Int, t <= u
    PROVE  Unexpired(Unexpired(log, t), u) = Unexpired(log, u)
<1> DEFINE L == Len(log)
<1>1. PICK n \in 1..(L + 1) :
        /\ \A i \in 1..(n - 1) : log[i] <= t - Hour
        /\ n <= L => log[n] > t - Hour
        /\ Unexpired(log, t) = SubSeq(log, n, L)
  BY FirstRecent
<1>2. PICK m \in 1..(L + 1) :
        /\ \A i \in 1..(m - 1) : log[i] <= u - Hour
        /\ m <= L => log[m] > u - Hour
        /\ Unexpired(log, u) = SubSeq(log, m, L)
  BY FirstRecent
<1>3. n <= m
  <2> SUFFICES ASSUME m < n
               PROVE  FALSE
    OBVIOUS
  <2>1. m <= L /\ m \in 1..(n - 1) /\ log[m] \in Nat
    OBVIOUS
  <2>2. log[m] <= t - Hour /\ log[m] > u - Hour
    BY <1>1, <1>2, <2>1
  <2> QED BY <2>1, <2>2, SizeAssumption
<1> DEFINE s == SubSeq(log, n, L)
           k == m - n + 1
<1>4. /\ s \in Seq(Nat) /\ Len(s) = L - n + 1
      /\ \A i \in 1..Len(s) : s[i] = log[n + i - 1]
  OBVIOUS
<1>5. Unexpired(s, u) = SubSeq(s, k, Len(s))
  <2> HIDE DEF s
  <2>1. k \in 1..(Len(s) + 1)
    BY <1>3, <1>4
  <2>2. ASSUME NEW i \in 1..(k - 1)
        PROVE  s[i] <= u - Hour
    <3>1. i \in 1..Len(s) /\ n + i - 1 \in 1..(m - 1)
      BY <1>3, <1>4
    <3>2. s[i] = log[n + i - 1]
      BY <1>4, <3>1
    <3> QED BY <1>2, <3>1, <3>2
  <2>3. ASSUME k <= Len(s)
        PROVE  s[k] > u - Hour
    <3>1. m <= L /\ s[k] = log[m]
      BY <1>3, <1>4, <2>3
    <3> QED BY <1>2, <3>1
  <2> QED BY <1>4, <2>1, <2>2, <2>3, UnexpiredIsSuffix
<1>6. SubSeq(s, k, Len(s)) = SubSeq(log, m, L)
  BY <1>3
<1> QED BY <1>1, <1>2, <1>5, <1>6

\* An admission made now, after the drop, is never dropped by a drop made now.
LEMMA UnexpiredAppend ==
    ASSUME NEW log \in Seq(Nat), NEW t \in Nat
    PROVE  LET recent == Append(Unexpired(log, t), t)
           IN  Unexpired(recent, t) = recent
<1> DEFINE s == Unexpired(log, t)
           r == Append(s, t)
<1>1. s \in Seq(Nat) /\ (s # <<>> => s[1] > t - Hour)
  <2>1. t \in Int
    OBVIOUS
  <2> QED BY <2>1, UnexpiredType
<1> HIDE DEF s
<1>2. r \in Seq(Nat) /\ Len(r) >= 1 /\ r[1] > t - Hour
  BY <1>1, SizeAssumption
<1> HIDE DEF r
<1>3. Unexpired(r, t) = SubSeq(r, 1, Len(r))
  <2>1. t \in Int /\ 1 \in 1..(Len(r) + 1)
    BY <1>2
  <2>2. \A i \in 1..(1 - 1) : r[i] <= t - Hour
    OBVIOUS
  <2> QED BY <1>2, <2>1, <2>2, UnexpiredIsSuffix
<1> QED BY <1>2, <1>3 DEF s, r

\* The delay is a natural number of ticks: 2^k counts the subsets of 1..k.
LEMMA DelayType ==
    ASSUME NEW n \in Nat
    PROVE  Delay(n) \in Nat
<1> DEFINE k == IF n > 0 THEN n - 1 ELSE 0
<1>1. k \in Nat
  OBVIOUS
<1> HIDE DEF k
<1>2. IsFiniteSet(1..k) /\ Cardinality(1..k) = k
  BY <1>1, FS_Interval
<1>3. IsFiniteSet(SUBSET (1..k)) /\ Cardinality(SUBSET (1..k)) = 2^k
  BY <1>2, FS_SUBSET
<1>4. 2^k \in Nat
  BY <1>3, FS_CardinalityType
<1> DEFINE d == BaseDelay * 2^k
<1>5. d \in Nat
  BY <1>4, DelayAssumption
<1> HIDE DEF d
<1>6. Delay(n) = IF d < MaxDelay THEN d ELSE MaxDelay
  BY DEF Delay, k, d
<1> QED BY <1>5, <1>6, DelayAssumption
------------------------------------------------------------------------------
(* The inductive invariant, conjunct by conjunct.                           *)

\* The worker's step tells what its local identifier and _active_id hold.
WorkerInv ==
    /\ wpc \in {"got", "running", "touch", "failing", "finally", "unwinding"} => item \in Ids
    /\ wpc \in {"check", "get", "exited"} => item = NoId
    /\ wpc \in {"check", "get", "got", "exited"} => active = NoId
    /\ wpc \in {"running", "touch", "failing", "finally", "unwinding"} => active = item
    /\ wpc = "dead" => active \in {NoId, item}
    /\ wpc = "unwinding" => faults > 0

\* The identifiers of a queue that may end with the sentinel.
IdsOf(q) == IF q # <<>> /\ Last(q) = NoId THEN Front(q) ELSE q
SentinelLast(q) == \A i \in 1..Len(q) : q[i] = NoId => i = Len(q)
HeldOf(id) == IF id = NoId THEN <<>> ELSE <<id>>

\* The sentinel is last in the queue, and nobody is in it, or in hand, twice.
QueueInv ==
    /\ SentinelLast(queue) /\ (NoId \in ToSet(queue) => stopping)
    /\ IsInjective(queue)
    /\ item # NoId => item \notin ToSet(queue)

\* The pending sets tell what is in line until the stop clears them, for good.
LineInv ==
    IF cleared
    THEN stopping /\ queued = {} /\ pendingOrder = <<>>
    ELSE pendingOrder = HeldOf(item) \o IdsOf(queue) /\ queued = ToSet(pendingOrder)

\* Without a fault the index of a living worker lacks at most the snapshot that it
\* has just published.
CacheInv ==
    /\ wpc # "dead" => ToSet(lru) \subseteq Cached
    /\ wpc = "touch" => snap[item] # "none"
    /\ faults = 0 /\ wpc # "dead" => Cached = ToSet(lru) \cup (IF wpc = "touch" THEN {item} ELSE {})

\* What exceeds the limit is the snapshot just published, or all of it is pending.
JustLoaded == IF wpc \in {"touch", "finally"} THEN {item} ELSE {}
BoundInv ==
    restarts = 0 /\ faults = 0 /\ ~cleared /\ wpc # "dead" =>
        \/ Cardinality(ToSet(lru) \ JustLoaded) <= CacheMax
        \/ ToSet(lru) \subseteq queued

\* The history of cold admissions is what the deque holds of the last Hour.
QuotaInv == restarts = 0 => coldLog = Recent(coldAdmissions) /\ Len(coldLog) <= ColdMax

\* Either the delay is over, or the eviction has deleted its record.
MayStart(id) == notBefore[id] <= now \/ (failures[id] = 0 /\ snap[id] = "none")

\* The delay is on record but for the evictions, and between the two writes of a
\* failing refresh.
Recorded(id) ==
    \/ retry[id] = notBefore[id]
    \/ failures[id] = 0 /\ retry[id] = 0 /\ snap[id] = "none"
    \/ wpc = "failing" /\ id = item

\* Everyone in line may start: request let no backoff on record through.
BackoffInv ==
    restarts = 0 /\ faults = 0 =>
        /\ \A id \in Ids : Recorded(id)
        /\ \A id \in ToSet(queue) \ {NoId} : MayStart(id)
        /\ wpc = "got" => MayStart(item)
------------------------------------------------------------------------------
\* Which steps write what: everything else they leave alone.
PendingStep ==
    \/ \E id \in Ids : Admit(id)
    \/ Get \/ Activate \/ ActivateFault \/ Finish \/ FinishRaced \/ FinishFault
    \/ RequestStop \/ ClearPending \/ Restart
ColdStep ==
    \/ \E id \in Ids : Admit(id) \/ RateLimit(id) \/ Status(id)
    \/ Restart
DiskStep ==
    \/ RefreshDone \/ RefreshHalfDone
    \/ Finish \/ FinishRaced \/ FinishFault \/ GoStale
IndexStep ==
    \/ \E id \in Ids : RequestFresh(id)
    \/ Touch \/ TouchFault \/ Finish \/ FinishRaced \/ FinishFault \/ Restart
StatusStep ==
    \/ RefreshDone \/ RefreshFailed \/ RefreshHalfDone
    \/ RecordWorkerFailure \/ RecordWorkerFault
    \/ Finish \/ FinishRaced \/ FinishFault
StopStep == CancelFetches \/ RequestStop \/ ClearPending \/ Restart
ThreadStep == Work \/ Fault \/ Restart

\* Each group of variables is left alone by all steps but the ones listed above.
LEMMA Frames ==
    ASSUME [Next]_vars
    PROVE  /\ UNCHANGED pending \/ PendingStep
           /\ UNCHANGED cold \/ ColdStep \/ Tick
           /\ UNCHANGED snap \/ DiskStep
           /\ UNCHANGED lru \/ IndexStep
           /\ UNCHANGED status \/ StatusStep
           /\ UNCHANGED stop \/ StopStep
           /\ UNCHANGED worker \/ ThreadStep
           /\ UNCHANGED now \/ Tick
           /\ UNCHANGED restarts \/ Restart
           /\ UNCHANGED faults \/ Fault
<1> DEFINE Goal ==
           /\ UNCHANGED pending \/ PendingStep
           /\ UNCHANGED cold \/ ColdStep \/ Tick
           /\ UNCHANGED snap \/ DiskStep
           /\ UNCHANGED lru \/ IndexStep
           /\ UNCHANGED status \/ StatusStep
           /\ UNCHANGED stop \/ StopStep
           /\ UNCHANGED worker \/ ThreadStep
           /\ UNCHANGED now \/ Tick
           /\ UNCHANGED restarts \/ Restart
           /\ UNCHANGED faults \/ Fault
<1> SUFFICES Goal
  OBVIOUS
<1> USE DEF pending, worker, status, stop, cold, counters
<1>1. ASSUME NEW id \in Ids, Request(id)
      PROVE  Goal
  <2>1. CASE RequestFresh(id)
    BY <2>1 DEF RequestFresh, IndexStep
  <2>2. CASE Admit(id)
    BY <2>2 DEF Admit, PendingStep, ColdStep
  <2>3. CASE RateLimit(id)
    BY <2>3 DEF RateLimit, ColdStep
  <2>4. CASE Status(id)
    BY <2>4 DEF Status, ColdStep
  <2> QED BY <1>1, <2>1, <2>2, <2>3, <2>4 DEF Request
<1>2. CASE Check
  BY <1>2 DEF Check, ThreadStep, Work
<1>3. CASE Get
  BY <1>3 DEF Get, PendingStep, ThreadStep, Work
<1>4. CASE GetTimeout
  BY <1>4 DEF GetTimeout, ThreadStep, Work
<1>5. CASE Activate
  BY <1>5 DEF Activate, PendingStep, ThreadStep, Work
<1>6. CASE RefreshDone
  BY <1>6 DEF RefreshDone, DiskStep, StatusStep, ThreadStep, Work
<1>7. CASE RefreshFailed
  BY <1>7 DEF RefreshFailed, StatusStep, ThreadStep, Work
<1>8. CASE RefreshRefused
  BY <1>8 DEF RefreshRefused, ThreadStep, Work
<1>9. CASE Touch
  BY <1>9 DEF Touch, IndexStep, ThreadStep, Work
<1>10. CASE RecordWorkerFailure
  BY <1>10 DEF RecordWorkerFailure, StatusStep, ThreadStep, Work
<1>11. CASE Finish
  BY <1>11 DEF Finish, PendingStep, DiskStep, IndexStep, StatusStep, ThreadStep, Work
<1>24. CASE FinishRaced
  BY <1>24 DEF FinishRaced, PendingStep, DiskStep, IndexStep, StatusStep, ThreadStep, Work
<1>12. CASE ActivateFault
  BY <1>12 DEF ActivateFault, PendingStep, ThreadStep, Fault
<1>13. CASE RefreshHalfDone
  BY <1>13 DEF RefreshHalfDone, DiskStep, StatusStep, ThreadStep, Fault
<1>14. CASE TouchFault
  BY <1>14 DEF TouchFault, IndexStep, ThreadStep, Fault
<1>15. CASE RecordWorkerFault
  BY <1>15 DEF RecordWorkerFault, StatusStep, ThreadStep, Fault
<1>16. CASE FinishFault
  BY <1>16 DEF FinishFault, PendingStep, DiskStep, IndexStep, StatusStep, ThreadStep, Fault
<1>17. CASE CancelFetches
  BY <1>17 DEF CancelFetches, StopStep
<1>18. CASE RequestStop
  BY <1>18 DEF RequestStop, PendingStep, StopStep
<1>19. CASE ClearPending
  BY <1>19 DEF ClearPending, PendingStep, StopStep
<1>20. CASE GoStale
  BY <1>20 DEF GoStale, DiskStep
<1>21. CASE Tick
  BY <1>21 DEF Tick
<1>22. CASE Restart
  BY <1>22 DEF Restart, PendingStep, ColdStep, IndexStep, StopStep, ThreadStep
<1>23. CASE UNCHANGED vars
  BY <1>23 DEF vars
<1> HIDE DEF Goal
<1> QED BY <1>1, <1>2, <1>3, <1>4, <1>5, <1>6, <1>7, <1>8, <1>9, <1>10, <1>11, <1>12,
          <1>13, <1>14, <1>15, <1>16, <1>17, <1>18, <1>19, <1>20, <1>21, <1>22, <1>23, <1>24
        DEF Next, Work, Fault, Stop
------------------------------------------------------------------------------
(* Types, one group of variables at a time.                                 *)

PendingType ==
    /\ queue \in Seq(Ids \cup {NoId}) /\ Len(queue) <= QueueMax
    /\ queued \subseteq Ids /\ pendingOrder \in Seq(Ids) /\ active \in Ids \cup {NoId}

ColdType == coldAdmissions \in Seq(Nat) /\ coldLog \in Seq(Nat)

WorkerType ==
    /\ wpc \in {"check", "get", "got", "running", "touch", "failing",
                "finally", "unwinding", "exited", "dead"}
    /\ item \in Ids \cup {NoId} /\ before \in Nat
    /\ cancelled \in BOOLEAN

StopType == cancel \in BOOLEAN /\ stopping \in BOOLEAN /\ cleared \in BOOLEAN

DiskType == snap \in [Ids -> {"none", "stale", "fresh"}]

StatusType == retry \in [Ids -> Nat] /\ failures \in [Ids -> Nat] /\ notBefore \in [Ids -> Nat]

IndexType == lru \in Seq(Ids) /\ IsInjective(lru)

CounterType == now \in Nat /\ restarts \in Nat /\ faults \in Nat

Types ==
    /\ PendingType /\ ColdType /\ WorkerType /\ StopType
    /\ DiskType /\ StatusType /\ IndexType /\ CounterType

\* The groups say no less than the type invariant.
LEMMA TypesGiveTypeOK == Types => TypeOK
<1> USE DEF Types, PendingType, ColdType, WorkerType, StopType, DiskType, StatusType,
            IndexType, CounterType
<1>1. Types => {cancel, stopping, cleared, cancelled} \subseteq BOOLEAN
  OBVIOUS
<1>2. Types => {now, restarts, faults} \subseteq Nat
  OBVIOUS
<1> QED BY <1>1, <1>2 DEF TypeOK

\* The queue, the pending set, the displayed order and _active_id keep their types:
\* only identifiers of the directory and one kind of sentinel enter them.
LEMMA PendingTypeStep ==
    ASSUME PendingType, WorkerType, WorkerInv, [Next]_vars
    PROVE  PendingType'
<1> USE DEF PendingType, WorkerType
<1>1. CASE UNCHANGED pending
  BY <1>1 DEF pending
<1>2. ASSUME NEW id \in Ids, Admit(id)
      PROVE  PendingType'
  <2>1. /\ queue' = Append(queue, id) /\ Len(queue) < QueueMax
        /\ queued' = queued \cup {id} /\ pendingOrder' = Append(pendingOrder, id)
        /\ active' = active
    BY <1>2 DEF Admit, Admissible
  <2> QED BY <2>1, SizeAssumption
<1>3. CASE Get
  <2>1. queue # <<>> /\ queue' = Tail(queue) /\ UNCHANGED <<queued, pendingOrder, active>>
    BY <1>3 DEF Get
  <2> QED BY <2>1, SizeAssumption
<1>4. CASE Activate \/ ActivateFault
  BY <1>4 DEF Activate, ActivateFault, WorkerInv
<1>5. CASE Finish \/ FinishRaced \/ FinishFault
  <2>1. /\ queue' = queue /\ active' = NoId /\ queued' = queued \ {item}
        /\ pendingOrder' = RemoveFirst(pendingOrder, item)
    BY <1>5 DEF Finish, FinishRaced, FinishFault, Release
  <2> QED BY <2>1, RemoveType
<1>6. CASE RequestStop
  <2>1. /\ queue' = queue \/ (queue' = Append(queue, NoId) /\ Len(queue) < QueueMax)
        /\ UNCHANGED <<queued, pendingOrder, active>>
    BY <1>6 DEF RequestStop
  <2> QED BY <2>1, SizeAssumption
<1>7. CASE ClearPending
  BY <1>7 DEF ClearPending
<1>8. CASE Restart
  BY <1>8, SizeAssumption DEF Restart
<1> HIDE DEF PendingType, WorkerType
<1> QED BY <1>1, <1>2, <1>3, <1>4, <1>5, <1>6, <1>7, <1>8, Frames DEF PendingStep

\* The two logs of cold admissions stay sequences of times.
LEMMA ColdTypeStep ==
    ASSUME ColdType, CounterType, [Next]_vars
    PROVE  ColdType'
<1> USE DEF ColdType, CounterType
<1>1. CASE UNCHANGED cold
  BY <1>1 DEF cold
<1>2. Recent(coldAdmissions) \in Seq(Nat)
  BY UnexpiredType DEF Recent
<1>3. ASSUME NEW id \in Ids, Admit(id) \/ RateLimit(id) \/ Status(id)
      PROVE  ColdType'
  <2>1. /\ \/ coldAdmissions' = coldAdmissions
           \/ coldAdmissions' = Recent(coldAdmissions)
           \/ coldAdmissions' = Append(Recent(coldAdmissions), now)
        /\ coldLog' = coldLog \/ coldLog' = Append(coldLog, now)
    BY <1>3 DEF Admit, RateLimit, Status, cold
  <2>2. Append(Recent(coldAdmissions), now) \in Seq(Nat) /\ Append(coldLog, now) \in Seq(Nat)
    BY <1>2
  <2> QED BY <1>2, <2>1, <2>2
<1>4. CASE Tick
  <2>1. coldAdmissions' = coldAdmissions /\ coldLog' = Unexpired(coldLog, now + 1)
    BY <1>4 DEF Tick
  <2>2. now + 1 \in Int
    OBVIOUS
  <2> QED BY <2>1, <2>2, UnexpiredType
<1>5. CASE Restart
  BY <1>5 DEF Restart
<1> HIDE DEF ColdType, CounterType
<1> QED BY <1>1, <1>3, <1>4, <1>5, Frames DEF ColdStep

\* The worker's step and locals keep their types.
LEMMA WorkerTypeStep ==
    ASSUME WorkerType, WorkerInv, PendingType, StatusType, StopType, [Next]_vars
    PROVE  WorkerType'
<1> USE DEF WorkerType
<1>1. CASE UNCHANGED worker
  BY <1>1 DEF worker
<1>2. CASE Check \/ GetTimeout
  BY <1>2 DEF Check, GetTimeout
<1>3. CASE Get
  <2>1. Head(queue) \in Ids \cup {NoId}
    BY <1>3 DEF Get, PendingType
  <2> QED BY <1>3, <2>1 DEF Get
<1>4. CASE Activate
  BY <1>4 DEF Activate, StatusType, WorkerInv
<1>5. CASE RefreshDone \/ RefreshFailed \/ RefreshRefused \/ RefreshHalfDone
  BY <1>5 DEF RefreshDone, RefreshFailed, RefreshRefused, RefreshHalfDone, StopType
<1>6. CASE Touch \/ TouchFault \/ RecordWorkerFailure \/ RecordWorkerFault \/ ActivateFault
  BY <1>6 DEF Touch, TouchFault, RecordWorkerFailure, RecordWorkerFault, ActivateFault
<1>7. CASE Finish \/ FinishRaced \/ FinishFault
  BY <1>7 DEF Finish, FinishRaced, FinishFault, Release
<1>8. CASE Restart
  BY <1>8 DEF Restart
<1> HIDE DEF WorkerType
<1> QED BY <1>1, <1>2, <1>3, <1>4, <1>5, <1>6, <1>7, <1>8, Frames DEF ThreadStep, Work, Fault

\* The flags of the stop stay Booleans.
LEMMA StopTypeStep ==
    ASSUME StopType, [Next]_vars
    PROVE  StopType'
<1> USE DEF StopType
<1>1. CASE UNCHANGED stop
  BY <1>1 DEF stop
<1>2. CASE StopStep
  BY <1>2 DEF StopStep, CancelFetches, RequestStop, ClearPending, Restart
<1> QED BY <1>1, <1>2, Frames

\* Every restaurant keeps a known kind of snapshot, whatever is published or evicted.
LEMMA DiskTypeStep ==
    ASSUME DiskType, [Next]_vars
    PROVE  DiskType'
<1> USE DEF DiskType
<1>1. CASE UNCHANGED snap
  BY <1>1
<1>2. CASE RefreshDone \/ RefreshHalfDone
  BY <1>2 DEF RefreshDone, RefreshHalfDone
<1>3. CASE Finish \/ FinishRaced
  BY <1>3 DEF Finish, FinishRaced, EvictAll, Deleted
<1>4. CASE FinishFault
  BY <1>4 DEF FinishFault
<1>5. CASE GoStale
  BY <1>5 DEF GoStale
<1> QED BY <1>1, <1>2, <1>3, <1>4, <1>5, Frames DEF DiskStep

\* The failure counts and the delays stay natural numbers.
LEMMA StatusTypeStep ==
    ASSUME StatusType, WorkerType, WorkerInv, CounterType, [Next]_vars
    PROVE  StatusType'
<1> USE DEF StatusType
<1>1. CASE UNCHANGED status
  BY <1>1 DEF status
<1>2. CASE RefreshDone \/ RefreshFailed \/ RefreshHalfDone
  BY <1>2 DEF RefreshDone, RefreshFailed, RefreshHalfDone, WorkerInv, WorkerType
<1>3. ASSUME wpc = "failing"
      PROVE  Counted \in Nat /\ now + Delay(Counted) \in Nat
  <2>1. failures[item] \in Nat /\ before \in Nat
    BY <1>3 DEF WorkerInv, WorkerType
  <2>2. Counted \in Nat
    BY <2>1 DEF Counted
  <2> QED BY <2>2, DelayType DEF CounterType
<1>4. CASE RecordWorkerFailure
  BY <1>3, <1>4 DEF RecordWorkerFailure
<1>5. CASE RecordWorkerFault
  BY <1>3, <1>5 DEF RecordWorkerFault
<1>6. CASE Finish \/ FinishRaced
  <2>1. notBefore' = notBefore /\ \E v : Deleted(v)
    BY <1>6 DEF Finish, FinishRaced, EvictAll
  <2> QED BY <2>1 DEF Deleted
<1>7. CASE FinishFault
  BY <1>7 DEF FinishFault
<1> QED BY <1>1, <1>2, <1>4, <1>5, <1>6, <1>7, Frames DEF StatusStep

\* touch puts an entry last in the index, and keeps it free of repetitions.
LEMMA TouchedIsRight ==
    ASSUME IndexType, NEW id \in Ids
    PROVE  /\ Touched(id) \in Seq(Ids) /\ IsInjective(Touched(id))
           /\ ToSet(Touched(id)) = ToSet(lru) \cup {id}
<1> DEFINE r == RemoveFirst(lru, id)
<1>1. r \in Seq(Ids) /\ IsInjective(r) /\ ToSet(r) = ToSet(lru) \ {id}
  BY RemoveIsRight DEF IndexType
<1> HIDE DEF r
<1>2. /\ Append(r, id) \in Seq(Ids) /\ Len(Append(r, id)) = Len(r) + 1
      /\ \A i \in 1..Len(r) : Append(r, id)[i] = r[i]
      /\ Append(r, id)[Len(r) + 1] = id
  BY <1>1
<1>3. \A i \in 1..Len(r) : r[i] # id
  BY <1>1 DEF ToSet
<1>4. IsInjective(Append(r, id))
  BY <1>1, <1>2, <1>3 DEF IsInjective
<1>5. ToSet(Append(r, id)) = ToSet(r) \cup {id}
  BY <1>1, <1>2 DEF ToSet
<1> QED BY <1>1, <1>2, <1>4, <1>5 DEF r, Touched

\* The index that a restart loads lists each snapshot on disk once.
LEMMA RestartIndex ==
    ASSUME Restart
    PROVE  lru' \in Seq(Ids) /\ IsInjective(lru') /\ ToSet(lru') = Cached
<1> DEFINE ready == {id \in Ids : snap[id] # "none"}
<1>1. IsFiniteSet(ready)
  BY IdsAssumption, FS_Subset
<1>2. Cardinality(ready) \in Nat
  BY <1>1, FS_CardinalityType
<1>3. lru' \in [1..Cardinality(ready) -> ready] /\ IsInjective(lru') /\ ToSet(lru') = ready
  BY DEF Restart
<1>4. ready = Cached /\ ready \subseteq Ids
  BY DEF Cached
<1> HIDE DEF ready
<1>5. lru' \in Seq(ready)
  BY <1>2, <1>3
<1> QED BY <1>3, <1>4, <1>5

\* The index stays a sequence of identifiers without repetitions: touch moves an
\* entry, and an eviction, complete or not, only takes entries away.
LEMMA IndexTypeStep ==
    ASSUME IndexType, WorkerType, WorkerInv, [Next]_vars
    PROVE  IndexType'
<1>1. CASE UNCHANGED lru
  BY <1>1 DEF IndexType
<1>2. ASSUME NEW id \in Ids, RequestFresh(id)
      PROVE  IndexType'
  BY <1>2, TouchedIsRight DEF RequestFresh, IndexType
<1>3. CASE Touch \/ TouchFault
  BY <1>3, TouchedIsRight DEF Touch, TouchFault, IndexType, WorkerInv
<1>4. CASE Finish \/ FinishRaced \/ FinishFault
  <2>1. PICK S : lru' = Kept(lru, S)
    BY <1>4 DEF Finish, EvictAll, FinishRaced, FinishFault
  <2> QED BY <2>1, KeptIsRight DEF IndexType
<1>5. CASE Restart
  BY <1>5, RestartIndex DEF IndexType
<1> QED BY <1>1, <1>2, <1>3, <1>4, <1>5, Frames DEF IndexStep

\* Time, restarts and faults are counted upwards from 0.
LEMMA CounterTypeStep ==
    ASSUME CounterType, [Next]_vars
    PROVE  CounterType'
<1>1. now' = now \/ now' = now + 1
  BY Frames DEF Tick
<1>2. restarts' = restarts \/ restarts' = restarts + 1
  BY Frames DEF Restart
<1>3. faults' = faults \/ faults' = faults + 1
  BY Frames DEF Fault, ActivateFault, RefreshHalfDone, TouchFault, RecordWorkerFault, FinishFault
<1> QED BY <1>1, <1>2, <1>3 DEF CounterType

\* Every variable starts with its type.
LEMMA InitTypes == Init => Types
<1> SUFFICES ASSUME Init
             PROVE  Types
  OBVIOUS
<1> USE DEF Init
<1>1. PendingType
  BY SizeAssumption DEF PendingType
<1>2. IndexType
  BY DEF IndexType, IsInjective
<1>3. ColdType
  BY DEF ColdType
<1>5. WorkerType
  BY DEF WorkerType
<1>6. StopType
  BY DEF StopType
<1>4. DiskType /\ StatusType /\ CounterType
  BY DEF DiskType, StatusType, CounterType
<1> QED BY <1>1, <1>2, <1>3, <1>4, <1>5, <1>6 DEF Types
------------------------------------------------------------------------------
(* The worker thread and the queue.                                         *)

\* The worker's locals and _active_id keep to its place in _run, faults included.
LEMMA WorkerInvStep ==
    ASSUME WorkerInv, WorkerType, PendingType, CounterType, [Next]_vars
    PROVE  WorkerInv'
<1> USE DEF WorkerInv
<1>0. faults > 0 => faults' > 0
  <2>1. faults' = faults \/ faults' = faults + 1
    BY Frames DEF Fault, ActivateFault, RefreshHalfDone, TouchFault, RecordWorkerFault,
                  FinishFault
  <2> QED BY <2>1 DEF CounterType
<1>1. CASE UNCHANGED <<worker, active>>
  BY <1>0, <1>1 DEF worker
<1>2. CASE ClearPending
  BY <1>0, <1>2 DEF ClearPending, worker
<1>3. CASE Check \/ GetTimeout
  BY <1>3 DEF Check, GetTimeout, pending
<1>4. CASE Get
  <2>1. Head(queue) \in Ids \cup {NoId}
    BY <1>4 DEF Get, PendingType
  <2> QED BY <1>4, <2>1 DEF Get
<1>5. CASE Activate
  BY <1>5 DEF Activate
<1>6. CASE RefreshDone \/ RefreshFailed \/ RefreshRefused \/ RefreshHalfDone
  BY <1>6 DEF RefreshDone, RefreshFailed, RefreshRefused, RefreshHalfDone, pending
<1>7. CASE Touch \/ TouchFault
  BY <1>7 DEF Touch, TouchFault, pending
<1>8. CASE RecordWorkerFailure
  BY <1>8 DEF RecordWorkerFailure, pending
<1>9. CASE RecordWorkerFault \/ ActivateFault
  BY <1>9 DEF RecordWorkerFault, ActivateFault, pending, CounterType
<1>10. CASE Finish \/ FinishRaced
  BY <1>0, <1>10 DEF Finish, FinishRaced, Release
<1>11. CASE FinishFault
  BY <1>11 DEF FinishFault, Release, CounterType
<1>12. CASE Restart
  BY <1>12 DEF Restart
<1>13. CASE UNCHANGED worker /\ (RequestStop \/ \E id \in Ids : Admit(id))
  BY <1>0, <1>13 DEF RequestStop, Admit, worker
<1> HIDE DEF WorkerInv
<1> QED BY <1>1, <1>2, <1>3, <1>4, <1>5, <1>6, <1>7, <1>8, <1>9, <1>10, <1>11, <1>12, <1>13,
           Frames DEF ThreadStep, PendingStep, Work, Fault, pending

\* The identifiers of a queue are its elements without the sentinel, in order.
LEMMA IdsOfIsRight ==
    ASSUME NEW q \in Seq(Ids \cup {NoId}), SentinelLast(q)
    PROVE  /\ IdsOf(q) \in Seq(Ids)
           /\ Len(IdsOf(q)) = IF q # <<>> /\ q[Len(q)] = NoId THEN Len(q) - 1 ELSE Len(q)
           /\ \A i \in 1..Len(IdsOf(q)) : IdsOf(q)[i] = q[i]
           /\ ToSet(IdsOf(q)) = ToSet(q) \ {NoId}
<1>1. CASE q # <<>> /\ q[Len(q)] = NoId
  <2> DEFINE f == SubSeq(q, 1, Len(q) - 1)
  <2>1. IdsOf(q) = f
    BY <1>1 DEF IdsOf, Last, Front
  <2>2. Len(f) = Len(q) - 1 /\ \A i \in 1..Len(f) : f[i] = q[i]
    <3> DEFINE n == Len(q) - 1
    <3>1. n \in Nat /\ n <= Len(q)
      BY <1>1
    <3> HIDE DEF n
    <3>2. \A i \in 1..n : q[i] \in Ids \cup {NoId}
      BY <3>1
    <3>3. SubSeq(q, 1, n) \in Seq(Ids \cup {NoId}) /\ Len(SubSeq(q, 1, n)) = n
      BY <3>1, <3>2, SubSeqProperties
    <3>4. \A i \in 1..n : SubSeq(q, 1, n)[i] = q[i]
      BY <3>1, <3>2, SubSeqProperties
    <3> QED BY <3>3, <3>4 DEF n
  <2>3. \A i \in 1..(Len(q) - 1) : q[i] \in Ids
    BY <1>1 DEF SentinelLast
  <2>4. f \in Seq(Ids)
    BY <2>3, <1>1, SubSeqProperties
  <2> HIDE DEF f
  <2>5. ToSet(f) = ToSet(q) \ {NoId}
    <3>1. ASSUME NEW x \in ToSet(f)
          PROVE  x \in ToSet(q) \ {NoId}
      BY <1>1, <2>2, <2>4, IdsAssumption DEF ToSet
    <3>2. ASSUME NEW x \in ToSet(q) \ {NoId}
          PROVE  x \in ToSet(f)
      <4>1. PICK i \in 1..Len(q) : x = q[i] /\ i # Len(q)
        BY <1>1 DEF ToSet
      <4>2. i \in 1..Len(f) /\ f[i] = x
        BY <4>1, <2>2
      <4> QED BY <4>2, <2>4 DEF ToSet
    <3> QED BY <3>1, <3>2
  <2> QED BY <1>1, <2>1, <2>2, <2>4, <2>5
<1>2. CASE ~(q # <<>> /\ q[Len(q)] = NoId)
  <2>1. IdsOf(q) = q
    BY <1>2 DEF IdsOf, Last
  <2>2. \A i \in 1..Len(q) : q[i] # NoId
    BY <1>2 DEF SentinelLast
  <2>3. q \in Seq(Ids)
    BY <2>2
  <2>4. ToSet(q) = ToSet(q) \ {NoId}
    BY <2>2 DEF ToSet
  <2> QED BY <1>2, <2>1, <2>3, <2>4
<1> QED BY <1>1, <1>2

\* What an admission, a stop and a get do to the identifiers of the queue.
LEMMA IdsOfAppend ==
    ASSUME NEW q \in Seq(Ids), NEW id \in Ids
    PROVE  IdsOf(q) = q /\ IdsOf(Append(q, id)) = Append(q, id)
BY IdsAssumption DEF IdsOf, Last

\* The sentinel of the stop does not count among the identifiers.
LEMMA IdsOfStop ==
    ASSUME NEW q \in Seq(Ids)
    PROVE  IdsOf(q) = q /\ IdsOf(Append(q, NoId)) = q
<1>1. IdsOf(q) = q
  BY IdsAssumption DEF IdsOf, Last
<1>2. Append(q, NoId) # <<>> /\ Last(Append(q, NoId)) = NoId
  BY DEF Last
<1>3. Front(Append(q, NoId)) = q
  BY DEF Front
<1> QED BY <1>1, <1>2, <1>3 DEF IdsOf

\* The identifiers of a queue are its head's and those of what Get leaves in it.
LEMMA IdsOfTail ==
    ASSUME NEW q \in Seq(Ids \cup {NoId}), SentinelLast(q), q # <<>>
    PROVE  /\ SentinelLast(Tail(q))
           /\ IdsOf(q) = HeldOf(Head(q)) \o IdsOf(Tail(q))
<1> DEFINE t == Tail(q)
           h == HeldOf(Head(q))
<1>1. /\ t \in Seq(Ids \cup {NoId}) /\ Len(t) = Len(q) - 1
      /\ \A i \in 1..Len(t) : t[i] = q[i + 1]
  OBVIOUS
<1> HIDE DEF t
<1>2. SentinelLast(t)
  BY <1>1 DEF SentinelLast
<1>3. /\ IdsOf(q) \in Seq(Ids)
      /\ Len(IdsOf(q)) = IF q[Len(q)] = NoId THEN Len(q) - 1 ELSE Len(q)
      /\ \A i \in 1..Len(IdsOf(q)) : IdsOf(q)[i] = q[i]
  BY IdsOfIsRight
<1>4. /\ IdsOf(t) \in Seq(Ids)
      /\ Len(IdsOf(t)) = IF t # <<>> /\ t[Len(t)] = NoId THEN Len(t) - 1 ELSE Len(t)
      /\ \A i \in 1..Len(IdsOf(t)) : IdsOf(t)[i] = t[i]
  BY <1>1, <1>2, IdsOfIsRight
<1>5. CASE Head(q) = NoId
  <2>1. Len(q) = 1
    <3>1. 1 \in 1..Len(q) /\ q[1] = NoId
      BY <1>5
    <3> QED BY <3>1 DEF SentinelLast
  <2>2. h = <<>> /\ Len(IdsOf(q)) = 0 /\ Len(IdsOf(t)) = 0
    BY <1>1, <1>3, <1>4, <1>5, <2>1 DEF HeldOf
  <2> QED BY <1>2, <1>3, <1>4, <2>2 DEF t
<1>6. CASE Head(q) # NoId
  <2>1. h = <<Head(q)>> /\ Head(q) \in Ids /\ h \in Seq(Ids)
    BY <1>6 DEF HeldOf
  <2>2. Len(IdsOf(q)) = 1 + Len(IdsOf(t))
    <3>1. CASE t = <<>>
      <4>1. Len(t) = 0
        BY <3>1
      <4>2. Len(q) = 1
        BY <1>1, <4>1
      <4>3. q[Len(q)] # NoId
        BY <1>6, <4>2
      <4> QED BY <1>1, <1>3, <1>4, <3>1, <4>1, <4>2, <4>3
    <3>2. CASE t # <<>>
      <4>1. t[Len(t)] = q[Len(q)] /\ Len(t) >= 1
        BY <1>1, <3>2
      <4> QED BY <1>1, <1>3, <1>4, <3>2, <4>1
    <3> QED BY <3>1, <3>2
  <2>3. ASSUME NEW i \in 1..Len(IdsOf(q))
        PROVE  IdsOf(q)[i] = (<<Head(q)>> \o IdsOf(t))[i]
    <3>1. CASE i = 1
      BY <1>3, <1>4, <3>1
    <3>2. CASE i # 1
      <4>1. i - 1 \in 1..Len(IdsOf(t)) /\ IdsOf(t)[i - 1] = q[i]
        BY <1>1, <1>3, <1>4, <2>2, <3>2
      <4> QED BY <1>3, <1>4, <2>1, <3>2, <4>1
    <3> QED BY <3>1, <3>2
  <2>4. <<Head(q)>> \o IdsOf(t) \in Seq(Ids) /\ Len(<<Head(q)>> \o IdsOf(t)) = 1 + Len(IdsOf(t))
    BY <1>4, <2>1
  <2>5. IdsOf(q) = <<Head(q)>> \o IdsOf(t)
    BY <1>3, <2>2, <2>3, <2>4, SeqEqual
  <2> QED BY <1>2, <2>1, <2>5 DEF t
<1> QED BY <1>5, <1>6

\* The set of a concatenation.
LEMMA ToSetConcat ==
    ASSUME NEW S, NEW u \in Seq(S), NEW v \in Seq(S)
    PROVE  ToSet(u \o v) = ToSet(u) \cup ToSet(v)
<1>1. /\ Len(u \o v) = Len(u) + Len(v) /\ u \o v \in Seq(S)
      /\ \A i \in 1..Len(u \o v) : (u \o v)[i] = IF i <= Len(u) THEN u[i] ELSE v[i - Len(u)]
  BY ConcatProperties
<1>2. ASSUME NEW i \in 1..Len(u)
      PROVE  u[i] \in ToSet(u \o v)
  <2>1. i \in 1..Len(u \o v) /\ (u \o v)[i] = u[i]
    BY <1>1
  <2> QED BY <1>1, <2>1 DEF ToSet
<1>3. ASSUME NEW i \in 1..Len(v)
      PROVE  v[i] \in ToSet(u \o v)
  <2> DEFINE j == i + Len(u)
  <2>1. j \in 1..Len(u \o v) /\ (u \o v)[j] = v[i]
    BY <1>1
  <2>2. j \in DOMAIN (u \o v)
    BY <1>1, <2>1
  <2> HIDE DEF j
  <2> QED BY <2>1, <2>2 DEF ToSet
<1>4. ASSUME NEW i \in 1..Len(u \o v)
      PROVE  (u \o v)[i] \in ToSet(u) \cup ToSet(v)
  <2>1. i <= Len(u) \/ i - Len(u) \in 1..Len(v)
    BY <1>1
  <2> QED BY <1>1, <2>1 DEF ToSet
<1>5. /\ ToSet(u) = {u[i] : i \in 1..Len(u)} /\ ToSet(v) = {v[i] : i \in 1..Len(v)}
      /\ ToSet(u \o v) = {(u \o v)[i] : i \in 1..Len(u \o v)}
  BY <1>1 DEF ToSet
<1> QED BY <1>2, <1>3, <1>4, <1>5

\* Who is in line: whoever is in the queue or in the worker's hands.
LEMMA WhoIsInLine ==
    ASSUME PendingType, WorkerType, QueueInv
    PROVE  /\ HeldOf(item) \in Seq(Ids) /\ IdsOf(queue) \in Seq(Ids)
           /\ ToSet(HeldOf(item) \o IdsOf(queue)) = (ToSet(queue) \cup {item}) \ {NoId}
<1>1. IdsOf(queue) \in Seq(Ids) /\ ToSet(IdsOf(queue)) = ToSet(queue) \ {NoId}
  BY IdsOfIsRight DEF PendingType, QueueInv
<1>2. HeldOf(item) \in Seq(Ids) /\ ToSet(HeldOf(item)) = {item} \ {NoId}
  <2>1. CASE item = NoId
    BY <2>1 DEF HeldOf, ToSet
  <2>2. CASE item # NoId
    BY <2>2 DEF HeldOf, ToSet, WorkerType
  <2> QED BY <2>1, <2>2
<1> QED BY <1>1, <1>2, ToSetConcat

\* The local identifier changes hands in these steps only.
LEMMA ItemFrame ==
    ASSUME [Next]_vars
    PROVE  item' = item \/ Get \/ Finish \/ FinishRaced \/ FinishFault \/ Restart
BY Frames DEF worker, ThreadStep, Work, Fault, Check, GetTimeout, Activate, RefreshDone,
     RefreshFailed, RefreshRefused, Touch, RecordWorkerFailure, ActivateFault,
     RefreshHalfDone, TouchFault, RecordWorkerFault

\* Before the stop the queue holds identifiers only.
LEMMA NoSentinelYet ==
    ASSUME PendingType, QueueInv, ~stopping
    PROVE  queue \in Seq(Ids)
<1>1. \A i \in 1..Len(queue) : queue[i] # NoId
  BY DEF QueueInv, ToSet, PendingType
<1> QED BY <1>1 DEF PendingType

\* No step puts an identifier twice in the queue, in the queue and in the worker's
\* hands, or behind the sentinel.
LEMMA QueueInvStep ==
    ASSUME PendingType, WorkerType, WorkerInv, QueueInv, LineInv, [Next]_vars
    PROVE  QueueInv'
<1>1. CASE UNCHANGED pending /\ item' = item
  <2>1. stopping => stopping' \/ Restart
    BY Frames DEF stop, StopStep, CancelFetches, RequestStop, ClearPending
  <2>2. Restart => queue = <<>>
    BY <1>1 DEF Restart, pending
  <2>3. queue = <<>> => ToSet(queue) = {}
    BY DEF ToSet
  <2> QED BY <1>1, <2>1, <2>2, <2>3 DEF QueueInv, pending
<1>2. ASSUME NEW id \in Ids, Admit(id)
      PROVE  QueueInv'
  <2>1. /\ queue' = Append(queue, id) /\ item' = item /\ ~stopping /\ id \notin queued
        /\ stopping' = stopping
    BY <1>2 DEF Admit, Admissible, worker, stop
  <2>2. queue \in Seq(Ids)
    BY <2>1, NoSentinelYet
  <2>3. id \notin ToSet(queue) /\ id # item
    BY <2>1, WhoIsInLine, IdsAssumption DEF LineInv
  <2>4. /\ queue' \in Seq(Ids) /\ Len(queue') = Len(queue) + 1 /\ queue'[Len(queue) + 1] = id
        /\ \A i \in 1..Len(queue) : queue'[i] = queue[i]
    BY <2>1, <2>2
  <2>5. \A i \in 1..Len(queue) : queue[i] # id
    BY <2>2, <2>3 DEF ToSet
  <2>6. ToSet(queue') = ToSet(queue) \cup {id}
    BY <2>2, <2>4 DEF ToSet
  <2>7. \A i \in 1..Len(queue') : queue'[i] # NoId
    BY <2>4, IdsAssumption
  <2>8. NoId \notin ToSet(queue')
    BY <2>4, <2>7 DEF ToSet
  <2>9. IsInjective(queue')
    BY <2>2, <2>4, <2>5 DEF QueueInv, IsInjective
  <2> QED BY <2>1, <2>3, <2>6, <2>7, <2>8, <2>9 DEF QueueInv, SentinelLast
<1>3. CASE Get
  <2>1. /\ queue # <<>> /\ queue' = Tail(queue) /\ item' = Head(queue) /\ stopping' = stopping
    BY <1>3 DEF Get, stop
  <2>2. /\ queue' \in Seq(Ids \cup {NoId}) /\ Len(queue') = Len(queue) - 1
        /\ \A i \in 1..Len(queue') : queue'[i] = queue[i + 1]
    BY <2>1 DEF PendingType
  <2>3. SentinelLast(queue')
    BY <2>1, IdsOfTail DEF PendingType, QueueInv
  <2>4. IsInjective(queue')
    <3>1. ASSUME NEW i \in 1..Len(queue'), NEW j \in 1..Len(queue'), queue'[i] = queue'[j]
          PROVE  i = j
      <4>1. /\ i + 1 \in 1..Len(queue) /\ j + 1 \in 1..Len(queue)
            /\ queue[i + 1] = queue[j + 1]
        BY <2>2, <3>1 DEF PendingType
      <4>2. i + 1 = j + 1
        BY <4>1 DEF QueueInv, IsInjective, PendingType
      <4> QED BY <4>2
    <3> QED BY <2>2, <3>1 DEF IsInjective
  <2>5. ToSet(queue') \subseteq ToSet(queue)
    <3>1. Len(queue) \in Nat
      BY DEF PendingType
    <3>2. ASSUME NEW i \in 1..Len(queue')
          PROVE  i + 1 \in 1..Len(queue) /\ queue'[i] = queue[i + 1]
      BY <2>2, <3>1, <3>2
    <3>3. ASSUME NEW i \in 1..Len(queue')
          PROVE  queue'[i] \in ToSet(queue)
      BY <3>2, <3>3 DEF ToSet
    <3> QED BY <2>2, <3>3 DEF ToSet
  <2>6. Head(queue) \notin ToSet(queue')
    <3>1. \A i \in 1..Len(queue') : queue[1] # queue[i + 1]
      BY <2>1, <2>2 DEF QueueInv, IsInjective, PendingType
    <3> QED BY <2>1, <2>2, <3>1 DEF ToSet, PendingType
  <2> QED BY <2>1, <2>3, <2>4, <2>5, <2>6 DEF QueueInv
<1>4. CASE Finish \/ FinishRaced \/ FinishFault
  BY <1>4 DEF Finish, FinishRaced, FinishFault, Release, QueueInv, stop
<1>5. CASE (ClearPending \/ Activate \/ ActivateFault) /\ item' = item
  BY <1>5 DEF ClearPending, Activate, ActivateFault, QueueInv, stop
<1>6. CASE RequestStop
  <2>1. /\ ~stopping /\ stopping' /\ item' = item
        /\ queue' = queue \/ queue' = Append(queue, NoId)
    BY <1>6 DEF RequestStop, worker
  <2>2. queue \in Seq(Ids)
    BY <2>1, NoSentinelYet
  <2>3. CASE queue' = queue
    BY <2>1, <2>3 DEF QueueInv
  <2>4. CASE queue' = Append(queue, NoId)
    <3>1. /\ queue' \in Seq(Ids \cup {NoId}) /\ Len(queue') = Len(queue) + 1
          /\ queue'[Len(queue) + 1] = NoId
          /\ \A i \in 1..Len(queue) : queue'[i] = queue[i] /\ queue'[i] # NoId
      BY <2>2, <2>4, IdsAssumption
    <3>2. SentinelLast(queue')
      BY <2>2, <3>1 DEF SentinelLast
    <3>3. IsInjective(queue')
      BY <2>2, <3>1 DEF QueueInv, IsInjective
    <3>4. ToSet(queue') = ToSet(queue) \cup {NoId}
      BY <2>2, <3>1 DEF ToSet
    <3> QED BY <2>1, <3>2, <3>3, <3>4 DEF QueueInv
  <2> QED BY <2>1, <2>3, <2>4
<1>7. CASE Restart
  <2>1. queue' = <<>> /\ item' = NoId
    BY <1>7 DEF Restart
  <2>2. SentinelLast(<<>>) /\ IsInjective(<<>>) /\ ToSet(<<>>) = {}
    BY DEF SentinelLast, IsInjective, ToSet
  <2> QED BY <2>1, <2>2 DEF QueueInv
<1> QED BY <1>1, <1>2, <1>3, <1>4, <1>5, <1>6, <1>7, Frames, ItemFrame
        DEF PendingStep, Activate, ActivateFault, ClearPending, worker

\* The pending set and the displayed order change with the queue and the worker's
\* identifier, so that they agree after each step, until the stop clears them.
LEMMA LineInvStep ==
    ASSUME PendingType, WorkerType, WorkerInv, QueueInv, LineInv, [Next]_vars
    PROVE  LineInv'
<1>0. (cleared' = cleared /\ (stopping => stopping')) \/ ClearPending \/ Restart
  BY Frames DEF stop, StopStep, CancelFetches, RequestStop
<1>1. CASE UNCHANGED pending /\ item' = item
  <2>1. CASE cleared' = cleared /\ (stopping => stopping')
    BY <1>1, <2>1 DEF LineInv, pending
  <2>2. CASE ClearPending
    BY <2>2 DEF ClearPending, LineInv
  <2>3. CASE Restart
    <3>1. /\ queue' = <<>> /\ queued' = {} /\ pendingOrder' = <<>> /\ item' = NoId
          /\ cleared' = FALSE
      BY <2>3 DEF Restart
    <3>2. HeldOf(NoId) \o IdsOf(<<>>) = <<>> /\ ToSet(<<>>) = {}
      BY DEF HeldOf, IdsOf, ToSet
    <3> QED BY <3>1, <3>2 DEF LineInv
  <2> QED BY <1>0, <2>1, <2>2, <2>3
<1>2. ASSUME NEW id \in Ids, Admit(id)
      PROVE  LineInv'
  <2>1. /\ queue' = Append(queue, id) /\ item' = item /\ ~stopping
        /\ cleared' = cleared /\ pendingOrder' = Append(pendingOrder, id)
        /\ queued' = queued \cup {id}
    BY <1>2 DEF Admit, Admissible, worker, stop
  <2>2. queue \in Seq(Ids) /\ ~cleared
    BY <2>1, NoSentinelYet DEF LineInv
  <2>3. pendingOrder = HeldOf(item) \o queue /\ queued = ToSet(pendingOrder)
    BY <2>2, IdsOfAppend DEF LineInv
  <2>4. HeldOf(item) \in Seq(Ids)
    BY WhoIsInLine
  <2>5. Append(HeldOf(item) \o queue, id) = HeldOf(item) \o Append(queue, id)
    BY <2>2, <2>4
  <2>6. pendingOrder' = HeldOf(item') \o IdsOf(queue')
    BY <2>1, <2>2, <2>3, <2>5, IdsOfAppend
  <2>7. ToSet(Append(pendingOrder, id)) = ToSet(pendingOrder) \cup {id}
    <3>1. /\ Len(Append(pendingOrder, id)) = Len(pendingOrder) + 1
          /\ Append(pendingOrder, id)[Len(pendingOrder) + 1] = id
          /\ \A i \in 1..Len(pendingOrder) : Append(pendingOrder, id)[i] = pendingOrder[i]
      BY DEF PendingType
    <3> QED BY <3>1 DEF ToSet, PendingType
  <2> QED BY <2>1, <2>2, <2>3, <2>6, <2>7 DEF LineInv
<1>3. CASE Get
  <2>1. /\ item = NoId /\ queue # <<>> /\ queue' = Tail(queue) /\ item' = Head(queue)
        /\ UNCHANGED <<pendingOrder, queued, stopping, cleared>>
    BY <1>3 DEF Get, stop, WorkerInv
  <2>2. IdsOf(queue) = HeldOf(item') \o IdsOf(queue')
    BY <2>1, IdsOfTail DEF PendingType, QueueInv
  <2>3. HeldOf(item) \o IdsOf(queue) = IdsOf(queue)
    BY <2>1, WhoIsInLine DEF HeldOf
  <2> QED BY <2>1, <2>2, <2>3 DEF LineInv
<1>4. CASE Finish \/ FinishRaced \/ FinishFault
  <2>1. /\ queue' = queue /\ item' = NoId /\ queued' = queued \ {item}
        /\ pendingOrder' = RemoveFirst(pendingOrder, item)
        /\ UNCHANGED <<stopping, cleared>> /\ wpc \in {"finally", "unwinding"}
    BY <1>4 DEF Finish, FinishRaced, FinishFault, Release, stop
  <2>2. item \in Ids /\ item # NoId /\ HeldOf(item) = <<item>>
    BY <2>1, IdsAssumption DEF WorkerInv, HeldOf
  <2>3. CASE cleared
    <3>1. RemoveFirst(<<>>, item) = <<>>
      BY DEF RemoveFirst
    <3> QED BY <2>1, <2>3, <3>1 DEF LineInv
  <2>4. CASE ~cleared
    <3> DEFINE w == IdsOf(queue)
    <3>1. w \in Seq(Ids) /\ ToSet(w) = ToSet(queue) \ {NoId}
      BY IdsOfIsRight DEF PendingType, QueueInv
    <3>2. pendingOrder = <<item>> \o w /\ queued = (ToSet(queue) \cup {item}) \ {NoId}
      BY <2>2, <2>4, WhoIsInLine DEF LineInv
    <3> HIDE DEF w
    <3>3. pendingOrder # <<>> /\ Head(pendingOrder) = item /\ Tail(pendingOrder) = w
      BY <2>2, <3>1, <3>2
    <3>4. RemoveFirst(pendingOrder, item) = w
      BY <3>3, RemoveHead DEF PendingType
    <3>5. HeldOf(NoId) \o w = w
      BY <3>1 DEF HeldOf
    <3>6. queued \ {item} = ToSet(w)
      BY <2>2, <3>1, <3>2 DEF QueueInv
    <3>7. pendingOrder' = HeldOf(item') \o IdsOf(queue') /\ queued' = ToSet(pendingOrder')
      BY <2>1, <3>4, <3>5, <3>6 DEF w
    <3> QED BY <2>1, <2>4, <3>7 DEF LineInv
  <2> QED BY <2>3, <2>4
<1>5. CASE (Activate \/ ActivateFault) /\ item' = item
  <2>1. UNCHANGED <<queue, queued, pendingOrder, item, stopping, cleared>>
    BY <1>5 DEF Activate, ActivateFault, stop
  <2> QED BY <2>1 DEF LineInv, HeldOf, IdsOf
<1>6. CASE RequestStop
  <2>1. /\ ~stopping /\ stopping' /\ item' = item /\ cleared' = cleared
        /\ UNCHANGED <<queued, pendingOrder>>
        /\ queue' = queue \/ queue' = Append(queue, NoId)
    BY <1>6 DEF RequestStop, worker
  <2>2. queue \in Seq(Ids)
    BY <2>1, NoSentinelYet
  <2>4. IdsOf(queue') = IdsOf(queue)
    BY <2>1, <2>2, IdsOfStop
  <2> QED BY <2>1, <2>4 DEF LineInv
<1>7. CASE ClearPending
  BY <1>7 DEF ClearPending, LineInv
<1>8. CASE Restart
  <2>1. /\ queue' = <<>> /\ queued' = {} /\ pendingOrder' = <<>> /\ item' = NoId
        /\ cleared' = FALSE
    BY <1>8 DEF Restart
  <2>2. HeldOf(NoId) \o IdsOf(<<>>) = <<>> /\ ToSet(<<>>) = {}
    BY DEF HeldOf, IdsOf, ToSet
  <2> QED BY <2>1, <2>2 DEF LineInv
<1> QED BY <1>1, <1>2, <1>3, <1>4, <1>5, <1>6, <1>7, <1>8, Frames, ItemFrame
        DEF PendingStep, Activate, ActivateFault, worker
------------------------------------------------------------------------------
(* The cache.                                                               *)

\* What evict takes: never a protected entry, and as many as it takes to come
\* back under the limit, unless only protected entries are left.
LEMMA EvictionIsRight ==
    ASSUME IndexType, NEW P
    PROVE  /\ Victims(P) \subseteq ToSet(lru) \ P
           /\ \/ Cardinality(ToSet(lru) \ Victims(P)) <= CacheMax
              \/ ToSet(lru) \ Victims(P) \subseteq P
<1> DEFINE m == Len(lru)
           n == m - CacheMax
           U == {i \in DOMAIN lru : lru[i] \notin P}
           rank == [i \in U |-> Cardinality(U \cap 1..i)]
           W == {i \in U : rank[i] <= n}
           V == {lru[i] : i \in W}
<1>1. m \in Nat /\ n \in Int /\ CacheMax \in Nat /\ U \in SUBSET (1..m)
  BY SizeAssumption DEF IndexType
<1>2. Victims(P) = V
  <2>1. ASSUME NEW i \in DOMAIN lru
        PROVE  {j \in 1..i : lru[j] \notin P} = U \cap 1..i
    BY DEF IndexType
  <2>2. {i \in DOMAIN lru : /\ lru[i] \notin P
                            /\ Cardinality({j \in 1..i : lru[j] \notin P}) <= n} = W
    BY <2>1
  <2> QED BY <2>2 DEF Victims
<1>3. /\ IsFiniteSet(U) /\ Cardinality(U) \in Nat
      /\ rank \in Bijection(U, 1..Cardinality(U))
  BY <1>1, RankIsBijection
<1>4. V \subseteq ToSet(lru) \ P
  BY DEF ToSet
<1>5. IsFiniteSet(ToSet(lru)) /\ Cardinality(ToSet(lru)) = m
  BY LenIsCardinality DEF IndexType
<1> HIDE DEF rank, m
<1>6. CASE n <= 0
  <2>1. Cardinality(ToSet(lru) \ V) <= m /\ Cardinality(ToSet(lru) \ V) \in Nat
    BY <1>5, FS_Subset, FS_CardinalityType
  <2> QED BY <1>1, <1>2, <1>4, <1>6, <2>1
<1>7. CASE W = U
  <2>1. ToSet(lru) \ V \subseteq P
    BY <1>7 DEF ToSet
  <2> QED BY <1>2, <1>4, <2>1
<1>8. ASSUME NEW i \in U, i \notin W, n > 0
      PROVE  Cardinality(ToSet(lru) \ V) <= CacheMax
  <2>1. rank[i] \in 1..Cardinality(U) /\ ~(rank[i] <= n)
    BY <1>3, <1>8 DEF Bijection, Injection
  <2>2. n <= Cardinality(U) /\ n \in Nat
    BY <1>1, <1>3, <1>8, <2>1
  <2> HIDE DEF n
  <2> DEFINE g == [j \in W |-> rank[j]]
  <2>3. g \in Surjection(W, 1..n)
    <3>1. \A j \in W : g[j] \in 1..n
      BY <1>3 DEF Bijection, Injection
    <3>2. ASSUME NEW k \in 1..n
          PROVE  \E j \in W : g[j] = k
      <4>1. k \in 1..Cardinality(U) /\ k <= n
        BY <1>3, <2>2
      <4>2. PICK j \in U : rank[j] = k
        BY <1>3, <4>1 DEF Bijection, Surjection
      <4> QED BY <4>1, <4>2
    <3> QED BY <3>1, <3>2 DEF Surjection
  <2>4. IsFiniteSet(W) /\ Cardinality(W) \in Nat
    BY <1>3, FS_Subset, FS_CardinalityType
  <2>5. Cardinality(1..n) <= Cardinality(W) /\ Cardinality(1..n) = n
    BY <2>2, <2>3, <2>4, FS_Surjection, FS_Interval
  <2> DEFINE h == [j \in W |-> lru[j]]
  <2>6. h \in Bijection(W, V)
    BY DEF Bijection, Injection, Surjection, IsInjective, IndexType
  <2>7. Cardinality(V) = Cardinality(W)
    BY <2>4, <2>6, FS_Bijection DEF ExistsBijection
  <2>8. ToSet(lru) \cap V = V
    BY <1>4
  <2>9. Cardinality(ToSet(lru) \ V) = m - Cardinality(V)
    BY <1>5, <2>8, FS_Difference
  <2>10. m - n = CacheMax
    BY <1>1 DEF n
  <2> QED BY <1>1, <2>2, <2>4, <2>5, <2>7, <2>9, <2>10
<1>9. n \in Int
  BY <1>1
<1> QED BY <1>2, <1>4, <1>6, <1>7, <1>8, <1>9

\* An eviction that takes anything starts from a cache beyond its limit, leaves it
\* full, and takes the oldest entries first.
LEMMA VictimsAreOldest ==
    ASSUME IndexType, NEW P, Victims(P) # {}
    PROVE  /\ Len(lru) > CacheMax
           /\ Cardinality(ToSet(lru) \ Victims(P)) >= CacheMax
           /\ \A i, j \in DOMAIN lru : i < j /\ lru[j] \in Victims(P)
                => lru[i] \in P \/ lru[i] \in Victims(P)
<1> DEFINE m == Len(lru)
           n == m - CacheMax
           U == {i \in DOMAIN lru : lru[i] \notin P}
           rank == [i \in U |-> Cardinality(U \cap 1..i)]
           W == {i \in U : rank[i] <= n}
           V == {lru[i] : i \in W}
<1>1. m \in Nat /\ n \in Int /\ CacheMax \in Nat /\ U \in SUBSET (1..m)
  BY SizeAssumption DEF IndexType
<1>2. Victims(P) = V
  <2>1. ASSUME NEW i \in DOMAIN lru
        PROVE  {j \in 1..i : lru[j] \notin P} = U \cap 1..i
    BY DEF IndexType
  <2>2. {i \in DOMAIN lru : /\ lru[i] \notin P
                            /\ Cardinality({j \in 1..i : lru[j] \notin P}) <= n} = W
    BY <2>1
  <2> QED BY <2>2 DEF Victims
<1>3. /\ IsFiniteSet(U) /\ Cardinality(U) \in Nat
      /\ rank \in Bijection(U, 1..Cardinality(U))
  BY <1>1, RankIsBijection
<1>4. \A i, j \in DOMAIN lru : lru[i] = lru[j] => i = j
  BY DEF IndexType, IsInjective
<1>5. IsFiniteSet(ToSet(lru)) /\ Cardinality(ToSet(lru)) = m
  BY LenIsCardinality DEF IndexType
<1>6. ASSUME NEW i \in U, NEW j \in U, i < j
      PROVE  rank[i] <= rank[j]
  <2>1. U \cap 1..i \in SUBSET (U \cap 1..j)
    BY <1>1, <1>6
  <2>2. IsFiniteSet(U \cap 1..j)
    BY <1>3, FS_Subset
  <2>3. Cardinality(U \cap 1..i) <= Cardinality(U \cap 1..j)
    BY <2>1, <2>2, FS_Subset
  <2> HIDE DEF U
  <2> QED BY <2>3
<1>7. V \subseteq ToSet(lru) /\ W \subseteq U /\ U \subseteq DOMAIN lru
  BY DEF ToSet
<1> HIDE DEF rank, m
<1>8. \A i \in U : rank[i] \in 1..Cardinality(U)
  BY <1>3 DEF Bijection, Injection
<1>9. n \in Nat \ {0}
  <2>1. PICK i \in W : TRUE
    BY <1>2
  <2>2. rank[i] \in 1..Cardinality(U) /\ rank[i] <= n
    BY <1>8, <2>1
  <2> HIDE DEF n
  <2> QED BY <1>1, <1>3, <2>2
<1>10. Len(lru) > CacheMax
  BY <1>1, <1>9 DEF m
<1>11. IsFiniteSet(W) /\ Cardinality(W) \in Nat
  BY <1>3, <1>7, FS_Subset, FS_CardinalityType
<1>12. Cardinality(W) <= n
  <2> DEFINE g == [i \in W |-> rank[i]]
  <2>1. \A i \in W : g[i] \in 1..n
    <3>1. \A i \in W : rank[i] \in 1..Cardinality(U) /\ rank[i] <= n
      BY <1>8
    <3> HIDE DEF n
    <3> QED BY <1>3, <1>9, <3>1
  <2>2. \A i, j \in W : g[i] = g[j] => i = j
    BY <1>3 DEF Bijection, Injection, IsInjective
  <2>3. g \in Injection(W, 1..n)
    <3>1. g \in [W -> 1..n]
      BY <2>1
    <3> HIDE DEF g
    <3> QED BY <2>2, <3>1 DEF Injection, IsInjective
  <2>4. IsFiniteSet(1..n) /\ Cardinality(1..n) = n
    <3> HIDE DEF n
    <3> QED BY <1>9, FS_Interval
  <2> QED BY <2>3, <2>4, FS_Injection
<1>13. Cardinality(V) = Cardinality(W)
  <2> DEFINE h == [i \in W |-> lru[i]]
  <2>1. h \in Bijection(W, V)
    BY <1>4, <1>7 DEF Bijection, Injection, Surjection, IsInjective
  <2> QED BY <1>11, <2>1, FS_Bijection DEF ExistsBijection
<1>14. Cardinality(ToSet(lru) \ V) >= CacheMax
  <2>1. ToSet(lru) \cap V = V
    BY <1>7
  <2>2. Cardinality(ToSet(lru) \ V) = m - Cardinality(V)
    BY <1>5, <2>1, FS_Difference
  <2>3. m - n = CacheMax
    BY <1>1
  <2> HIDE DEF n
  <2> QED BY <1>1, <1>9, <1>11, <1>12, <1>13, <2>2, <2>3
<1>15. ASSUME NEW i \in DOMAIN lru, NEW j \in DOMAIN lru, i < j, lru[j] \in V, lru[i] \notin P
       PROVE  lru[i] \in V
  <2>1. PICK k \in W : lru[k] = lru[j]
    BY <1>15
  <2>2. j \in W
    BY <1>4, <1>7, <2>1
  <2>3. i \in U /\ j \in U
    BY <1>15, <2>2
  <2>4. rank[i] <= rank[j] /\ rank[j] <= n
    BY <1>6, <1>15, <2>2, <2>3
  <2>5. rank[i] \in Nat /\ rank[j] \in Nat
    BY <1>3, <1>8, <2>3
  <2>6. rank[i] <= n
    <3> HIDE DEF n
    <3> QED BY <1>1, <2>4, <2>5
  <2> QED BY <2>3, <2>6
<1> QED BY <1>2, <1>10, <1>14, <1>15

\* What the eviction of a finished refresh does to the index and to the disk.
LEMMA EvictAllIsRight ==
    ASSUME IndexType, DiskType, NEW v, EvictAll(v)
    PROVE  ToSet(lru') = ToSet(lru) \ v /\ Cached' = Cached \ v
<1>1. lru' = Kept(lru, Ids \ v) /\ snap' = [id \in Ids |-> IF id \in v THEN "none" ELSE snap[id]]
  BY DEF EvictAll, Deleted
<1>2. ToSet(lru') = ToSet(lru) \cap (Ids \ v)
  BY <1>1, KeptIsRight DEF IndexType
<1>3. ToSet(lru) \subseteq Ids
  BY DEF IndexType, ToSet
<1>4. Cached' = Cached \ v
  BY <1>1 DEF Cached, DiskType
<1> QED BY <1>2, <1>3, <1>4

\* Publications, touches and evictions, complete or not, keep the index within the
\* snapshots on disk, and without a fault they keep it complete.
LEMMA CacheInvStep ==
    ASSUME WorkerType, WorkerInv, CounterType, DiskType, IndexType, CacheInv, [Next]_vars
    PROVE  CacheInv'
<1>0. faults' = 0 => faults = 0
  <2>1. faults' = faults \/ faults' = faults + 1
    BY Frames DEF Fault, ActivateFault, RefreshHalfDone, TouchFault, RecordWorkerFault,
                  FinishFault
  <2> QED BY <2>1 DEF CounterType
<1>1. ASSUME UNCHANGED snap, UNCHANGED lru,
             wpc # "touch" \/ (wpc' = wpc /\ item' = item),
             wpc' = "touch" => wpc = "touch",
             wpc = "dead" => wpc' = "dead"
      PROVE  CacheInv'
  <2>1. Cached' = Cached
    BY <1>1 DEF Cached
  <2> QED BY <1>0, <1>1, <2>1 DEF CacheInv
<1>2. CASE UNCHANGED snap /\ UNCHANGED lru /\ UNCHANGED worker
  BY <1>1, <1>2 DEF worker
<1>3. CASE UNCHANGED snap /\ UNCHANGED lru /\ (Work \/ Fault)
  <2>1. \/ wpc # "touch" /\ wpc' # "touch" /\ (wpc = "dead" => wpc' = "dead")
        \/ Touch \/ TouchFault \/ RefreshDone
    BY <1>3 DEF Work, Fault, Check, Get, GetTimeout, Activate, RefreshFailed, RefreshRefused,
         RecordWorkerFailure, Finish, FinishRaced, Release, ActivateFault, RefreshHalfDone,
         RecordWorkerFault, FinishFault
  <2>2. CASE Touch \/ TouchFault
    <3>1. item \in ToSet(lru') /\ ToSet(lru) = ToSet(lru') /\ Cached' = Cached
      BY <1>3, <2>2, TouchedIsRight DEF Touch, TouchFault, WorkerInv, Cached
    <3> QED BY <1>0, <2>2, <3>1 DEF CacheInv, Touch, TouchFault
  <2>3. CASE RefreshDone
    <3>1. snap[item] = "fresh" /\ item' = item /\ wpc' = "touch" /\ wpc = "running"
      BY <1>3, <2>3 DEF RefreshDone, WorkerInv, DiskType
    <3>2. item \in Cached /\ Cached' = Cached
      BY <1>3, <3>1 DEF Cached, WorkerInv
    <3> QED BY <1>0, <1>3, <3>1, <3>2 DEF CacheInv
  <2> QED BY <1>1, <1>3, <2>1, <2>2, <2>3
<1>4. CASE RefreshDone \/ RefreshHalfDone
  <2>1. /\ item \in Ids /\ item' = item /\ wpc = "running" /\ lru' = lru
        /\ wpc' = "touch" \/ (wpc' = "failing" /\ faults' = faults + 1)
        /\ snap' = [snap EXCEPT ![item] = "fresh"]
    BY <1>4 DEF RefreshDone, RefreshHalfDone, WorkerInv
  <2>2. Cached' = Cached \cup {item} /\ snap'[item] = "fresh"
    BY <2>1 DEF Cached, DiskType
  <2>3. faults + 1 # 0
    BY DEF CounterType
  <2> QED BY <1>0, <2>1, <2>2, <2>3 DEF CacheInv
<1>5. CASE Touch \/ TouchFault
  <2>1. /\ item \in Ids /\ wpc = "touch" /\ lru' = Touched(item) /\ snap' = snap
        /\ wpc' = "finally" \/ wpc' = "failing"
    BY <1>5 DEF Touch, TouchFault, WorkerInv
  <2>2. ToSet(lru') = ToSet(lru) \cup {item} /\ Cached' = Cached
    BY <2>1, TouchedIsRight DEF Cached
  <2>3. item \in Cached
    BY <2>1 DEF CacheInv, Cached
  <2> QED BY <1>0, <2>1, <2>2, <2>3 DEF CacheInv
<1>6. CASE Finish
  <2>1. PICK v : EvictAll(v)
    BY <1>6 DEF Finish
  <2>2. ToSet(lru') = ToSet(lru) \ v /\ Cached' = Cached \ v
    BY <2>1, EvictAllIsRight
  <2>3. wpc \in {"finally", "unwinding"} /\ wpc' \in {"check", "dead"}
    BY <1>6 DEF Finish, Release
  <2> QED BY <1>0, <2>2, <2>3 DEF CacheInv
<1>7. CASE FinishRaced \/ FinishFault
  <2>1. wpc' = "dead"
    BY <1>7 DEF FinishRaced, FinishFault
  <2> QED BY <2>1 DEF CacheInv
<1>8. ASSUME NEW id \in Ids, RequestFresh(id)
      PROVE  CacheInv'
  <2>1. /\ snap[id] = "fresh" /\ lru' = Touched(id)
        /\ UNCHANGED <<snap, wpc, item, faults>>
    BY <1>8 DEF RequestFresh, worker, counters
  <2>2. ToSet(lru') = ToSet(lru) \cup {id} /\ Cached' = Cached /\ id \in Cached
    BY <2>1, TouchedIsRight DEF Cached
  <2> QED BY <2>1, <2>2 DEF CacheInv
<1>9. CASE GoStale
  <2>1. /\ UNCHANGED <<wpc, item, faults, lru>>
        /\ \E S \in SUBSET {id \in Ids : snap[id] = "fresh"} :
             snap' = [id \in Ids |-> IF id \in S THEN "stale" ELSE snap[id]]
    BY <1>9 DEF GoStale, worker, counters
  <2>2. Cached' = Cached
    BY <2>1 DEF Cached, DiskType
  <2>3. wpc = "touch" => snap'[item] # "none"
    BY <2>1 DEF CacheInv, WorkerInv, DiskType
  <2> QED BY <2>1, <2>2, <2>3 DEF CacheInv
<1>10. CASE Restart
  <2>1. wpc' = "check" /\ ToSet(lru') = Cached /\ snap' = snap
    BY <1>10, RestartIndex DEF Restart
  <2> QED BY <2>1 DEF CacheInv, Cached
<1> QED BY <1>2, <1>3, <1>4, <1>5, <1>6, <1>7, <1>8, <1>9, <1>10, Frames
        DEF DiskStep, IndexStep, ThreadStep

\* No counter ever goes back: a run without faults, or restarts, never had any.
LEMMA CountersGrow ==
    ASSUME CounterType, [Next]_vars
    PROVE  /\ restarts' = 0 => restarts = 0 /\ ~Restart
           /\ faults' = 0 => faults = 0 /\ ~Fault
           /\ now <= now'
<1>1. restarts' = restarts \/ Restart
  BY Frames
<1>2. Restart => restarts' = restarts + 1
  BY DEF Restart
<1>3. faults' = faults \/ Fault
  BY Frames
<1>4. Fault => faults' = faults + 1
  BY DEF Fault, ActivateFault, RefreshHalfDone, TouchFault, RecordWorkerFault, FinishFault
<1>5. now' = now \/ now' = now + 1
  BY Frames DEF Tick
<1>6. restarts + 1 # 0 /\ faults + 1 # 0 /\ now <= now + 1 /\ now <= now
  BY DEF CounterType
<1> QED BY <1>1, <1>2, <1>3, <1>4, <1>5, <1>6

\* A refresh makes the index grow by the snapshot it loads; the eviction that ends
\* it takes the index back to the limit, or to what is pending.
LEMMA BoundInvStep ==
    ASSUME Types, WorkerInv, QueueInv, LineInv, CacheInv, BoundInv, [Next]_vars
    PROVE  BoundInv'
<1> USE DEF Types
<1> SUFFICES ASSUME restarts' = 0, faults' = 0, ~cleared', wpc' # "dead"
             PROVE  \/ Cardinality(ToSet(lru') \ JustLoaded') <= CacheMax
                    \/ ToSet(lru') \subseteq queued'
  BY DEF BoundInv
<1>1. restarts = 0 /\ ~Restart
  BY CountersGrow
<1>2. faults = 0 /\ ~Fault
  BY CountersGrow
<1>3. ~cleared
  BY <1>1, Frames DEF stop, StopStep, CancelFetches, RequestStop, ClearPending
<1>12. wpc # "dead" /\ ~FinishRaced
  <2>1. ~FinishRaced
    BY DEF FinishRaced
  <2>2. Work => wpc # "dead"
    BY <2>1 DEF Work, Check, Get, GetTimeout, Activate, RefreshDone, RefreshFailed,
                RefreshRefused, Touch, RecordWorkerFailure, Finish, Release
  <2> QED BY <1>1, <1>2, <2>1, <2>2, Frames DEF ThreadStep, worker
<1>4. \/ Cardinality(ToSet(lru) \ JustLoaded) <= CacheMax
      \/ ToSet(lru) \subseteq queued
  BY <1>1, <1>2, <1>3, <1>12 DEF BoundInv
<1>5. IsFiniteSet(ToSet(lru)) /\ CacheMax \in Nat
  BY LenIsCardinality, SizeAssumption DEF IndexType
<1>6. ASSUME ToSet(lru') \ JustLoaded' \subseteq ToSet(lru) \ JustLoaded,
             ToSet(lru) \subseteq queued => ToSet(lru') \subseteq queued'
      PROVE  \/ Cardinality(ToSet(lru') \ JustLoaded') <= CacheMax
             \/ ToSet(lru') \subseteq queued'
  <2> DEFINE A == ToSet(lru) \ JustLoaded
             B == ToSet(lru') \ JustLoaded'
  <2>1. IsFiniteSet(A)
    BY <1>5, FS_Subset
  <2>2. IsFiniteSet(B) /\ Cardinality(B) <= Cardinality(A)
    BY <1>6, <2>1, FS_Subset
  <2>3. Cardinality(A) \in Nat /\ Cardinality(B) \in Nat
    BY <2>1, <2>2, FS_CardinalityType
  <2> HIDE DEF A, B
  <2>4. Cardinality(A) <= CacheMax => Cardinality(B) <= CacheMax
    BY <1>5, <2>2, <2>3
  <2> QED BY <1>4, <1>6, <2>4 DEF A, B
<1>7. wpc = "touch" => item \in queued
  <2>1. wpc = "touch" => item \in Ids /\ item # NoId
    BY IdsAssumption DEF WorkerInv
  <2> QED BY <1>3, <2>1, WhoIsInLine DEF LineInv
<1>8. CASE Finish
  <2> DEFINE P == queued \ {item}
  <2>1. EvictAll(Victims(P)) /\ queued' = P /\ wpc' \notin {"touch", "finally"}
    BY <1>8 DEF Finish, Release
  <2> HIDE DEF P
  <2>2. ToSet(lru') = ToSet(lru) \ Victims(P)
    BY <2>1, EvictAllIsRight
  <2>3. JustLoaded' = {}
    BY <2>1 DEF JustLoaded
  <2>4. \/ Cardinality(ToSet(lru) \ Victims(P)) <= CacheMax
        \/ ToSet(lru) \ Victims(P) \subseteq P
    BY EvictionIsRight
  <2>5. ToSet(lru') \ {} = ToSet(lru')
    OBVIOUS
  <2> QED BY <2>1, <2>2, <2>3, <2>4, <2>5
<1>9. CASE Touch
  <2>1. /\ item \in Ids /\ item' = item /\ wpc = "touch" /\ wpc' = "finally"
        /\ lru' = Touched(item) /\ queued' = queued
    BY <1>9 DEF Touch, WorkerInv, pending
  <2>2. ToSet(lru') = ToSet(lru) \cup {item}
    BY <2>1, TouchedIsRight
  <2> QED BY <1>6, <1>7, <2>1, <2>2 DEF JustLoaded
<1>10. ASSUME NEW id \in Ids, RequestFresh(id)
       PROVE  \/ Cardinality(ToSet(lru') \ JustLoaded') <= CacheMax
              \/ ToSet(lru') \subseteq queued'
  <2>1. /\ snap[id] = "fresh" /\ lru' = Touched(id) /\ queued' = queued
        /\ UNCHANGED <<wpc, item>>
    BY <1>10 DEF RequestFresh, worker, pending
  <2>2. ToSet(lru') = ToSet(lru) \cup {id} /\ id \in Cached
    BY <2>1, TouchedIsRight DEF Cached
  <2>3. id \in ToSet(lru) \/ (wpc = "touch" /\ id = item)
    BY <1>2, <1>12, <2>2 DEF CacheInv
  <2> QED BY <1>6, <1>7, <2>1, <2>2, <2>3 DEF JustLoaded
<1>11. CASE UNCHANGED lru /\ ~Finish /\ ~Touch
  <2>1. queued \subseteq queued'
    <3>1. CASE UNCHANGED pending
      BY <3>1 DEF pending
    <3>2. CASE PendingStep
      BY <1>1, <1>2, <1>3, <1>11, <1>12, <3>2
         DEF PendingStep, Admit, Get, Activate, RequestStop, ClearPending, Fault
    <3> QED BY <3>1, <3>2, Frames
  <2>2. JustLoaded \subseteq JustLoaded'
    <3>1. CASE UNCHANGED worker
      BY <3>1 DEF worker, JustLoaded
    <3>2. CASE Work
      BY <1>11, <1>12, <3>2
         DEF Work, Check, Get, GetTimeout, Activate, RefreshDone, RefreshFailed,
             RefreshRefused, RecordWorkerFailure, JustLoaded
    <3> QED BY <1>1, <1>2, <3>1, <3>2, Frames DEF ThreadStep
  <2> QED BY <1>6, <1>11, <2>1, <2>2
<1> QED BY <1>1, <1>2, <1>8, <1>9, <1>10, <1>11, <1>12, Frames DEF IndexStep, Fault
------------------------------------------------------------------------------
(* The hourly quota and the backoff.                                        *)

\* Admissions, polls and the passing of time keep the deque and the history alike.
LEMMA QuotaInvStep ==
    ASSUME Types, QuotaInv, [Next]_vars
    PROVE  QuotaInv'
<1> USE DEF Types, ColdType, CounterType
<1> DEFINE A == coldAdmissions
           R == Unexpired(A, now)
<1> SUFFICES ASSUME restarts' = 0
             PROVE  coldLog' = Unexpired(coldAdmissions', now') /\ Len(coldLog') <= ColdMax
  BY DEF QuotaInv, Recent
<1>1. restarts = 0 /\ ~Restart
  BY CountersGrow
<1>2. coldLog = R /\ Len(coldLog) <= ColdMax
  BY <1>1 DEF QuotaInv, Recent
<1>3. A \in Seq(Nat) /\ now \in Int /\ ColdMax \in Nat
  BY SizeAssumption
<1>4. Unexpired(R, now) = R
  BY <1>3, UnexpiredTwice
<1>5. CASE Tick
  <2>1. now' = now + 1 /\ coldLog' = Unexpired(coldLog, now + 1) /\ coldAdmissions' = A
    BY <1>5 DEF Tick
  <2>2. now + 1 \in Int /\ now <= now + 1
    OBVIOUS
  <2>3. Unexpired(R, now + 1) = Unexpired(A, now + 1)
    BY <1>3, <2>2, UnexpiredTwice
  <2>4. Len(Unexpired(coldLog, now + 1)) <= Len(coldLog)
    BY <2>2, UnexpiredType
  <2>5. Unexpired(coldLog, now + 1) \in Seq(Nat)
    BY <2>2, UnexpiredType
  <2>6. Len(coldLog') <= ColdMax
    BY <1>2, <1>3, <2>1, <2>4, <2>5
  <2> QED BY <1>2, <2>1, <2>3, <2>6
<1>6. ASSUME NEW id \in Ids, Admit(id) \/ RateLimit(id) \/ Status(id)
      PROVE  coldLog' = Unexpired(coldAdmissions', now') /\ Len(coldLog') <= ColdMax
  <2>1. /\ now' = now
        /\ \/ coldAdmissions' = A /\ coldLog' = coldLog
           \/ coldAdmissions' = R /\ coldLog' = coldLog
           \/ /\ coldAdmissions' = Append(R, now) /\ coldLog' = Append(coldLog, now)
              /\ Len(R) < ColdMax
    BY <1>6 DEF Admit, RateLimit, Status, Recent, cold, counters
  <2>2. CASE coldAdmissions' = A /\ coldLog' = coldLog
    BY <1>2, <2>1, <2>2
  <2>3. CASE coldAdmissions' = R /\ coldLog' = coldLog
    BY <1>2, <1>4, <2>1, <2>3
  <2>4. CASE /\ coldAdmissions' = Append(R, now) /\ coldLog' = Append(coldLog, now)
             /\ Len(R) < ColdMax
    <3>1. Unexpired(Append(R, now), now) = Append(R, now)
      BY UnexpiredAppend
    <3>2. Len(Append(coldLog, now)) <= ColdMax
      BY <1>2, <1>3, <2>4
    <3> QED BY <1>2, <2>1, <2>4, <3>1, <3>2
  <2> QED BY <2>1, <2>2, <2>3, <2>4
<1>7. CASE UNCHANGED cold /\ UNCHANGED now
  BY <1>2, <1>7 DEF cold
<1> QED BY <1>1, <1>5, <1>6, <1>7, Frames DEF ColdStep

\* Whoever joins the queue has just been admitted.
LEMMA WhoJoins ==
    ASSUME PendingType, QueueInv, [Next]_vars, NEW x \in ToSet(queue') \ {NoId}
    PROVE  x \in ToSet(queue) \/ (x \in Ids /\ Admit(x))
<1>1. CASE UNCHANGED pending
  BY <1>1 DEF pending
<1>2. ASSUME NEW id \in Ids, Admit(id)
      PROVE  x \in ToSet(queue) \/ (x \in Ids /\ Admit(x))
  <2>1. queue' = Append(queue, id)
    BY <1>2 DEF Admit
  <2>2. ToSet(Append(queue, id)) \subseteq ToSet(queue) \cup {id}
    BY DEF ToSet, PendingType
  <2> QED BY <1>2, <2>1, <2>2
<1>3. CASE Get
  <2>1. queue # <<>> /\ queue' = Tail(queue)
    BY <1>3 DEF Get
  <2>2. ToSet(Tail(queue)) \subseteq ToSet(queue)
    BY <2>1 DEF ToSet, PendingType
  <2> QED BY <2>1, <2>2
<1>4. CASE Activate \/ ActivateFault \/ ClearPending
  BY <1>4 DEF Activate, ActivateFault, ClearPending
<1>7. CASE Finish \/ FinishRaced \/ FinishFault
  BY <1>7 DEF Finish, FinishRaced, FinishFault
<1>5. CASE RequestStop
  <2>1. queue' = queue \/ queue' = Append(queue, NoId)
    BY <1>5 DEF RequestStop
  <2>2. ToSet(Append(queue, NoId)) \subseteq ToSet(queue) \cup {NoId}
    BY DEF ToSet, PendingType
  <2> QED BY <2>1, <2>2
<1>6. CASE Restart
  BY <1>6 DEF Restart, ToSet
<1> QED BY <1>1, <1>2, <1>3, <1>4, <1>5, <1>6, <1>7, Frames DEF PendingStep

\* The recorded delays follow the failures, and those who wait may start.
LEMMA BackoffInvStep ==
    ASSUME Types, WorkerInv, QueueInv, LineInv, BackoffInv, [Next]_vars
    PROVE  BackoffInv'
<1> USE DEF Types
<1> SUFFICES ASSUME restarts' = 0, faults' = 0
             PROVE  /\ \A id \in Ids : Recorded(id)'
                    /\ \A id \in ToSet(queue') \ {NoId} : MayStart(id)'
                    /\ wpc' = "got" => MayStart(item)'
  BY DEF BackoffInv
<1>1. restarts = 0 /\ ~Restart /\ faults = 0 /\ ~Fault /\ now <= now'
  BY CountersGrow
<1>2. /\ \A id \in Ids : Recorded(id)
      /\ \A id \in ToSet(queue) \ {NoId} : MayStart(id)
      /\ wpc = "got" => MayStart(item)
  BY <1>1 DEF BackoffInv
<1>3. /\ now \in Nat /\ now' \in Nat /\ notBefore \in [Ids -> Nat]
      /\ retry \in [Ids -> Nat] /\ failures \in [Ids -> Nat]
      /\ snap \in [Ids -> {"none", "stale", "fresh"}]
  BY CounterTypeStep DEF CounterType, StatusType, DiskType
<1>4. wpc \in {"running", "failing", "finally", "unwinding"}
        => item \in Ids /\ item \notin ToSet(queue)
  BY IdsAssumption DEF WorkerInv, QueueInv
\* A step leaves a restaurant's records alone, deletes them, or is one of its own
\* refresh.
<1>5. ASSUME NEW id \in Ids
      PROVE  \/ /\ retry'[id] = retry[id] /\ failures'[id] = failures[id]
                /\ notBefore'[id] = notBefore[id]
                /\ snap[id] = "none" => snap'[id] = "none"
             \/ /\ retry'[id] = 0 /\ failures'[id] = 0 /\ snap'[id] = "none"
                /\ notBefore'[id] = notBefore[id] /\ wpc \in {"finally", "unwinding"}
             \/ /\ id = item /\ wpc \in {"running", "failing"}
                /\ RefreshDone \/ RefreshFailed \/ RecordWorkerFailure
  <2>1. CASE UNCHANGED <<status, snap>>
    BY <2>1 DEF status
  <2>2. CASE GoStale
    BY <1>3, <2>2 DEF GoStale, status
  <2>3. CASE RefreshDone \/ RefreshFailed \/ RecordWorkerFailure
    BY <1>3, <2>3 DEF RefreshDone, RefreshFailed, RecordWorkerFailure
  <2>4. CASE Finish \/ FinishRaced
    <3>1. PICK v : Deleted(v)
      BY <2>4 DEF Finish, FinishRaced, EvictAll
    <3>2. notBefore' = notBefore /\ wpc \in {"finally", "unwinding"}
      BY <2>4 DEF Finish, FinishRaced, Release
    <3> QED BY <1>3, <3>1, <3>2 DEF Deleted
  <2> QED BY <1>1, <2>1, <2>2, <2>3, <2>4, Frames DEF StatusStep, DiskStep, Fault
<1>6. ASSUME NEW id \in Ids
      PROVE  Recorded(id)'
  <2>1. CASE RefreshDone /\ id = item
    BY <1>3, <2>1 DEF RefreshDone, Recorded
  <2>2. CASE RefreshFailed /\ id = item
    BY <1>3, <2>2 DEF RefreshFailed, Recorded
  <2>3. CASE RecordWorkerFailure /\ id = item
    BY <1>3, <2>3 DEF RecordWorkerFailure, Recorded
  <2>4. CASE retry'[id] = 0 /\ failures'[id] = 0 /\ snap'[id] = "none"
    BY <2>4 DEF Recorded
  <2>5. CASE /\ retry'[id] = retry[id] /\ failures'[id] = failures[id]
             /\ notBefore'[id] = notBefore[id]
             /\ snap[id] = "none" => snap'[id] = "none"
             /\ ~(RecordWorkerFailure /\ id = item)
    <3>1. wpc = "failing" /\ id = item => RecordWorkerFailure \/ (wpc' = wpc /\ item' = item)
      BY <1>1, Frames
         DEF worker, ThreadStep, Work, Check, Get, GetTimeout, Activate, RefreshDone,
             RefreshFailed, RefreshRefused, Touch, Finish, FinishRaced, Release
    <3> QED BY <1>2, <2>5, <3>1 DEF Recorded
  <2> QED BY <1>5, <2>1, <2>2, <2>3, <2>4, <2>5
<1>7. ASSUME NEW id \in Ids, MayStart(id), ~(id = item /\ wpc \in {"running", "failing"})
      PROVE  MayStart(id)'
  BY <1>1, <1>3, <1>5, <1>7 DEF MayStart
<1>8. ASSUME NEW id \in ToSet(queue') \ {NoId}
      PROVE  MayStart(id)'
  <2>1. CASE id \in ToSet(queue)
    <3>1. id \in Ids /\ MayStart(id)
      BY <1>2, <2>1 DEF ToSet, PendingType
    <3> QED BY <1>4, <1>7, <2>1, <3>1
  <2>2. CASE id \in Ids /\ Admit(id)
    <3>1. ~stopping /\ id \notin queued /\ retry[id] <= now
      BY <2>2 DEF Admit, Admissible
    <3>2. id # item
      BY <2>2, <3>1, WhoIsInLine, IdsAssumption DEF LineInv
    <3>3. MayStart(id)
      BY <1>2, <2>2, <3>1, <3>2 DEF MayStart, Recorded
    <3> QED BY <1>7, <2>2, <3>2, <3>3
  <2> QED BY <2>1, <2>2, WhoJoins
<1>9. ASSUME wpc' = "got"
      PROVE  MayStart(item)'
  <2>1. CASE Get
    <3>1. /\ queue # <<>> /\ item' = Head(queue) /\ Head(queue) # NoId
          /\ UNCHANGED <<notBefore, failures, snap, now>>
      BY <1>9, <2>1 DEF Get, status, counters
    <3>2. Head(queue) \in ToSet(queue) /\ Head(queue) \in Ids
      BY <3>1 DEF ToSet, PendingType
    <3>3. MayStart(Head(queue))
      BY <1>2, <3>1, <3>2
    <3> QED BY <3>1, <3>3 DEF MayStart
  <2>2. CASE UNCHANGED worker
    <3>1. wpc = "got" /\ item' = item /\ item \in Ids
      BY <1>9, <2>2 DEF worker, WorkerInv
    <3>2. MayStart(item)
      BY <1>2, <3>1
    <3>3. \A id \in Ids : id = item => MayStart(id)'
      BY <1>7, <3>1, <3>2
    <3> QED BY <3>1, <3>3 DEF MayStart
  <2> QED BY <1>1, <1>9, <2>1, <2>2, Frames
         DEF ThreadStep, Work, Check, GetTimeout, Activate, RefreshDone, RefreshFailed,
             RefreshRefused, Touch, RecordWorkerFailure, Finish, FinishRaced
<1> QED BY <1>6, <1>8, <1>9
------------------------------------------------------------------------------
(* The theorems.                                                            *)

\* The inductive invariant: each property of the runs is a consequence of one part
\* of it, and each part needs the types and the place of the worker to be kept.
IInv ==
    /\ Types /\ WorkerInv /\ QueueInv /\ LineInv
    /\ CacheInv /\ BoundInv /\ QuotaInv /\ BackoffInv

\* A new process, with nothing on disk, satisfies the inductive invariant.
LEMMA InitIInv == Init => IInv
<1> SUFFICES ASSUME Init
             PROVE  IInv
  OBVIOUS
<1>1. Types
  BY InitTypes
<1>2. ToSet(<<>>) = {} /\ SentinelLast(<<>>) /\ IsInjective(<<>>)
  BY DEF ToSet, SentinelLast, IsInjective
<1>3. WorkerInv /\ QueueInv
  BY <1>2 DEF Init, WorkerInv, QueueInv
<1>4. LineInv
  BY <1>2 DEF Init, LineInv, HeldOf, IdsOf
<1>5. CacheInv
  BY <1>2 DEF Init, CacheInv, Cached
<1>6. BoundInv
  BY <1>2 DEF Init, BoundInv
<1>7. QuotaInv
  <2>1. Unexpired(<<>>, 0) = <<>>
    <3>1. <<>> \in Seq(Nat) /\ 0 \in Int /\ Len(<<>>) = 0
      OBVIOUS
    <3>2. Unexpired(<<>>, 0) \in Seq(Nat) /\ Len(Unexpired(<<>>, 0)) <= 0
      BY <3>1, UnexpiredType
    <3> QED BY <3>2
  <2>2. Len(<<>>) <= ColdMax
    BY SizeAssumption
  <2> QED BY <2>1, <2>2 DEF Init, QuotaInv, Recent
<1>8. BackoffInv
  BY <1>2 DEF Init, BackoffInv, Recorded
<1> QED BY <1>1, <1>3, <1>4, <1>5, <1>6, <1>7, <1>8 DEF IInv

\* Every step preserves the inductive invariant: each part rests on the types, on
\* where the worker stands and on the parts before it.
LEMMA NextIInv == IInv /\ [Next]_vars => IInv'
<1> SUFFICES ASSUME IInv, [Next]_vars
             PROVE  IInv'
  OBVIOUS
<1> USE DEF IInv
<1>1. Types'
  BY PendingTypeStep, ColdTypeStep, WorkerTypeStep, StopTypeStep, DiskTypeStep,
     StatusTypeStep, IndexTypeStep, CounterTypeStep DEF Types
<1>2. WorkerInv'
  BY WorkerInvStep DEF Types
<1>3. QueueInv'
  BY QueueInvStep DEF Types
<1>4. LineInv'
  BY LineInvStep DEF Types
<1>5. CacheInv'
  BY CacheInvStep DEF Types
<1>6. BoundInv'
  BY BoundInvStep
<1>7. QuotaInv'
  BY QuotaInvStep
<1>8. BackoffInv'
  BY BackoffInvStep
<1> QED BY <1>1, <1>2, <1>3, <1>4, <1>5, <1>6, <1>7, <1>8

\* The inductive invariant holds in every reachable state.
LEMMA Invariance == Spec => []IInv
BY InitIInv, NextIInv, PTL DEF Spec

\* Every variable of the coordinator keeps its type, and the queue its bound.
THEOREM TypesHold == Spec => []TypeOK
<1>1. IInv => TypeOK
  BY TypesGiveTypeOK DEF IInv
<1> QED BY <1>1, Invariance, PTL

\* Nobody is twice in the line: the queue has no repetition, and the worker's
\* restaurant has left it.
LEMMA LineIsInjective ==
    ASSUME PendingType, WorkerType, QueueInv
    PROVE  IsInjective(HeldOf(item) \o IdsOf(queue))
<1> DEFINE w == IdsOf(queue)
<1>1. /\ w \in Seq(Ids) /\ ToSet(w) = ToSet(queue) \ {NoId}
      /\ Len(w) <= Len(queue) /\ \A i \in 1..Len(w) : w[i] = queue[i]
  BY IdsOfIsRight DEF PendingType, QueueInv
<1>2. IsInjective(w)
  <2>1. \A i, j \in 1..Len(queue) : queue[i] = queue[j] => i = j
    BY DEF QueueInv, IsInjective, PendingType
  <2>2. DOMAIN w = 1..Len(w) /\ Len(w) \in Nat /\ Len(queue) \in Nat
    BY <1>1 DEF PendingType
  <2> HIDE DEF w
  <2> QED BY <1>1, <2>1, <2>2 DEF IsInjective
<1> HIDE DEF w
<1>3. CASE item = NoId
  BY <1>1, <1>2, <1>3 DEF HeldOf, w
<1>4. CASE item # NoId
  <2> DEFINE c == <<item>> \o w
  <2>1. /\ c \in Seq(Ids) /\ Len(c) = Len(w) + 1 /\ c[1] = item
        /\ \A i \in 2..Len(c) : i - 1 \in 1..Len(w) /\ c[i] = w[i - 1]
    BY <1>1, <1>4 DEF WorkerType
  <2>2. \A i \in 1..Len(w) : w[i] # item
    BY <1>1, <1>4 DEF ToSet, QueueInv
  <2>3. \A i, j \in 1..Len(w) : w[i] = w[j] => i = j
    BY <1>1, <1>2 DEF IsInjective
  <2> HIDE DEF c
  <2>4. \A i \in 2..Len(c) : c[i] # c[1]
    BY <2>1, <2>2
  <2>5. \A i, j \in 2..Len(c) : c[i] = c[j] => i = j
    <3>1. \A i, j \in 2..Len(c) : c[i] = c[j] => i - 1 = j - 1
      BY <2>1, <2>3
    <3> QED BY <3>1
  <2>6. DOMAIN c = 1..Len(c) /\ Len(c) \in Nat
    BY <2>1
  <2>7. \A i \in 1..Len(c) : i = 1 \/ i \in 2..Len(c)
    BY <2>6
  <2>8. IsInjective(c)
    BY <2>4, <2>5, <2>6, <2>7 DEF IsInjective
  <2> QED BY <1>4, <2>8 DEF HeldOf, c, w
<1> QED BY <1>3, <1>4

\* The line is told alike by the queue, the pending set and the displayed order.
LEMMA QueueAgrees == IInv => QueueAgreement
BY LineIsInjective DEF IInv, Types, LineInv, QueueAgreement, Held, HeldOf, Waiting, IdsOf

\* The queue, the pending set and the displayed order tell the same story, for
\* any number of restaurants and any size of the queue.
THEOREM QueueAgreementHolds == Spec => []QueueAgreement
BY QueueAgrees, Invariance, PTL

\* The history of admissions is no longer than the quota.
LEMMA QuotaIsKept == IInv => ColdQuota
BY DEF IInv, QuotaInv, ColdQuota

\* A process admits at most ColdMax cold loads in any Hour.
THEOREM ColdQuotaHolds == Spec => []ColdQuota
BY QuotaIsKept, Invariance, PTL

\* Index and disk agree wherever the worker stands between two refreshes.
LEMMA IndexMatches == IInv => IndexMatchesDisk
BY DEF IInv, Types, IndexType, CacheInv, IndexMatchesDisk

\* The cache index lists the snapshots on disk, each of them once.
THEOREM IndexMatchesDiskHolds == Spec => []IndexMatchesDisk
BY IndexMatches, Invariance, PTL

\* In a process that began with an empty cache, and as long as nothing cuts an
\* eviction short, the limit is never exceeded by more than the snapshot just
\* loaded, or by snapshots that pending work protects.
UndisturbedCache ==
    restarts = 0 /\ faults = 0 /\ ~cleared /\ wpc # "dead" =>
        \/ Len(lru) <= CacheMax + (IF wpc \in {"touch", "finally"} THEN 1 ELSE 0)
        \/ Len(lru) <= Cardinality(Protected)

\* What exceeds the limit of an undisturbed cache is new or pending.
LEMMA CacheIsBounded == IInv => UndisturbedCache
<1> SUFFICES ASSUME IInv, restarts = 0, faults = 0, ~cleared, wpc # "dead"
             PROVE  \/ Len(lru) <= CacheMax + (IF wpc \in {"touch", "finally"} THEN 1 ELSE 0)
                    \/ Len(lru) <= Cardinality(Protected)
  BY DEF UndisturbedCache
<1>1. IsFiniteSet(ToSet(lru)) /\ Cardinality(ToSet(lru)) = Len(lru)
  BY LenIsCardinality DEF IInv, Types, IndexType
<1>2. Len(lru) \in Nat /\ CacheMax \in Nat
  BY SizeAssumption DEF IInv, Types, IndexType
<1>3. CASE Cardinality(ToSet(lru) \ JustLoaded) <= CacheMax
  <2>1. CASE wpc \in {"touch", "finally"}
    <3>1. Cardinality(ToSet(lru) \ {item}) >= Cardinality(ToSet(lru)) - 1
      <4>1. \/ Cardinality(ToSet(lru) \ {item}) = Cardinality(ToSet(lru)) - 1
            \/ Cardinality(ToSet(lru) \ {item}) = Cardinality(ToSet(lru))
        <5> DEFINE S == ToSet(lru)
        <5>1. IsFiniteSet(S)
          BY <1>1
        <5> HIDE DEF S
        <5>2. \/ Cardinality(S \ {item}) = Cardinality(S) - 1
              \/ Cardinality(S \ {item}) = Cardinality(S)
          BY <5>1, FS_RemoveElement
        <5> QED BY <5>2 DEF S
      <4> DEFINE n == Cardinality(ToSet(lru))
                 k == Cardinality(ToSet(lru) \ {item})
      <4>2. n \in Nat /\ (k = n - 1 \/ k = n)
        BY <1>1, <1>2, <4>1
      <4> HIDE DEF n, k
      <4>3. k >= n - 1
        BY <4>2
      <4> QED BY <4>3 DEF n, k
    <3>2. IsFiniteSet(ToSet(lru) \ {item})
      BY <1>1, FS_RemoveElement
    <3>3. Cardinality(ToSet(lru) \ {item}) \in Nat
      BY <3>2, FS_CardinalityType
    <3>4. Cardinality(ToSet(lru) \ {item}) <= CacheMax
      BY <1>3, <2>1 DEF JustLoaded
    <3> QED BY <1>1, <1>2, <2>1, <3>1, <3>3, <3>4
  <2>2. CASE wpc \notin {"touch", "finally"}
    <3>1. ToSet(lru) \ JustLoaded = ToSet(lru)
      BY <2>2 DEF JustLoaded
    <3>2. Len(lru) <= CacheMax
      BY <1>1, <1>3, <3>1
    <3>3. Len(lru) <= CacheMax + 0
      BY <1>2, <3>2
    <3> QED BY <2>2, <3>3
  <2> QED BY <2>1, <2>2
<1>4. CASE ToSet(lru) \subseteq queued
  <2>1. IsFiniteSet(Protected)
    BY IdsAssumption, FS_Subset DEF IInv, Types, PendingType, Protected
  <2>2. ToSet(lru) \subseteq Protected
    BY <1>4 DEF Protected
  <2>3. Cardinality(ToSet(lru)) <= Cardinality(Protected)
    BY <2>1, <2>2, FS_Subset
  <2> QED BY <1>1, <2>3
<1> QED BY <1>3, <1>4 DEF IInv, BoundInv

\* Between two evictions an undisturbed process exceeds the limit by one snapshot,
\* or by what is pending.
THEOREM UndisturbedCacheHolds == Spec => []UndisturbedCache
BY CacheIsBounded, Invariance, PTL
------------------------------------------------------------------------------
(* What a step may never do.                                                *)

\* No eviction, complete or cut short, takes the snapshot of a restaurant that
\* is queued or active, unless it is the one whose refresh ends.
THEOREM PendingNeverEvictedHolds == Spec => PendingNeverEvicted
<1>1. ASSUME IInv, [Next]_vars, NEW id \in Ids, snap[id] # "none", snap'[id] = "none"
      PROVE  id \notin Protected \/ id = item
  <2>1. CASE Release /\ id \in Victims(queued \ {item})
    <3> DEFINE others == queued \ {item}
    <3>1. Victims(others) \subseteq ToSet(lru) \ others
      BY <1>1, EvictionIsRight DEF IInv, Types
    <3>2. id \in Victims(others)
      BY <2>1
    <3>3. wpc \in {"finally", "unwinding"}
      BY <2>1 DEF Release
    <3>4. active = item
      BY <1>1, <3>3 DEF IInv, WorkerInv
    <3> HIDE DEF others
    <3>5. id \notin others
      BY <3>1, <3>2
    <3> QED BY <3>4, <3>5 DEF Protected, others
  <2>2. CASE UNCHANGED snap \/ RefreshDone \/ RefreshHalfDone \/ GoStale
    BY <1>1, <2>2 DEF RefreshDone, RefreshHalfDone, GoStale, IInv, Types, DiskType
  <2>3. CASE Finish \/ FinishRaced
    <3>1. Release /\ id \in Victims(queued \ {item})
      BY <1>1, <2>3 DEF Finish, FinishRaced, EvictAll, Deleted
    <3> QED BY <2>1, <3>1
  <2>4. CASE FinishFault
    <3>1. Release /\ id \in Victims(queued \ {item})
      BY <1>1, <2>4 DEF FinishFault
    <3> QED BY <2>1, <3>1
  <2> QED BY <1>1, <2>2, <2>3, <2>4, Frames DEF DiskStep
<1>2. IInv /\ [Next]_vars =>
        [\A id \in Ids : snap[id] # "none" /\ snap'[id] = "none"
           => id \notin Protected \/ id = item]_vars
  BY <1>1
<1> QED BY <1>2, Invariance, PTL DEF Spec, PendingNeverEvicted

\* The worker starts no restaurant before the end of the delay that its last
\* failure imposed, unless an eviction has deleted the record of it.
THEOREM BackoffRespectedHolds == Spec => BackoffRespected
<1>1. ASSUME IInv, [Next]_vars, active' \in Ids, active' # active, restarts = 0, faults = 0
      PROVE  \/ notBefore[active'] <= now
             \/ failures[active'] = 0 /\ snap[active'] = "none"
  <2>1. CASE Activate \/ ActivateFault
    <3>1. active' = item /\ wpc = "got"
      BY <2>1 DEF Activate, ActivateFault
    <3>2. MayStart(item)
      BY <1>1, <3>1 DEF IInv, BackoffInv
    <3> QED BY <3>1, <3>2 DEF MayStart
  <2>2. CASE Finish \/ FinishRaced \/ FinishFault \/ Restart \/ ClearPending
    BY <1>1, <2>2, IdsAssumption
       DEF Finish, FinishRaced, FinishFault, Release, Restart, ClearPending
  <2>3. CASE Get \/ RequestStop \/ UNCHANGED pending \/ \E id \in Ids : Admit(id)
    BY <1>1, <2>3 DEF Get, RequestStop, Admit, pending
  <2> QED BY <1>1, <2>1, <2>2, <2>3, Frames DEF PendingStep
<1>2. IInv /\ [Next]_vars =>
        [active' \in Ids /\ active' # active /\ restarts = 0 /\ faults = 0
           => \/ notBefore[active'] <= now
              \/ failures[active'] = 0 /\ snap[active'] = "none"]_vars
  BY <1>1
<1> QED BY <1>2, Invariance, PTL DEF Spec, BackoffRespected

\* The worker comes back to its check from the finally clause by a complete
\* eviction, which protects the pending restaurants but the one just refreshed.
LEMMA CompleteEviction ==
    ASSUME [Next]_vars, wpc = "finally", wpc' = "check", ~Restart
    PROVE  /\ EvictAll(Victims(queued \ {item}))
           /\ Protected' = queued \ {item}
<1>1. Finish
  BY Frames DEF ThreadStep, worker, Work, Fault, Check, Get, GetTimeout, Activate,
                RefreshDone, RefreshFailed, RefreshRefused, Touch, RecordWorkerFailure,
                FinishRaced, ActivateFault, RefreshHalfDone, TouchFault,
                RecordWorkerFault, FinishFault
<1> QED BY <1>1 DEF Finish, Release, Protected

\* Whatever restarts and faults came before, an eviction that completes brings the
\* cache back to its limit, or leaves in it pending restaurants only.
THEOREM CacheBoundHolds == Spec => CacheBound
<1>1. ASSUME IInv, [Next]_vars, wpc = "finally", wpc' = "check", restarts' = restarts
      PROVE  Len(lru') <= CacheMax \/ ToSet(lru') \subseteq Protected'
  <2> DEFINE P == queued \ {item}
  <2>1. ~Restart
    BY <1>1 DEF Restart, IInv, Types, CounterType
  <2>2. EvictAll(Victims(P)) /\ Protected' = P
    BY <1>1, <2>1, CompleteEviction
  <2> HIDE DEF P
  <2>3. ToSet(lru') = ToSet(lru) \ Victims(P)
    BY <1>1, <2>2, EvictAllIsRight DEF IInv, Types
  <2>4. \/ Cardinality(ToSet(lru) \ Victims(P)) <= CacheMax
        \/ ToSet(lru) \ Victims(P) \subseteq P
    BY <1>1, EvictionIsRight DEF IInv, Types
  <2>5. IndexType'
    BY <1>1, NextIInv DEF IInv, Types
  <2>6. Cardinality(ToSet(lru')) = Len(lru')
    BY <2>5, LenIsCardinality DEF IndexType
  <2> QED BY <2>2, <2>3, <2>4, <2>6
<1>2. IInv /\ [Next]_vars =>
        [wpc = "finally" /\ wpc' = "check" /\ restarts' = restarts
           => Len(lru') <= CacheMax \/ ToSet(lru') \subseteq Protected']_vars
  BY <1>1
<1> QED BY <1>2, Invariance, PTL DEF Spec, CacheBound

\* The eviction that ends a refresh takes the snapshot just loaded only from a cache
\* that stays full without it, and where every older entry that is not pending is
\* taken as well.
THEOREM FreshSurvivesHolds == Spec => FreshSurvives
<1>1. ASSUME IInv, [Next]_vars, wpc = "finally", wpc' = "check",
             snap[item] # "none", snap'[item] = "none"
      PROVE  /\ Len(lru') >= CacheMax
             /\ \A i, j \in DOMAIN lru :
                  i < j /\ lru[j] = item => lru[i] \in Protected' \/ lru[i] \notin ToSet(lru')
  <2> DEFINE P == queued \ {item}
             V == Victims(P)
  <2>1. ~Restart
    BY <1>1 DEF Restart
  <2>2. EvictAll(V) /\ Protected' = P
    BY <1>1, <2>1, CompleteEviction
  <2>3. ToSet(lru') = ToSet(lru) \ V
    BY <1>1, <2>2, EvictAllIsRight DEF IInv, Types
  <2>4. item \in Ids
    BY <1>1 DEF IInv, WorkerInv
  <2>5. item \in V
    BY <1>1, <2>2, <2>4 DEF EvictAll, Deleted
  <2> HIDE DEF P
  <2>6. /\ Cardinality(ToSet(lru) \ V) >= CacheMax
        /\ \A i, j \in DOMAIN lru : i < j /\ lru[j] \in V => lru[i] \in P \/ lru[i] \in V
    BY <1>1, <2>5, VictimsAreOldest DEF IInv, Types
  <2>7. IndexType'
    BY <1>1, NextIInv DEF IInv, Types
  <2>8. Cardinality(ToSet(lru')) = Len(lru')
    BY <2>7, LenIsCardinality DEF IndexType
  <2> HIDE DEF V
  <2>9. \A i, j \in DOMAIN lru :
          i < j /\ lru[j] = item => lru[i] \in Protected' \/ lru[i] \notin ToSet(lru')
    BY <2>2, <2>3, <2>5, <2>6
  <2>10. Len(lru') >= CacheMax
    BY <2>3, <2>6, <2>8
  <2> QED BY <2>9, <2>10
<1>2. IInv /\ [Next]_vars =>
        [wpc = "finally" /\ wpc' = "check" /\ snap[item] # "none" /\ snap'[item] = "none"
           => /\ Len(lru') >= CacheMax
              /\ \A i, j \in DOMAIN lru :
                   i < j /\ lru[j] = item
                     => lru[i] \in Protected' \/ lru[i] \notin ToSet(lru')]_vars
  BY <1>1
<1> QED BY <1>2, Invariance, PTL DEF Spec, FreshSurvives
------------------------------------------------------------------------------
(* The refinement of ServiceLine.                                           *)

\* Until the stop clears it, the restaurant in the worker's hands heads the line.
LEMMA HeadOfLine ==
    ASSUME Types, QueueInv, LineInv, item \in Ids
    PROVE  IF cleared
           THEN pendingOrder = <<>> /\ RemoveFirst(pendingOrder, item) = <<>>
           ELSE /\ pendingOrder # <<>> /\ Head(pendingOrder) = item
                /\ RemoveFirst(pendingOrder, item) = Tail(pendingOrder)
<1>1. CASE cleared
  <2>1. pendingOrder = <<>>
    BY <1>1 DEF LineInv
  <2>2. RemoveFirst(<<>>, item) = <<>>
    BY DEF RemoveFirst
  <2> QED BY <1>1, <2>1, <2>2
<1>2. CASE ~cleared
  <2>1. pendingOrder = <<item>> \o IdsOf(queue) /\ IdsOf(queue) \in Seq(Ids)
    BY <1>2, WhoIsInLine, IdsAssumption DEF Types, LineInv, HeldOf
  <2>2. pendingOrder \in Seq(Ids) /\ pendingOrder # <<>> /\ Head(pendingOrder) = item
    BY <2>1
  <2>3. RemoveFirst(pendingOrder, item) = Tail(pendingOrder)
    BY <2>2, RemoveHead
  <2> QED BY <1>2, <2>2, <2>3
<1> QED BY <1>1, <1>2

\* Each step of the coordinator is a step of the line that HTTP clients see, or
\* leaves it alone.
LEMMA StepOfLine ==
    ASSUME IInv, [Next]_vars
    PROVE  [Line!Next]_(Line!vars)
<1> USE DEF IInv
<1>1. UNCHANGED cleared \/ ClearPending \/ Restart
  BY Frames DEF stop, StopStep, CancelFetches, RequestStop
<1>2. CASE UNCHANGED pending /\ UNCHANGED cleared
  BY <1>2 DEF pending, Line!vars
<1>3. ASSUME NEW id \in Ids, Admit(id)
      PROVE  Line!Next
  <2>1. ~cleared
    BY <1>3 DEF Admit, Admissible, LineInv
  <2>2. id \notin ToSet(pendingOrder)
    BY <1>3, <2>1 DEF Admit, Admissible, LineInv
  <2>3. Line!Join(id)
    BY <1>3, <2>1, <2>2 DEF Admit, stop, Line!Join, ToSet, Line!ToSet
  <2> QED BY <2>3 DEF Line!Next
<1>4. CASE Get \/ RequestStop
  BY <1>4 DEF Get, RequestStop, stop, Line!vars
<1>5. CASE Activate \/ ActivateFault
  <2>1. item \in Ids /\ active = NoId
    BY <1>5 DEF Activate, ActivateFault, WorkerInv
  <2>2. active' = item /\ pendingOrder' = pendingOrder /\ cleared' = cleared
    BY <1>5 DEF Activate, ActivateFault, stop
  <2>3. CASE cleared
    BY <2>1, <2>2, <2>3 DEF Line!Next, Line!ServeLast
  <2>4. CASE ~cleared
    <3>1. pendingOrder # <<>> /\ Head(pendingOrder) = item
      BY <2>1, <2>4, HeadOfLine
    <3> QED BY <2>1, <2>2, <2>4, <3>1 DEF Line!Next, Line!Serve
  <2> QED BY <2>3, <2>4
<1>6. CASE Finish \/ FinishRaced \/ FinishFault
  <2>1. wpc \in {"finally", "unwinding"}
    BY <1>6 DEF Finish, FinishRaced, FinishFault, Release
  <2>2. item \in Ids /\ active = item
    BY <2>1 DEF WorkerInv
  <2>3. active' = NoId /\ pendingOrder' = RemoveFirst(pendingOrder, item) /\ cleared' = cleared
    BY <1>6 DEF Finish, FinishRaced, FinishFault, Release, stop
  <2>4. CASE cleared
    <3>1. pendingOrder = <<>> /\ pendingOrder' = <<>>
      BY <2>2, <2>3, <2>4, HeadOfLine
    <3> QED BY <2>3, <2>4, <3>1 DEF Line!Next, Line!ServeLast
  <2>5. CASE ~cleared
    <3>1. pendingOrder # <<>> /\ Head(pendingOrder) = item
          /\ pendingOrder' = Tail(pendingOrder)
      BY <2>2, <2>3, <2>5, HeadOfLine
    <3> QED BY <2>2, <2>3, <2>5, <3>1 DEF Line!Next, Line!Leave
  <2> QED BY <2>4, <2>5
<1>7. CASE ClearPending
  BY <1>7 DEF ClearPending, Line!Next, Line!Close
<1>8. CASE Restart
  BY <1>8 DEF Restart, Line!Next, Line!Reopen
<1> QED BY <1>1, <1>2, <1>3, <1>4, <1>5, <1>6, <1>7, <1>8, Frames DEF PendingStep

\* The coordinator implements ServiceLine: its displayed order is a line of
\* distinct restaurants, served one at a time, first come first served.
THEOREM CoordinatorServesInOrder == Spec => ServesInOrder
<1>1. Init => Line!Init
  BY DEF Init, Line!Init
<1>2. IInv /\ [Next]_vars => [Line!Next]_(Line!vars)
  BY StepOfLine
<1> QED BY <1>1, <1>2, Invariance, PTL DEF Spec, ServesInOrder, Line!Spec

\* In that line nobody overtakes: the position a page shows only ever decreases.
THEOREM PositionsOnlyDecrease == Spec => Line!NobodyOvertakes
<1>1. ASSUME IInv, [Next]_vars, NEW a \in ToSet(pendingOrder'), NEW b \in ToSet(pendingOrder),
             Line!Precedes(pendingOrder', a, b)
      PROVE  Line!Precedes(pendingOrder, a, b)
  <2>1. pendingOrder \in Seq(Ids)
    BY <1>1 DEF IInv, Types, PendingType
  <2>2. PICK i, j \in DOMAIN pendingOrder' :
          i < j /\ pendingOrder'[i] = a /\ pendingOrder'[j] = b
    BY <1>1 DEF Line!Precedes
  <2>3. CASE pendingOrder' = pendingOrder
    BY <1>1, <2>3
  <2>4. CASE pendingOrder' = <<>>
    BY <2>2, <2>4
  <2>5. CASE pendingOrder # <<>> /\ pendingOrder' = Tail(pendingOrder)
    <3>1. /\ i + 1 \in DOMAIN pendingOrder /\ j + 1 \in DOMAIN pendingOrder
          /\ i + 1 < j + 1 /\ pendingOrder[i + 1] = a /\ pendingOrder[j + 1] = b
      BY <2>1, <2>2, <2>5
    <3> QED BY <3>1 DEF Line!Precedes
  <2>6. ASSUME NEW id \in Ids, Line!Join(id)
        PROVE  Line!Precedes(pendingOrder, a, b)
    <3>1. /\ pendingOrder' = Append(pendingOrder, id)
          /\ id \notin ToSet(pendingOrder)
      BY <2>6 DEF Line!Join, ToSet, Line!ToSet
    <3>2. j # Len(pendingOrder) + 1
      BY <2>1, <2>2, <3>1
    <3>3. /\ i \in DOMAIN pendingOrder /\ j \in DOMAIN pendingOrder
          /\ pendingOrder[i] = a /\ pendingOrder[j] = b
      BY <2>1, <2>2, <3>1, <3>2
    <3> QED BY <2>2, <3>3 DEF Line!Precedes
  <2>7. [Line!Next]_(Line!vars)
    BY <1>1, StepOfLine
  <2> QED BY <2>3, <2>4, <2>5, <2>6, <2>7
          DEF Line!Next, Line!vars, Line!Serve, Line!Leave, Line!Close, Line!ServeLast,
              Line!Reopen
<1>2. IInv /\ [Next]_vars =>
        [\A a, b \in Line!ToSet(pendingOrder') :
           Line!Precedes(pendingOrder', a, b) /\ b \in Line!ToSet(pendingOrder)
             => Line!Precedes(pendingOrder, a, b)]_(Line!vars)
  BY <1>1 DEF ToSet, Line!ToSet
<1> QED BY <1>2, Invariance, PTL DEF Spec, Line!NobodyOvertakes
------------------------------------------------------------------------------
(* The worker's progress: what Drains and StopEndsWorker rest on, but for the *)
(* fairness.                                                                  *)

\* How far the worker is from the release of a restaurant that it has, or will
\* take next.
ToRelease ==
    [check |-> 7, get |-> 6, got |-> 5, running |-> 4, touch |-> 3, failing |-> 2,
     finally |-> 1, unwinding |-> 1, exited |-> 0, dead |-> 0][wpc]

\* How far it is from its end, once it has been told to stop.
ToExit ==
    [get |-> 8, got |-> 7, running |-> 6, touch |-> 5, failing |-> 4,
     finally |-> 3, unwinding |-> 3, check |-> 2, exited |-> 0, dead |-> 0][wpc]

\* While somebody waits, the worker never idles: whatever it does brings the first
\* of the line closer to its release, or releases it.
WorkServesTheLine ==
    [][Work /\ ~stopping /\ pendingOrder # <<>> =>
         \/ pendingOrder' = pendingOrder /\ ToRelease' < ToRelease
         \/ pendingOrder' = Tail(pendingOrder)]_vars

\* Once told to stop, the worker comes closer to its end with whatever it does,
\* its exceptions included, and nothing sets it back but a new process.
StoppedWorkerEnds ==
    [][stopping => \/ wpc' = wpc /\ ~Work /\ ~Fault
                   \/ ToExit' < ToExit
                   \/ Restart]_vars

\* Only a stop, an OSError or the eviction of a cache beyond its limit ends the
\* worker: no failure of a refresh does, whatever requests and polls do meanwhile.
WorkerLasts ==
    [][/\ wpc' = "exited" => wpc = "exited" \/ stopping
       /\ wpc' = "dead" => \/ wpc = "dead" \/ faults' > 0
                           \/ wpc = "finally" /\ Len(lru) > CacheMax]_vars

\* Whatever the restaurant ahead turns out to be, a worker that lives serves the
\* pending work: it polls an empty queue only when nobody waits.
THEOREM WorkerServesTheLine == Spec => WorkServesTheLine
<1>1. ASSUME IInv, Work, ~stopping, pendingOrder # <<>>
      PROVE  \/ pendingOrder' = pendingOrder /\ ToRelease' < ToRelease
             \/ pendingOrder' = Tail(pendingOrder)
  <2>1. ~cleared
    BY <1>1 DEF IInv, LineInv
  <2>2. CASE Check \/ Get \/ Activate \/ Touch
    <3>1. pendingOrder' = pendingOrder
      BY <2>2 DEF Check, Get, Activate, Touch, pending
    <3>2. Get => wpc' \in {"got", "exited"}
      BY DEF Get
    <3>3. ToRelease' < ToRelease
      BY <1>1, <2>2, <3>2 DEF Check, Get, Activate, Touch, ToRelease
    <3> QED BY <3>1, <3>3
  <2>3. CASE RefreshDone \/ RefreshFailed \/ RefreshRefused \/ RecordWorkerFailure
    BY <2>3 DEF RefreshDone, RefreshFailed, RefreshRefused, RecordWorkerFailure, pending,
                ToRelease
  <2>4. ~GetTimeout
    <3> SUFFICES ASSUME GetTimeout
                 PROVE  FALSE
      OBVIOUS
    <3>1. wpc = "get" /\ queue = <<>>
      BY DEF GetTimeout
    <3>2. item = NoId
      BY <1>1, <3>1 DEF IInv, WorkerInv
    <3>3. pendingOrder = <<>> \o <<>>
      BY <1>1, <2>1, <3>1, <3>2 DEF IInv, LineInv, HeldOf, IdsOf
    <3> QED BY <1>1, <3>3
  <2>5. CASE Finish \/ FinishRaced
    <3>1. item \in Ids /\ pendingOrder' = RemoveFirst(pendingOrder, item)
      BY <1>1, <2>5 DEF IInv, WorkerInv, Finish, FinishRaced, Release
    <3> QED BY <1>1, <2>1, <3>1, HeadOfLine DEF IInv
  <2> QED BY <1>1, <2>2, <2>3, <2>4, <2>5 DEF Work
<1>2. IInv /\ [Next]_vars =>
        [Work /\ ~stopping /\ pendingOrder # <<>> =>
           \/ pendingOrder' = pendingOrder /\ ToRelease' < ToRelease
           \/ pendingOrder' = Tail(pendingOrder)]_vars
  BY <1>1
<1> QED BY <1>2, Invariance, PTL DEF Spec, WorkServesTheLine

\* Each step of the worker, an OSError included, brings it closer to its end once
\* the stop is known; no request, poll, tick or part of stop touches its place.
THEOREM WorkerEndsAfterStop == Spec => StoppedWorkerEnds
<1>1. ASSUME IInv, [Next]_vars, stopping
      PROVE  \/ wpc' = wpc /\ ~Work /\ ~Fault
             \/ ToExit' < ToExit
             \/ Restart
  <2> USE DEF ToExit
  <2>1. CASE Check \/ GetTimeout \/ Activate \/ ActivateFault
    BY <1>1, <2>1 DEF Check, GetTimeout, Activate, ActivateFault
  <2>2. CASE Get
    <3>1. wpc = "get" /\ wpc' \in {"got", "exited"}
      BY <2>2 DEF Get
    <3> QED BY <3>1
  <2>3. CASE RefreshDone \/ RefreshFailed \/ RefreshRefused \/ RefreshHalfDone
    BY <2>3 DEF RefreshDone, RefreshFailed, RefreshRefused, RefreshHalfDone
  <2>4. CASE Touch \/ TouchFault \/ RecordWorkerFailure \/ RecordWorkerFault
    BY <2>4 DEF Touch, TouchFault, RecordWorkerFailure, RecordWorkerFault
  <2>5. CASE Finish \/ FinishRaced \/ FinishFault
    <3>1. /\ wpc \in {"finally", "unwinding"}
          /\ wpc' \in {"check", "dead"}
      BY <2>5 DEF Finish, FinishRaced, FinishFault, Release
    <3> QED BY <3>1
  <2>6. CASE ~Work /\ ~Fault
    <3>1. UNCHANGED worker \/ Restart
      BY <1>1, <2>6, Frames DEF ThreadStep
    <3> QED BY <2>6, <3>1 DEF worker
  <2> QED BY <2>1, <2>2, <2>3, <2>4, <2>5, <2>6 DEF Work, Fault
<1>2. IInv /\ [Next]_vars =>
        [stopping => \/ wpc' = wpc /\ ~Work /\ ~Fault
                     \/ ToExit' < ToExit
                     \/ Restart]_vars
  BY <1>1
<1> QED BY <1>2, Invariance, PTL DEF Spec, StoppedWorkerEnds

\* The worker outlives every failure of a refresh: it leaves its loop for a stop
\* that it sees at its check or by the sentinel, which only a stop puts there, and
\* without an OSError it dies in an eviction that has something to take only.
THEOREM WorkerOutlivesFailures == Spec => WorkerLasts
<1>1. ASSUME IInv, [Next]_vars, wpc' = "exited", wpc # "exited"
      PROVE  stopping
  <2>1. CASE Get
    <3>1. queue \in Seq(Ids \cup {NoId}) /\ queue # <<>> /\ Head(queue) = NoId
      BY <1>1, <2>1 DEF Get, IInv, Types, PendingType
    <3>2. 1 \in DOMAIN queue /\ Head(queue) = queue[1]
      BY <3>1
    <3>3. NoId \in ToSet(queue)
      BY <3>1, <3>2 DEF ToSet
    <3> QED BY <1>1, <3>3 DEF IInv, QueueInv
  <2>2. CASE Check
    BY <1>1, <2>2 DEF Check
  <2> QED BY <1>1, <2>1, <2>2, Frames
          DEF worker, ThreadStep, Work, Fault, GetTimeout, Activate, RefreshDone, RefreshFailed,
              RefreshRefused, Touch, RecordWorkerFailure, Finish, FinishRaced, ActivateFault,
              RefreshHalfDone, TouchFault, RecordWorkerFault, FinishFault, Restart
<1>2. ASSUME IInv, [Next]_vars, wpc' = "dead", wpc # "dead"
      PROVE  faults' > 0 \/ (wpc = "finally" /\ Len(lru) > CacheMax)
  <2>1. faults \in Nat
    BY <1>2 DEF IInv, Types, CounterType
  <2>2. CASE Fault
    BY <2>1, <2>2
       DEF Fault, ActivateFault, RefreshHalfDone, TouchFault, RecordWorkerFault, FinishFault
  <2>3. CASE Finish \/ FinishRaced
    <3>1. CASE wpc = "unwinding"
      BY <1>2, <2>3, <3>1 DEF Finish, FinishRaced, counters, IInv, WorkerInv
    <3>2. CASE wpc = "finally"
      <4> DEFINE V == Victims(queued \ {item})
      <4>1. FinishRaced
        BY <1>2, <2>3, <3>2 DEF Finish
      <4>2. V # {}
        BY <4>1 DEF FinishRaced
      <4>3. Len(lru) > CacheMax
        BY <1>2, <4>2, VictimsAreOldest DEF IInv, Types
      <4> QED BY <3>2, <4>3
    <3> QED BY <2>3, <3>1, <3>2 DEF Finish, FinishRaced, Release
  <2> QED BY <1>2, <2>2, <2>3, Frames
          DEF worker, ThreadStep, Work, Check, Get, GetTimeout, Activate, RefreshDone,
              RefreshFailed, RefreshRefused, Touch, RecordWorkerFailure, Restart
<1>3. IInv /\ [Next]_vars =>
        [/\ wpc' = "exited" => wpc = "exited" \/ stopping
         /\ wpc' = "dead" => \/ wpc = "dead" \/ faults' > 0
                             \/ wpc = "finally" /\ Len(lru) > CacheMax]_vars
  BY <1>1, <1>2
<1> QED BY <1>3, Invariance, PTL DEF Spec, WorkerLasts
------------------------------------------------------------------------------
(* The composition with the pages and with a past that slides.              *)

\* A log one tick older, as Slide leaves it.
Aged(log) == [i \in DOMAIN log |-> IF log[i] > 0 THEN log[i] - 1 ELSE 0]

\* Ageing keeps a log a log, and makes nothing more recent.
LEMMA AgedType ==
    ASSUME NEW log \in Seq(Nat)
    PROVE  /\ Aged(log) \in Seq(Nat) /\ Len(Aged(log)) = Len(log)
           /\ \A i \in 1..Len(log) : Aged(log)[i] <= log[i]
<1>1. DOMAIN log = 1..Len(log) /\ \A i \in DOMAIN log : log[i] \in Nat
  OBVIOUS
<1>2. \A i \in DOMAIN log : (IF log[i] > 0 THEN log[i] - 1 ELSE 0) \in Nat
  BY <1>1
<1> QED BY <1>1, <1>2 DEF Aged

\* What has left the window does not come back to it with age.
LEMMA UnexpiredAged ==
    ASSUME NEW log \in Seq(Nat), NEW t \in Int
    PROVE  Unexpired(Aged(Unexpired(log, t)), t) = Unexpired(Aged(log), t)
<1> DEFINE L == Len(log)
           old == Aged(log)
<1>1. PICK n \in 1..(L + 1) :
        /\ \A i \in 1..(n - 1) : log[i] <= t - Hour
        /\ n <= L => log[n] > t - Hour
        /\ Unexpired(log, t) = SubSeq(log, n, L)
  BY FirstRecent
<1>2. old \in Seq(Nat) /\ Len(old) = L /\ \A i \in 1..L : old[i] <= log[i]
  BY AgedType
<1> DEFINE s == SubSeq(log, n, L)
           r == Aged(s)
<1>3. /\ s \in Seq(Nat) /\ Len(s) = L - n + 1
      /\ \A i \in 1..Len(s) : s[i] = log[n + i - 1]
  OBVIOUS
<1>4. /\ r \in Seq(Nat) /\ Len(r) = L - n + 1
      /\ \A i \in 1..Len(r) : r[i] = old[n + i - 1]
  <2> HIDE DEF s
  <2>1. Aged(s) \in Seq(Nat) /\ Len(Aged(s)) = L - n + 1
    BY <1>3, AgedType
  <2>2. ASSUME NEW i \in 1..(L - n + 1)
        PROVE  Aged(s)[i] = old[n + i - 1]
    <3> DEFINE j == n + i - 1
    <3>1. i \in 1..Len(s) /\ s[i] = log[j]
      BY <1>3
    <3>2. j \in 1..Len(log)
      OBVIOUS
    <3>3. i \in DOMAIN s /\ j \in DOMAIN log
      BY <1>3, <3>1, <3>2
    <3> HIDE DEF j
    <3>4. Aged(s)[i] = Aged(log)[j]
      BY <3>1, <3>3 DEF Aged
    <3> QED BY <3>4 DEF j
  <2> QED BY <2>1, <2>2
<1> HIDE DEF old, s, r
<1>5. PICK m \in 1..(L + 1) :
        /\ \A i \in 1..(m - 1) : old[i] <= t - Hour
        /\ m <= L => old[m] > t - Hour
        /\ Unexpired(old, t) = SubSeq(old, m, L)
  BY <1>2, FirstRecent
<1>6. n <= m
  <2> SUFFICES ASSUME m < n
               PROVE  FALSE
    OBVIOUS
  <2>1. m <= L /\ m \in 1..(n - 1) /\ m \in 1..L
    OBVIOUS
  <2>2. log[m] \in Nat /\ old[m] \in Nat
    BY <1>2, <2>1
  <2>3. log[m] <= t - Hour /\ old[m] > t - Hour /\ old[m] <= log[m]
    BY <1>1, <1>2, <1>5, <2>1
  <2> QED BY <2>2, <2>3, SizeAssumption
<1> DEFINE k == m - n + 1
<1>7. Unexpired(r, t) = SubSeq(r, k, Len(r))
  <2>1. k \in 1..(Len(r) + 1)
    BY <1>4, <1>6
  <2>2. ASSUME NEW i \in 1..(k - 1)
        PROVE  r[i] <= t - Hour
    <3>1. i \in 1..Len(r) /\ n + i - 1 \in 1..(m - 1)
      BY <1>4, <1>6
    <3>2. r[i] = old[n + i - 1]
      BY <1>4, <3>1
    <3> QED BY <1>5, <3>1, <3>2
  <2>3. ASSUME k <= Len(r)
        PROVE  r[k] > t - Hour
    <3>1. m <= L /\ r[k] = old[m]
      BY <1>4, <1>6, <2>3
    <3> QED BY <1>5, <3>1
  <2> QED BY <1>4, <2>1, <2>2, <2>3, UnexpiredIsSuffix
<1>8. SubSeq(r, k, Len(r)) = SubSeq(old, m, L)
  <2>1. k \in 1..(Len(r) + 1) /\ Len(r) - k + 1 = L - m + 1
    BY <1>4, <1>6
  <2>2. ASSUME NEW i \in 1..(L - m + 1)
        PROVE  r[k + i - 1] = old[m + i - 1]
    <3>1. k + i - 1 \in 1..Len(r) /\ n + (k + i - 1) - 1 = m + i - 1
      BY <1>4, <1>6
    <3> QED BY <1>4, <3>1
  <2>3. SubSeq(r, k, Len(r)) = [i \in 1..(Len(r) - k + 1) |-> r[k + i - 1]]
    BY <1>4, <2>1
  <2>4. SubSeq(old, m, L) = [i \in 1..(L - m + 1) |-> old[m + i - 1]]
    BY <1>2
  <2> HIDE DEF k
  <2> QED BY <2>1, <2>2, <2>3, <2>4
<1> QED BY <1>1, <1>5, <1>7, <1>8 DEF old, r, s

\* Sliding the past keeps the inductive invariant: only the quota and the backoff
\* look at times, and both compare them.
LEMMA SlideKeeps == IInv /\ Slide => IInv'
<1> SUFFICES ASSUME IInv, Slide
             PROVE  IInv'
  OBVIOUS
<1> DEFINE Back(t) == IF t > 1 THEN t - 1 ELSE t
<1>1. /\ retry' = [id \in Ids |-> Back(retry[id])]
      /\ notBefore' = [id \in Ids |-> Back(notBefore[id])]
      /\ coldAdmissions' = Aged(coldAdmissions)
      /\ coldLog' = Unexpired(Aged(coldLog), now)
      /\ UNCHANGED <<pending, worker, failures, stop, counters, snap, lru>>
  BY DEF Slide, Aged
<1>2. Types
  BY DEF IInv
<1>3. \A t \in Nat : Back(t) \in Nat /\ Back(t) <= t
  OBVIOUS
<1>4. Aged(coldAdmissions) \in Seq(Nat) /\ Aged(coldLog) \in Seq(Nat) /\ now \in Int
  BY <1>2, AgedType DEF Types, ColdType, CounterType
<1>5. ColdType'
  BY <1>1, <1>4, UnexpiredType DEF ColdType
<1>6. retry' \in [Ids -> Nat] /\ notBefore' \in [Ids -> Nat]
  BY <1>1, <1>2, <1>3 DEF Types, StatusType
<1>7. /\ UNCHANGED <<queue, queued, pendingOrder, active, wpc, item, before, cancelled>>
      /\ UNCHANGED <<failures, cancel, stopping, cleared, now, restarts, faults, snap, lru>>
  BY <1>1 DEF pending, worker, stop, counters
<1>8. Types'
  BY <1>2, <1>5, <1>6, <1>7
     DEF Types, PendingType, WorkerType, StopType, DiskType, StatusType, IndexType, CounterType
<1>9. WorkerInv' /\ QueueInv' /\ LineInv'
  BY <1>7 DEF IInv, WorkerInv, QueueInv, LineInv
<1>10. CacheInv' /\ BoundInv'
  BY <1>7 DEF IInv, CacheInv, Cached, BoundInv, JustLoaded
<1>11. QuotaInv'
  <2> SUFFICES ASSUME restarts = 0
               PROVE  /\ coldLog' = Unexpired(coldAdmissions', now)
                      /\ Len(coldLog') <= ColdMax
    BY <1>7 DEF QuotaInv, Recent
  <2>1. coldLog = Unexpired(coldAdmissions, now) /\ Len(coldLog) <= ColdMax
    BY DEF IInv, QuotaInv, Recent
  <2>2. coldAdmissions \in Seq(Nat) /\ coldLog \in Seq(Nat) /\ now \in Int
    BY <1>2 DEF Types, ColdType, CounterType
  <2>3. Unexpired(Aged(coldLog), now) = Unexpired(Aged(coldAdmissions), now)
    BY <2>1, <2>2, UnexpiredAged
  <2>4. Len(coldLog') <= Len(Aged(coldLog)) /\ Len(Aged(coldLog)) = Len(coldLog)
    BY <1>1, <1>4, <2>2, AgedType, UnexpiredType
  <2>5. Len(coldLog') \in Nat /\ Len(coldLog) \in Nat
    BY <1>5, <2>2 DEF ColdType
  <2>6. Len(coldLog') <= ColdMax
    BY <2>1, <2>4, <2>5, SizeAssumption
  <2> QED BY <1>1, <2>3, <2>6
<1>12. BackoffInv'
  <2> SUFFICES ASSUME restarts = 0, faults = 0
               PROVE  /\ \A id \in Ids : Recorded(id)'
                      /\ \A id \in ToSet(queue) \ {NoId} : MayStart(id)'
                      /\ wpc = "got" => MayStart(item)'
    BY <1>7 DEF BackoffInv
  <2>1. /\ \A id \in Ids : Recorded(id)
        /\ \A id \in ToSet(queue) \ {NoId} : MayStart(id)
        /\ wpc = "got" => MayStart(item)
    BY DEF IInv, BackoffInv
  <2>2. ASSUME NEW id \in Ids
        PROVE  /\ retry'[id] = Back(retry[id]) /\ notBefore'[id] = Back(notBefore[id])
               /\ retry[id] \in Nat /\ notBefore[id] \in Nat /\ now \in Nat
    BY <1>1, <1>2 DEF Types, StatusType, CounterType
  <2>3. ASSUME NEW id \in Ids, Recorded(id)
        PROVE  Recorded(id)'
    BY <1>7, <2>2, <2>3 DEF Recorded
  <2>4. ASSUME NEW id \in Ids, MayStart(id)
        PROVE  MayStart(id)'
    BY <1>7, <2>2, <2>4 DEF MayStart
  <2>5. ToSet(queue) \ {NoId} \subseteq Ids /\ (wpc = "got" => item \in Ids)
    BY <1>2 DEF Types, PendingType, ToSet, IInv, WorkerInv
  <2>6. wpc = "got" => MayStart(item)'
    <3>1. \A id \in Ids : MayStart(id) /\ id = item => MayStart(id)'
      BY <2>4
    <3> QED BY <1>7, <2>1, <2>5, <3>1 DEF MayStart
  <2> QED BY <2>1, <2>3, <2>4, <2>5, <2>6
<1> QED BY <1>8, <1>9, <1>10, <1>11, <1>12 DEF IInv

\* What the coordinator does while a step of the pages is taken: no OSError, but
\* the past may slide.
Faultless ==
    \/ \E id \in Ids : Request(id)
    \/ Work \/ Stop \/ GoStale \/ Tick \/ Restart \/ Slide \/ UNCHANGED vars

\* Every step of the pages is such a step, or one that only a browser takes.
LEMMA PageStepIsFaultless == [PageNext]_browser => Faultless
<1> USE DEF Faultless
<1>1. ASSUME NEW id \in Ids, Open(id) \/ Browse(id)
      PROVE  Faultless
  BY <1>1 DEF Open, Browse, Ask, NotFound, Answer, Poll, Refuse, Request
<1>2. CASE WorkerStep \/ RestartStep \/ OtherStep \/ TimePasses
  BY <1>2 DEF WorkerStep, RestartStep, OtherStep, TimePasses
<1>3. CASE UNCHANGED browser
  BY <1>3 DEF browser
<1> QED BY <1>1, <1>2, <1>3 DEF PageNext

\* So it is a step of the coordinator, or one that slides the past.
LEMMA PageStep == [PageNext]_browser => [Next]_vars \/ Slide
BY PageStepIsFaultless DEF Faultless, Next

\* The inductive invariant holds whatever the browsers do.
LEMMA PageInvariance == PageSpec => []IInv
<1>1. PageInit => IInv
  BY InitIInv DEF PageInit
<1>2. IInv /\ [PageNext]_browser => IInv'
  BY PageStep, NextIInv, SlideKeeps
<1> QED BY <1>1, <1>2, PTL DEF PageSpec

\* What holds of the coordinator holds behind the pages, for any number of ticks:
\* its queue, its quota, its index and its limit do not depend on a bounded time.
THEOREM PagesKeepTheCoordinator ==
    PageSpec => [](TypeOK /\ QueueAgreement /\ ColdQuota /\ IndexMatchesDisk /\ UndisturbedCache)
<1>1. IInv => TypeOK
  BY TypesGiveTypeOK DEF IInv
<1> QED BY <1>1, QueueAgrees, QuotaIsKept, IndexMatches, CacheIsBounded, PageInvariance, PTL

\* The line that the waiting pages poll is the one of ServiceLine.
THEOREM PagesSeeTheLine == PageSpec => ServesInOrder
<1>1. PageInit => Line!Init
  BY DEF PageInit, Init, Line!Init
<1>2. IInv /\ [PageNext]_browser => [Line!Next]_(Line!vars)
  <2>1. Slide => UNCHANGED Line!vars
    BY DEF Slide, pending, stop, Line!vars
  <2> QED BY <2>1, PageStep, StepOfLine
<1> QED BY <1>1, <1>2, PageInvariance, PTL DEF PageSpec, ServesInOrder, Line!Spec

\* What a waiting page may wait for is only lost with the deletion of a snapshot by
\* an eviction, with the pending set at the end of the process or of its worker, or
\* at a stop: no request, refusal, poll, quota, failure or passing of time takes it.
HopeIsKept ==
    [][\A id \in Ids : Hope(id) /\ ~stopping'
         => \/ Hope(id)'
            \/ snap[id] # "none" /\ snap'[id] = "none"
            \/ restarts' # restarts
            \/ wpc' = "dead"]_browser

\* Behind the pages no OSError happens, and the refresh that ends has left either
\* a snapshot or the delay of its failure.
OutcomeInv ==
    /\ faults = 0
    /\ wpc = "finally" => snap[item] # "none" \/ retry[item] # 0

\* With positive delays, a failure always leaves a date on record.
LEMMA DelayIsPositive ==
    ASSUME BaseDelay > 0, MaxDelay > 0, NEW n \in Nat
    PROVE  Delay(n) > 0
<1> DEFINE k == IF n > 0 THEN n - 1 ELSE 0
<1>1. k \in Nat
  OBVIOUS
<1> HIDE DEF k
<1>2. IsFiniteSet(1..k) /\ Cardinality(1..k) = k
  BY <1>1, FS_Interval
<1>3. IsFiniteSet(SUBSET (1..k)) /\ Cardinality(SUBSET (1..k)) = 2^k
  BY <1>2, FS_SUBSET
<1>4. 2^k \in Nat /\ 2^k # 0
  <2>1. SUBSET (1..k) # {}
    OBVIOUS
  <2> QED BY <1>3, <2>1, FS_CardinalityType, FS_EmptySet
<1> DEFINE e == 2^k
<1> HIDE DEF e
<1>5. e \in Nat \ {0}
  BY <1>4 DEF e
<1>6. BaseDelay * e > 0
  BY <1>5, DelayAssumption
<1> DEFINE d == BaseDelay * e
<1> HIDE DEF d
<1>7. Delay(n) = IF d < MaxDelay THEN d ELSE MaxDelay
  BY DEF Delay, d, e, k
<1> QED BY <1>6, <1>7 DEF d

\* Requests, polls, the stop and the passing of time leave the worker alone, and
\* neither delete a snapshot nor clear a delay.
LEMMA OthersKeepHope ==
    ASSUME Types,
           \/ \E id \in Ids : Request(id)
           \/ Stop \/ GoStale \/ Tick \/ Slide \/ UNCHANGED vars
    PROVE  /\ UNCHANGED <<worker, faults>>
           /\ \A id \in Ids : snap[id] # "none" => snap'[id] # "none"
           /\ \A id \in Ids : retry[id] # 0 => retry'[id] # 0
<1> USE DEF Types
<1>1. ASSUME NEW id \in Ids, Request(id)
      PROVE  UNCHANGED <<worker, faults, snap, retry>>
  BY <1>1 DEF Request, RequestFresh, Admit, RateLimit, Status, status, counters
<1>2. CASE Stop \/ Tick \/ UNCHANGED vars
  BY <1>2 DEF Stop, CancelFetches, RequestStop, ClearPending, Tick, vars, status, counters
<1>3. CASE GoStale
  BY <1>3 DEF GoStale, status, counters, DiskType
<1>4. CASE Slide
  <2>1. UNCHANGED <<worker, faults, snap>>
    BY <1>4 DEF Slide, counters
  <2>2. \A id \in Ids : retry'[id] = IF retry[id] > 1 THEN retry[id] - 1 ELSE retry[id]
    BY <1>4 DEF Slide
  <2> QED BY <2>1, <2>2 DEF StatusType
<1> QED BY <1>1, <1>2, <1>3, <1>4

\* The outcome of a refresh is there when the refresh ends.
LEMMA OutcomeInvStep ==
    ASSUME BaseDelay > 0, MaxDelay > 0, IInv, OutcomeInv, [PageNext]_browser
    PROVE  OutcomeInv'
<1> USE DEF OutcomeInv
<1>1. Types /\ WorkerInv /\ CacheInv
  BY DEF IInv
<1>2. CASE Check \/ Get \/ GetTimeout \/ Activate \/ RefreshDone \/ RefreshFailed
           \/ RefreshRefused \/ Finish \/ FinishRaced \/ Restart
  BY <1>2 DEF Check, Get, GetTimeout, Activate, RefreshDone, RefreshFailed, RefreshRefused,
              Finish, FinishRaced, Release, Restart, counters
<1>3. CASE Touch
  BY <1>1, <1>3 DEF Touch, counters, CacheInv
<1>4. CASE RecordWorkerFailure
  <2>1. /\ item \in Ids /\ failures \in [Ids -> Nat] /\ retry \in [Ids -> Nat]
        /\ before \in Nat /\ now \in Nat
    BY <1>1, <1>4 DEF RecordWorkerFailure, WorkerInv, Types, StatusType, WorkerType, CounterType
  <2>2. Counted \in Nat
    BY <2>1 DEF Counted
  <2>3. Delay(Counted) \in Nat /\ Delay(Counted) > 0
    BY <2>2, DelayType, DelayIsPositive
  <2>4. retry'[item] = now + Delay(Counted) /\ item' = item /\ faults' = faults
    BY <1>4, <2>1 DEF RecordWorkerFailure, counters
  <2> QED BY <2>1, <2>3, <2>4
<1>5. CASE \/ \E id \in Ids : Request(id)
           \/ Stop \/ GoStale \/ Tick \/ Slide \/ UNCHANGED vars
  <2>1. /\ UNCHANGED <<worker, faults>>
        /\ \A id \in Ids : snap[id] # "none" => snap'[id] # "none"
        /\ \A id \in Ids : retry[id] # 0 => retry'[id] # 0
    BY <1>1, <1>5, OthersKeepHope
  <2>2. wpc = "finally" => item \in Ids
    BY <1>1 DEF WorkerInv
  <2> QED BY <2>1, <2>2 DEF worker
<1> QED BY <1>2, <1>3, <1>4, <1>5, PageStepIsFaultless DEF Faultless, Work

\* The worker releases a restaurant with its outcome on disk, and the eviction
\* clears the records of snapshots it deletes, no others.
LEMMA WorkKeepsHope ==
    ASSUME IInv, OutcomeInv, Work, NEW id \in Ids, Hope(id), wpc' # "dead",
           snap[id] # "none" => snap'[id] # "none"
    PROVE  Hope(id)'
<1> USE DEF Hope, Protected
<1>1. Types /\ WorkerInv /\ CacheInv
  BY DEF IInv
<1>6. wpc # "dead" /\ ~FinishRaced
  <2>1. ~FinishRaced
    BY DEF FinishRaced
  <2> QED BY <2>1 DEF Work, Check, Get, GetTimeout, Activate, RefreshDone, RefreshFailed,
                      RefreshRefused, Touch, RecordWorkerFailure, Finish, Release
<1>2. CASE Check \/ Get \/ GetTimeout \/ RefreshRefused \/ Touch
  BY <1>2, <1>6 DEF Check, Get, GetTimeout, RefreshRefused, Touch, pending, status
<1>3. CASE Activate
  BY <1>1, <1>3 DEF Activate, WorkerInv, status
<1>4. CASE RefreshDone \/ RefreshFailed \/ RecordWorkerFailure
  <2>1. item \in Ids /\ active = item /\ item # NoId
    BY <1>1, <1>4, IdsAssumption DEF RefreshDone, RefreshFailed, RecordWorkerFailure, WorkerInv
  <2>2. UNCHANGED pending
    BY <1>4 DEF RefreshDone, RefreshFailed, RecordWorkerFailure
  <2>3. id # item => retry'[id] = retry[id]
    BY <1>1, <1>4 DEF RefreshDone, RefreshFailed, RecordWorkerFailure, Types, StatusType
  <2> QED BY <2>1, <2>2, <2>3 DEF pending
<1>5. CASE Finish
  <2> DEFINE others == queued \ {item}
  <2>1. wpc \in {"finally", "unwinding"} /\ queued' = others
    BY <1>5 DEF Finish, Release
  <2>2. wpc = "finally" /\ active = item
    BY <1>1, <2>1 DEF WorkerInv, OutcomeInv
  <2>3. Victims(others) \subseteq Cached
    <3>1. Victims(others) \subseteq ToSet(lru)
      BY <1>1, EvictionIsRight DEF Types
    <3> QED BY <1>1, <2>2, <3>1 DEF CacheInv
  <2>4. retry'[id] = IF id \in Victims(others) THEN 0 ELSE retry[id]
    BY <1>5 DEF Finish, EvictAll, Deleted
  <2> HIDE DEF others
  <2>5. snap[id] = "none" => retry'[id] = retry[id]
    BY <2>3, <2>4 DEF Cached
  <2>6. id \in queued /\ id # item => id \in queued'
    BY <2>1 DEF others
  <2> QED BY <2>2, <2>5, <2>6 DEF OutcomeInv
<1> QED BY <1>2, <1>3, <1>4, <1>5, <1>6 DEF Work

\* With positive delays, what a waiting page waits for outlives every step but the
\* deletion of a snapshot, a restart, the death of the worker and the stop: while
\* none of them happens, what PageComesBack needs is fairness alone.
THEOREM HopeIsNeverLost ==
    ASSUME BaseDelay > 0, MaxDelay > 0
    PROVE  PageSpec => HopeIsKept
<1>1. PageInit => OutcomeInv
  BY DEF PageInit, Init, OutcomeInv
<1>2. IInv /\ OutcomeInv /\ [PageNext]_browser => OutcomeInv'
  BY OutcomeInvStep
<1>3. ASSUME IInv, OutcomeInv, [PageNext]_browser, NEW id \in Ids, Hope(id), ~stopping',
             ~(snap[id] # "none" /\ snap'[id] = "none"), restarts' = restarts, wpc' # "dead"
      PROVE  Hope(id)'
  <2>1. Types
    BY <1>3 DEF IInv
  <2>2. CASE WorkerStep
    <3>1. snap[id] # "none" => snap'[id] # "none"
      BY <1>3, <2>2 DEF WorkerStep
    <3> QED BY <1>3, <2>2, <3>1, WorkKeepsHope DEF WorkerStep
  <2>3. ~RestartStep
    BY <1>3, <2>1 DEF RestartStep, Restart, Types, CounterType
  <2>4. CASE OtherStep \/ TimePasses \/ UNCHANGED browser
             \/ \E x \in Ids : Open(x) \/ Browse(x)
    <3>1. \/ \E x \in Ids : Request(x)
          \/ Stop \/ GoStale \/ Tick \/ Slide \/ UNCHANGED vars
      BY <2>4
         DEF OtherStep, TimePasses, browser, Open, Browse, Ask, NotFound, Answer, Poll, Refuse,
             Request
    <3>2. /\ UNCHANGED worker
          /\ snap[id] # "none" => snap'[id] # "none"
          /\ retry[id] # 0 => retry'[id] # 0
      BY <2>1, <3>1, OthersKeepHope
    <3>3. queued \subseteq queued' /\ active' = active
      <4>1. ~RequestStop /\ ~ClearPending
        BY <1>3 DEF RequestStop, ClearPending
      <4> QED BY <3>1, <4>1
              DEF Request, RequestFresh, Admit, RateLimit, Status, Stop, CancelFetches,
                  GoStale, Tick, Slide, vars, pending
    <3> QED BY <1>3, <3>2, <3>3 DEF Hope, Protected, worker
  <2> QED BY <1>3, <2>2, <2>3, <2>4 DEF PageNext
<1>4. IInv /\ OutcomeInv /\ [PageNext]_browser =>
        [\A id \in Ids : Hope(id) /\ ~stopping'
           => \/ Hope(id)'
              \/ snap[id] # "none" /\ snap'[id] = "none"
              \/ restarts' # restarts
              \/ wpc' = "dead"]_browser
  BY <1>3
<1> QED BY <1>1, <1>2, <1>4, PageInvariance, PTL DEF PageSpec, HopeIsKept
=============================================================================
