-------------------------- MODULE EditDistanceProofs --------------------------
(***************************************************************************)
(* The single pass of EditDistance is right on words of every length over  *)
(* every alphabet.  The invariant says what the letters already read       *)
(* show: no difference, one replaced letter, or one missing letter.        *)
(***************************************************************************)
EXTENDS EditDistance, SequenceTheorems, TLAPS

\* Both words are sequences, and the indices stay within one of their ends.
TypeOK ==
    /\ left \in Seq(Letters) /\ right \in Seq(Letters)
    /\ leftIndex \in Nat /\ rightIndex \in Nat /\ edits \in 0..2
    /\ pc \in {"enter", "loop", "near", "far"}

\* The letters before an index agree, but for position p.
AgreeBut(p, index) ==
    \A k \in 1..(index - 1) : k # p => left[k] = right[k]

\* Up to index, right is left with one more letter, at position p.
OneMore(p, index) ==
    /\ \A k \in 1..(p - 1) : left[k] = right[k]
    /\ \A k \in p..(index - 1) : left[k] = right[k + 1]

\* What the loop knows of the letters it has read.
Read ==
    /\ Len(left) <= Len(right) /\ Len(right) <= Len(left) + 1
    /\ leftIndex \in 1..(Len(left) + 1) /\ rightIndex \in 1..(Len(right) + 1)
    /\ edits \in 0..1
    /\ edits = 0 => rightIndex = leftIndex /\ AgreeBut(0, leftIndex)
    /\ edits = 1 /\ Len(left) = Len(right) =>
         /\ rightIndex = leftIndex
         /\ \E p \in 1..(leftIndex - 1) : left[p] # right[p] /\ AgreeBut(p, leftIndex)
    /\ edits = 1 /\ Len(left) # Len(right) =>
         /\ rightIndex = leftIndex + 1
         /\ \E p \in 1..leftIndex :
              p <= Len(left) /\ left[p] # right[p] /\ OneMore(p, leftIndex)

Inv ==
    /\ TypeOK
    /\ pc = "enter" => leftIndex = 1 /\ rightIndex = 1 /\ edits = 0
    /\ pc = "loop" => Read
    /\ AnswerIsRight

\* Two words of one length that differ at two positions are not near.
LEMMA TwoReplaced ==
    ASSUME NEW u \in Seq(Letters), NEW v \in Seq(Letters), Len(u) = Len(v),
           NEW p \in 1..Len(u), NEW q \in 1..Len(u), p # q,
           u[p] # v[p], u[q] # v[q]
    PROVE  ~Near(u, v)
BY DEF Near, Replaced, Inserted

\* Nor are two words whose lengths differ by one, when they still differ after
\* a letter is skipped at their first difference.
LEMMA MissingAndReplaced ==
    ASSUME NEW u \in Seq(Letters), NEW v \in Seq(Letters), Len(v) = Len(u) + 1,
           NEW p \in 1..Len(u), NEW q \in p..Len(u),
           u[p] # v[p], u[q] # v[q + 1]
    PROVE  ~Near(u, v)
<1>1. ~Replaced(u, v) /\ ~Inserted(v, u)
  BY DEF Replaced, Inserted
<1>2. ASSUME NEW s \in 1..Len(v),
             \A k \in 1..Len(u) : u[k] = v[IF k < s THEN k ELSE k + 1]
      PROVE  FALSE
  <2>1. CASE p < s
    BY <1>2, <2>1
  <2>2. CASE ~(p < s)
    <3>1. q \in 1..Len(u) /\ ~(q < s)
      BY <2>2
    <3> QED BY <1>2, <3>1
  <2> QED BY <2>1, <2>2
<1> QED BY <1>1, <1>2 DEF Near, Inserted

\* A letter inserted at position p, as the loop finds it.
LEMMA InsertedAt ==
    ASSUME NEW u \in Seq(Letters), NEW v \in Seq(Letters), Len(v) = Len(u) + 1,
           NEW p \in 1..Len(v),
           \A k \in 1..(p - 1) : u[k] = v[k], \A k \in p..Len(u) : u[k] = v[k + 1]
    PROVE  Inserted(u, v)
<1>1. ASSUME NEW k \in 1..Len(u)
      PROVE  u[k] = v[IF k < p THEN k ELSE k + 1]
  <2>1. CASE k < p
    <3>1. k \in 1..(p - 1)
      BY <2>1
    <3> QED BY <2>1, <3>1
  <2>2. CASE ~(k < p)
    <3>1. k \in p..Len(u)
      BY <2>2
    <3> QED BY <2>2, <3>1
  <2> QED BY <2>1, <2>2
<1> QED BY <1>1 DEF Inserted

LEMMA InitInv == Init => Inv
<1> SUFFICES ASSUME Init PROVE Inv
  OBVIOUS
<1>1. PICK n \in 0..MaxLen, m \in 0..MaxLen :
        left \in [1..n -> Letters] /\ right \in [1..m -> Letters]
  BY DEF Init
<1>2. left \in Seq(Letters) /\ right \in Seq(Letters)
  BY <1>1, LengthAssumption, SeqDef
<1> QED BY <1>2 DEF Init, Inv, TypeOK, AnswerIsRight

LEMMA StepInv == Inv /\ [Next]_vars => Inv'
<1> SUFFICES ASSUME Inv, [Next]_vars PROVE Inv'
  OBVIOUS
<1> USE DEF Inv, TypeOK
<1>0. Len(left) \in Nat /\ Len(right) \in Nat
  BY LenProperties
<1>1. CASE TooFar
  BY <1>0, <1>1 DEF TooFar, Apart, AnswerIsRight, Near, Replaced, Inserted
<1>2. CASE Enter
  BY <1>0, <1>2 DEF Enter, Apart, AnswerIsRight, Read, AgreeBut
<1>3. CASE Match
  <2>1. TypeOK' /\ pc' = "loop"
    BY <1>3 DEF Match
  <2>2. Read'
    <3> USE DEF Match, Inside, Read
    <3>0. /\ Len(left') <= Len(right') /\ Len(right') <= Len(left') + 1
          /\ leftIndex' \in 1..(Len(left') + 1) /\ rightIndex' \in 1..(Len(right') + 1)
          /\ edits' \in 0..1
      BY <1>0, <1>3
    <3>1. CASE edits = 0
      BY <1>0, <1>3, <3>1 DEF AgreeBut
    <3>2. CASE edits = 1 /\ Len(left) = Len(right)
      <4>1. PICK p \in 1..(leftIndex - 1) : left[p] # right[p] /\ AgreeBut(p, leftIndex)
        BY <1>3, <3>2
      <4>2. p \in 1..(leftIndex' - 1) /\ AgreeBut(p, leftIndex)'
        BY <1>0, <1>3, <3>2, <4>1 DEF AgreeBut
      <4>3. left'[p] # right'[p]
        BY <1>3, <4>1
      <4>4. \E r \in 1..(leftIndex' - 1) : left'[r] # right'[r] /\ AgreeBut(r, leftIndex)'
        BY <4>2, <4>3 DEF AgreeBut
      <4>5. edits' = 1 /\ Len(left') = Len(right') /\ rightIndex' = leftIndex'
        BY <1>3, <3>2
      <4> HIDE DEF Inv, TypeOK, Match, Inside
      <4> QED BY <3>0, <4>4, <4>5
    <3>3. CASE edits = 1 /\ Len(left) # Len(right)
      <4>1. PICK p \in 1..leftIndex :
              p <= Len(left) /\ left[p] # right[p] /\ OneMore(p, leftIndex)
        BY <1>3, <3>3
      <4>2. p \in 1..leftIndex' /\ OneMore(p, leftIndex)'
        BY <1>0, <1>3, <3>3, <4>1 DEF OneMore
      <4>3. p <= Len(left') /\ left'[p] # right'[p]
        BY <1>3, <4>1
      <4>4. \E r \in 1..leftIndex' :
              r <= Len(left') /\ left'[r] # right'[r] /\ OneMore(r, leftIndex)'
        BY <4>2, <4>3 DEF OneMore
      <4>5. edits' = 1 /\ Len(left') # Len(right') /\ rightIndex' = leftIndex' + 1
        BY <1>3, <3>3
      <4> HIDE DEF Inv, TypeOK, Match, Inside
      <4> QED BY <3>0, <4>4, <4>5
    <3> QED BY <1>3, <3>1, <3>2, <3>3
  <2> QED BY <1>3, <2>1, <2>2 DEF AnswerIsRight
<1>4. CASE Mismatch
  <2> USE DEF Mismatch, Inside, Read
  <2>1. CASE edits = 0
    <3>1. TypeOK' /\ pc' = "loop"
      BY <1>0, <1>4, <2>1
    <3>2. CASE Len(left) = Len(right)
      <4>1. PICK p \in Nat : p = leftIndex
        OBVIOUS
      <4>2. /\ p \in 1..(leftIndex' - 1) /\ AgreeBut(p, leftIndex)'
            /\ left'[p] # right'[p]
        BY <1>0, <1>4, <2>1, <3>2, <4>1 DEF AgreeBut
      <4>3. Read'
        BY <1>0, <1>4, <2>1, <3>2, <4>2
      <4> QED BY <3>1, <4>3 DEF AnswerIsRight
    <3>3. CASE Len(left) # Len(right)
      <4>1. leftIndex' = leftIndex /\ OneMore(leftIndex, leftIndex)'
        BY <1>0, <1>4, <2>1, <3>3 DEF AgreeBut, OneMore
      <4>2. Read'
        BY <1>0, <1>4, <2>1, <3>3, <4>1
      <4> QED BY <3>1, <4>2 DEF AnswerIsRight
    <3> QED BY <3>2, <3>3
  <2>2. CASE edits = 1
    <3>1. TypeOK' /\ pc' = "far" /\ UNCHANGED <<left, right>>
      BY <1>4, <2>2
    <3>2. CASE Len(left) = Len(right)
      <4>1. PICK p \in 1..(leftIndex - 1) : left[p] # right[p]
        BY <1>4, <2>2, <3>2
      <4>2. ~Near(left, right)
        BY <1>0, <1>4, <2>2, <3>2, <4>1, TwoReplaced
      <4> QED BY <3>1, <4>2 DEF AnswerIsRight
    <3>3. CASE Len(left) # Len(right)
      <4>1. PICK p \in 1..leftIndex : p <= Len(left) /\ left[p] # right[p]
        BY <1>4, <2>2, <3>3
      <4>2. /\ Len(right) = Len(left) + 1 /\ p \in 1..Len(left)
            /\ leftIndex \in p..Len(left) /\ left[leftIndex] # right[leftIndex + 1]
        BY <1>0, <1>4, <2>2, <3>3, <4>1
      <4>3. ~Near(left, right)
        BY <4>1, <4>2, MissingAndReplaced
      <4> QED BY <3>1, <4>3 DEF AnswerIsRight
    <3> QED BY <3>2, <3>3
  <2> QED BY <1>4, <2>1, <2>2
<1>5. CASE Finish
  <2> USE DEF Finish, Inside, Read
  <2>1. TypeOK' /\ pc' # "enter" /\ pc' # "loop" /\ UNCHANGED <<left, right>>
    BY <1>5
  <2>2. pc' = "near" /\ Near(left, right)
    <3>1. CASE edits = 0 /\ Len(left) = Len(right)
      <4>1. Replaced(left, right)
        BY <1>0, <1>5, <3>1 DEF AgreeBut, Replaced
      <4> QED BY <1>0, <1>5, <3>1, <4>1 DEF Near
    <3>2. CASE edits = 0 /\ Len(left) # Len(right)
      <4>1. leftIndex = Len(left) + 1 /\ Len(right) = Len(left) + 1
        BY <1>0, <1>5, <3>2
      <4>2. Inserted(left, right)
        <5>1. Len(right) \in 1..Len(right) /\ \A k \in 1..(Len(right) - 1) : left[k] = right[k]
          BY <1>0, <1>5, <3>2, <4>1 DEF AgreeBut
        <5>2. \A k \in Len(right)..Len(left) : left[k] = right[k + 1]
          BY <1>0, <4>1
        <5> HIDE DEF Inv, TypeOK, Finish, Inside, Read
        <5>3. left \in Seq(Letters) /\ right \in Seq(Letters)
          BY DEF Inv, TypeOK
        <5> QED BY <4>1, <5>1, <5>2, <5>3, InsertedAt
      <4> QED BY <1>0, <1>5, <3>2, <4>1, <4>2 DEF Near
    <3>3. CASE edits = 1 /\ Len(left) = Len(right)
      <4>1. PICK p \in 1..(leftIndex - 1) : AgreeBut(p, leftIndex)
        BY <1>5, <3>3
      <4>2. leftIndex = Len(left) + 1 /\ p \in 0..Len(left)
        BY <1>0, <1>5, <3>3, <4>1
      <4>3. Replaced(left, right)
        BY <1>0, <3>3, <4>1, <4>2 DEF AgreeBut, Replaced
      <4> QED BY <1>0, <1>5, <3>3, <4>2, <4>3 DEF Near
    <3>4. CASE edits = 1 /\ Len(left) # Len(right)
      <4>1. PICK p \in 1..leftIndex : p <= Len(left) /\ OneMore(p, leftIndex)
        BY <1>5, <3>4
      <4>2. leftIndex = Len(left) + 1 /\ Len(right) = Len(left) + 1 /\ p \in 1..Len(right)
        BY <1>0, <1>5, <3>4, <4>1
      <4>3. Inserted(left, right)
        <5>1. \A k \in 1..(p - 1) : left[k] = right[k]
          BY <4>1 DEF OneMore
        <5>2. \A k \in p..Len(left) : left[k] = right[k + 1]
          BY <1>0, <4>1, <4>2 DEF OneMore
        <5> HIDE DEF Inv, TypeOK, Finish, Inside, Read
        <5>3. left \in Seq(Letters) /\ right \in Seq(Letters)
          BY DEF Inv, TypeOK
        <5> QED BY <4>2, <5>1, <5>2, <5>3, InsertedAt
      <4> QED BY <1>0, <1>5, <3>4, <4>2, <4>3 DEF Near
    <3> QED BY <1>5, <3>1, <3>2, <3>3, <3>4
  <2> QED BY <2>1, <2>2 DEF AnswerIsRight, Near, Replaced, Inserted
<1>6. CASE UNCHANGED vars
  BY <1>6 DEF vars, Read, AgreeBut, OneMore, AnswerIsRight, Near, Replaced, Inserted
<1> QED BY <1>1, <1>2, <1>3, <1>4, <1>5, <1>6 DEF Next

\* For every alphabet and every bound on their length, the answer given for two
\* words is the one the reference definition gives.
THEOREM AnswerCorrect == Spec => []AnswerIsRight
<1>1. Spec => []Inv
  BY InitInv, StepInv, PTL DEF Spec
<1>2. Inv => AnswerIsRight
  BY DEF Inv
<1> QED BY <1>1, <1>2, PTL
=============================================================================
