----------------------------- MODULE EditDistance -----------------------------
(***************************************************************************)
(* _edit_distance_at_most_one (bk_crowns/restaurants.py): one pass over a  *)
(* query and a city name, which decides whether they differ by at most one *)
(* letter.  Words are sequences, so indices are one more than the code's.  *)
(***************************************************************************)
EXTENDS Integers, Sequences

CONSTANTS
    Letters,
    MaxLen     \* bound: the length of a word

ASSUME LengthAssumption == MaxLen \in Nat

VARIABLES
    left, right, leftIndex, rightIndex, edits,
    pc         \* "enter", "loop", or the answer: "near" or "far"

vars == <<left, right, leftIndex, rightIndex, edits, pc>>

Init ==
    /\ \E n, m \in 0..MaxLen : left \in [1..n -> Letters] /\ right \in [1..m -> Letters]
    /\ leftIndex = 1 /\ rightIndex = 1 /\ edits = 0
    /\ pc = "enter"

Apart == Len(left) > Len(right) + 1 \/ Len(right) > Len(left) + 1

TooFar ==
    /\ pc = "enter" /\ Apart
    /\ pc' = "far"
    /\ UNCHANGED <<left, right, leftIndex, rightIndex, edits>>

\* The shorter word goes left.
Enter ==
    /\ pc = "enter" /\ ~Apart
    /\ IF Len(left) > Len(right) THEN left' = right /\ right' = left
                                 ELSE UNCHANGED <<left, right>>
    /\ pc' = "loop"
    /\ UNCHANGED <<leftIndex, rightIndex, edits>>

Inside == leftIndex <= Len(left) /\ rightIndex <= Len(right)

Match ==
    /\ pc = "loop" /\ Inside /\ left[leftIndex] = right[rightIndex]
    /\ leftIndex' = leftIndex + 1 /\ rightIndex' = rightIndex + 1
    /\ UNCHANGED <<left, right, edits, pc>>

\* Mutant: a missing letter is taken for a replaced one.
MismatchReplaces ==
    /\ pc = "loop" /\ Inside /\ left[leftIndex] # right[rightIndex]
    /\ edits' = edits + 1
    /\ IF edits = 1
       THEN pc' = "far" /\ UNCHANGED <<leftIndex, rightIndex>>
       ELSE /\ leftIndex' = leftIndex + 1 /\ rightIndex' = rightIndex + 1
            /\ UNCHANGED pc
    /\ UNCHANGED <<left, right>>

\* A replaced letter, or a letter that left misses.
Mismatch ==
    /\ pc = "loop" /\ Inside /\ left[leftIndex] # right[rightIndex]
    /\ edits' = edits + 1
    /\ IF edits = 1
       THEN pc' = "far" /\ UNCHANGED <<leftIndex, rightIndex>>
       ELSE /\ leftIndex' = IF Len(left) = Len(right) THEN leftIndex + 1 ELSE leftIndex
            /\ rightIndex' = rightIndex + 1
            /\ UNCHANGED pc
    /\ UNCHANGED <<left, right>>

\* What one of the words still holds counts as one edit.
Finish ==
    /\ pc = "loop" /\ ~Inside
    /\ LET rest == IF rightIndex <= Len(right) \/ leftIndex <= Len(left) THEN 1 ELSE 0
       IN  pc' = IF edits + rest <= 1 THEN "near" ELSE "far"
    /\ UNCHANGED <<left, right, leftIndex, rightIndex, edits>>

Next == TooFar \/ Enter \/ Match \/ Mismatch \/ Finish

Spec == Init /\ [][Next]_vars
------------------------------------------------------------------------------
\* Reference: at most one letter replaced.
Replaced(u, v) ==
    /\ Len(u) = Len(v)
    /\ \E p \in 0..Len(u) : \A k \in 1..Len(u) : k # p => u[k] = v[k]

\* Reference: v is u with one letter more, at position p.
Inserted(u, v) ==
    /\ Len(v) = Len(u) + 1
    /\ \E p \in 1..Len(v) :
         \A k \in 1..Len(u) : u[k] = v[IF k < p THEN k ELSE k + 1]

Near(u, v) == Replaced(u, v) \/ Inserted(u, v) \/ Inserted(v, u)

\* Whatever the two words, the single pass answers as the definition of an
\* edit distance of at most one does, which tries every position.
AnswerIsRight ==
    /\ pc = "near" => Near(left, right)
    /\ pc = "far" => ~Near(left, right)
=============================================================================
