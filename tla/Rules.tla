--------------------------------- MODULE Rules ---------------------------------
(***************************************************************************)
(* The two rules that decide what the page says of a reward, each on       *)
(* variables of its own: the candidate that prices it (Matching) and the   *)
(* note that another reward replaces it (Domination).                      *)
(***************************************************************************)
EXTENDS Naturals

CONSTANTS Ids, Prices, Portions, MaxRows

VARIABLES
    offer, step, failed, result,
    rows, next, by, raised

M == INSTANCE Matching
D == INSTANCE Domination

\* Identifiers have an order. What calculate hands over: crowns are a count, and
\* so is the quantity of a reward with a family, zero included.
ASSUME IdsAssumption == Ids \subseteq Nat
ASSUME RealPortions ==
    /\ MaxRows \in Nat
    /\ \A p \in Portions :
         /\ p.crowns \in Nat
         /\ p.family # D!NoFamily => p.quantity \in Nat

\* A reward is priced by the first method that finds a price, from a candidate
\* that no other priced one is preferred to.
MatchIsRight == M!MatchIsRight

\* A reward is marked exactly when orders of another one replace it, and the
\* note names the cheapest way; the marking fails exactly on a portion of zero.
MarksAreRight == D!MarksAreRight

\* What is marked can be had from a reward that is not.
UnmarkedSuffice == D!UnmarkedSuffice
=============================================================================
