------------------------------ MODULE Domination ------------------------------
(***************************************************************************)
(* mark_dominated (bk_crowns/calculator.py): a reward is dominated when    *)
(* whole orders of one cheaper reward of the same family give at least its *)
(* quantity for at most its crowns.  A portion of zero, which the pattern  *)
(* of _portion lets in, makes it raise ZeroDivisionError.                  *)
(***************************************************************************)
EXTENDS Integers

CONSTANTS
    Portions,  \* the rewards a ranking may hold: crowns, quantity, family, usable
    MaxRows    \* bound: the length of the ranking

VARIABLES
    rows,      \* the ranking, position by position
    next,      \* the position of the next target
    by,        \* for each dominated position: its alternative
    raised     \* ZeroDivisionError has left mark_dominated

vars == <<rows, next, by, raised>>

NoFamily == "none"     \* a menu, a box, or a name without a known portion

Init ==
    /\ \E n \in 1..MaxRows : rows \in [1..n -> Portions]
    /\ next = 1
    /\ by = [r \in DOMAIN rows |-> {}]
    /\ raised = FALSE

\* Mutant: the number of orders is rounded down.
OrdersFloor(source, target) == rows[target].quantity \div rows[source].quantity

\* ceil(target_quantity / source_quantity)
Orders(source, target) ==
    (rows[target].quantity + rows[source].quantity - 1) \div rows[source].quantity

Cost(source, target) == Orders(source, target) * rows[source].crowns
Total(source, target) == Orders(source, target) * rows[source].quantity

\* Mutant: a source that costs as much as its target is accepted.
RivalsEqual(target) ==
    {s \in DOMAIN rows \ {target} :
        /\ rows[s].usable /\ rows[s].crowns <= rows[target].crowns
        /\ rows[s].family = rows[target].family}

\* The rows that may replace a target: usable, cheaper, of its family.
Rivals(target) ==
    {s \in DOMAIN rows \ {target} :
        /\ rows[s].usable /\ rows[s].crowns < rows[target].crowns
        /\ rows[s].family = rows[target].family}

\* The targets that are not skipped, and those of which a rival is of zero.
Considered(target) == rows[target].usable /\ rows[target].family # NoFamily
Divides(target) == Considered(target) /\ \E s \in Rivals(target) : rows[s].quantity = 0

Alternatives(target) ==
    {s \in Rivals(target) : /\ Cost(s, target) <= rows[target].crowns
                            /\ Total(s, target) >= rows[target].quantity}

\* The key of min: crowns, then orders, then the larger total quantity.
Better(s, t, target) ==
    \/ Cost(s, target) < Cost(t, target)
    \/ /\ Cost(s, target) = Cost(t, target)
       /\ Orders(s, target) < Orders(t, target)
    \/ /\ Cost(s, target) = Cost(t, target)
       /\ Orders(s, target) = Orders(t, target)
       /\ Total(s, target) > Total(t, target)

\* One turn of the outer loop; names settle what the key leaves equal.
Mark ==
    /\ ~raised /\ next \in DOMAIN rows /\ ~Divides(next)
    /\ next' = next + 1
    /\ LET found == IF Considered(next) THEN Alternatives(next) ELSE {}
           best  == {s \in found : \A t \in found : ~Better(t, s, next)}
       IN  IF best = {} THEN UNCHANGED by
           ELSE \E s \in best : by' = [by EXCEPT ![next] = {s}]
    /\ UNCHANGED <<rows, raised>>

\* The turn that divides by zero: calculate fails, and the refresh with it.
Raise ==
    /\ ~raised /\ next \in DOMAIN rows /\ Divides(next)
    /\ raised' = TRUE
    /\ UNCHANGED <<rows, next, by>>

Next == Mark \/ Raise

Spec == Init /\ [][Next]_vars
------------------------------------------------------------------------------
\* Reference: the source may replace the target.
MayReplace(source, target) ==
    /\ rows[source].crowns < rows[target].crowns
    /\ rows[source].usable /\ rows[target].usable
    /\ rows[source].family = rows[target].family /\ rows[target].family # NoFamily

\* Reference: n orders of the source replace the target.
Replaces(source, n, target) ==
    /\ MayReplace(source, target)
    /\ n * rows[source].quantity >= rows[target].quantity
    /\ n * rows[source].crowns <= rows[target].crowns

\* The counts worth trying: up to one order for each unit of the target.
Counts(target) == 0..rows[target].quantity

\* A reward is marked exactly when some number of orders of some other reward
\* replaces it, and the note names the cheapest way to do so.  The marking fails
\* exactly when a portion of zero is cheaper than another of its family.
MarksAreRight ==
    /\ \A target \in 1..(next - 1) :
         LET ways == {w \in (DOMAIN rows) \X Counts(target) : Replaces(w[1], w[2], target)}
         IN  /\ by[target] = {} <=> ways = {}
             /\ \A s \in by[target], w \in ways :
                  Cost(s, target) <= w[2] * rows[w[1]].crowns
    /\ raised \/ next \notin DOMAIN rows =>
         (raised <=> \E s, t \in DOMAIN rows : MayReplace(s, t) /\ rows[s].quantity = 0)

\* Once the ranking is marked, whatever is marked can be had from a reward
\* that is not: the rewards a reader is left with replace all the others.
UnmarkedSuffice ==
    next \notin DOMAIN rows =>
        \A target \in DOMAIN rows : by[target] # {} =>
            \E s \in DOMAIN rows, n \in Counts(target) :
                by[s] = {} /\ Replaces(s, n, target)
=============================================================================
