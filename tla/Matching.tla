------------------------------- MODULE Matching -------------------------------
(***************************************************************************)
(* match_reward and _resolve (bk_crowns/matching.py): a reward looks for   *)
(* its catalogue candidate by alias, then by route, then by exact name; a  *)
(* method whose candidates have no usable price gives way to the next one. *)
(***************************************************************************)
EXTENDS Integers

CONSTANTS
    Ids,      \* the candidates, in the order of their identifiers
    Prices    \* usable prices of the reward's size; 0: select_price raises

Methods == <<"alias", "route", "exact">>

Candidate ==
    [price : Prices \cup {0}, active : BOOLEAN, available : BOOLEAN,
     categorised : BOOLEAN, hits : SUBSET {"alias", "route", "exact"}]

Pending == [status |-> "pending", id |-> 0, method |-> 0]
Unmatched(method) == [status |-> "unmatched", id |-> 0, method |-> method]

VARIABLES
    offer,    \* the candidates of the reward's kind
    step,     \* the method match_reward tries next, 4: the diagnosis
    failed,   \* failed_resolution
    result

vars == <<offer, step, failed, result>>

Init ==
    /\ offer \in [Ids -> Candidate]
    /\ step = 1 /\ failed = Pending /\ result = Pending

Hits(method) == {id \in Ids : Methods[method] \in offer[id].hits}

\* preference: active, then available, then in a category.
Preferred(a, b) ==
    LET x == offer[a]  y == offer[b]
    IN  \/ x.active /\ ~y.active
        \/ x.active = y.active /\ x.available /\ ~y.available
        \/ x.active = y.active /\ x.available = y.available
             /\ x.categorised /\ ~y.categorised

\* What _resolve returns once it has its preferred candidates.
Settle(best, method) ==
    IF \E a, b \in best : offer[a].price # offer[b].price
    THEN [status |-> "ambiguous", id |-> 0, method |-> method]
    ELSE [status |-> "matched", method |-> method,
          id |-> CHOOSE a \in best : \A b \in best : a <= b]

\* _resolve: the preferred priced candidates, if they agree on the price.
Resolve(method) ==
    LET priced == {a \in Hits(method) : offer[a].price # 0}
        best == {a \in priced : \A b \in priced : ~Preferred(b, a)}
    IN  IF priced = {} THEN Unmatched(method) ELSE Settle(best, method)

Skip ==
    /\ result = Pending /\ step \in 1..3 /\ Hits(step) = {}
    /\ step' = step + 1
    /\ UNCHANGED <<offer, failed, result>>

\* Mutant: the first method that finds candidates has the last word.
TryOnly ==
    /\ result = Pending /\ step \in 1..3 /\ Hits(step) # {}
    /\ result' = Resolve(step)
    /\ UNCHANGED <<offer, step, failed>>

\* Alias and route give way when they end unmatched, an exact name does not.
Try ==
    /\ result = Pending /\ step \in 1..3 /\ Hits(step) # {}
    /\ IF step < 3 /\ Resolve(step).status = "unmatched"
       THEN failed' = Resolve(step) /\ step' = step + 1 /\ UNCHANGED result
       ELSE result' = Resolve(step) /\ UNCHANGED <<step, failed>>
    /\ UNCHANGED offer

\* Close names are suggestions only.
Diagnose ==
    /\ result = Pending /\ step = 4
    /\ result' = IF failed # Pending THEN failed ELSE Unmatched(0)
    /\ UNCHANGED <<offer, step, failed>>

Next == Skip \/ Try \/ Diagnose

Spec == Init /\ [][Next]_vars
------------------------------------------------------------------------------
\* Whatever the candidates, a reward is priced by the first method that finds
\* one with a price, from one that no other priced one is preferred to, and is
\* left unmatched only when no method finds a price.
MatchIsRight ==
    LET Priced(method) == {id \in Hits(method) : offer[id].price # 0}
        Top(method) == {a \in Priced(method) : \A b \in Priced(method) : ~Preferred(b, a)}
        first == {m \in 1..3 : Priced(m) # {} /\ \A k \in 1..(m - 1) : Priced(k) = {}}
    IN  /\ result.status = "unmatched" => first = {}
        /\ result.status \in {"matched", "ambiguous"} =>
             /\ first = {result.method}
             /\ result.status = "ambiguous" <=>
                  \E a, b \in Top(result.method) : offer[a].price # offer[b].price
             /\ result.status = "matched" => result.id \in Top(result.method)
=============================================================================
