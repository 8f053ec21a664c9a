-------------------------- MODULE ServedGeneration --------------------------
(***************************************************************************)
(* What a snapshot store promises to those who read it.  A generation is   *)
(* offered, then committed or withdrawn; readers are served the committed  *)
(* generation exactly when it is the one offered, and nothing else ever    *)
(* hides it: no clean-up, no failure report and no crash.                  *)
(***************************************************************************)
CONSTANTS Gens, None

VARIABLES
    offered,   \* the generation last put forward, or None
    latest,    \* the generation last committed, or None
    serving    \* what readers are given, or None

vars == <<offered, latest, serving>>

Agreed(o, l) == IF o = l THEN l ELSE None

Init == offered = None /\ latest = None /\ serving = None

\* A new generation is put forward: readers wait.
Offer(g) ==
    /\ offered' = g
    /\ UNCHANGED latest /\ serving' = Agreed(g, latest)

\* The generation put forward becomes the one readers get.
Commit ==
    /\ offered # None
    /\ latest' = offered /\ serving' = offered
    /\ UNCHANGED offered

\* The record of the last commit is lost.
Forget ==
    /\ latest' = None /\ serving' = None
    /\ UNCHANGED offered

Next == (\E g \in Gens \cup {None} : Offer(g)) \/ Commit \/ Forget

Spec == Init /\ [][Next]_vars
=============================================================================
