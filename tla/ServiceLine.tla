----------------------------- MODULE ServiceLine -----------------------------
(***************************************************************************)
(* What RefreshCoordinator promises of its pending work: a line of         *)
(* distinct restaurants, served one at a time, first come first served;    *)
(* the position a page shows is the real one.  Closing the line empties it *)
(* while a last restaurant may still be served.                            *)
(***************************************************************************)
EXTENDS Naturals, Sequences, SequencesExt

CONSTANTS Ids, NoId

VARIABLES
    line,      \* who waits, the one being served first
    serving,   \* who is being served, or NoId
    closed

vars == <<line, serving, closed>>

Init == line = <<>> /\ serving = NoId /\ closed = FALSE

Join(id) ==
    /\ ~closed /\ id \notin ToSet(line)
    /\ line' = Append(line, id)
    /\ UNCHANGED <<serving, closed>>

Serve ==
    /\ ~closed /\ line # <<>> /\ serving = NoId
    /\ serving' = Head(line)
    /\ UNCHANGED <<line, closed>>

Leave ==
    /\ ~closed /\ line # <<>> /\ serving = Head(line)
    /\ line' = Tail(line) /\ serving' = NoId
    /\ UNCHANGED closed

Close ==
    /\ closed' = TRUE /\ line' = <<>>
    /\ serving' \in {serving, NoId}

\* The restaurant already taken from the line when it closed.
ServeLast ==
    /\ closed /\ serving' \in Ids \cup {NoId}
    /\ UNCHANGED <<line, closed>>

Reopen == line' = <<>> /\ serving' = NoId /\ closed' = FALSE

Next ==
    \/ \E id \in Ids : Join(id)
    \/ Serve \/ Leave \/ Close \/ ServeLast \/ Reopen

Spec == Init /\ [][Next]_vars
------------------------------------------------------------------------------
Precedes(s, a, b) == \E i, j \in DOMAIN s : i < j /\ s[i] = a /\ s[j] = b

\* Whoever stands before b in the line stood there when b joined: no step lets
\* anybody overtake.
NobodyOvertakes ==
    [][\A a, b \in ToSet(line') :
         Precedes(line', a, b) /\ b \in ToSet(line) => Precedes(line, a, b)]_vars
=============================================================================
