----------------------------- MODULE FetchProofs -----------------------------
(***************************************************************************)
(* PublicFetcher.get is prompt to stop and polite, for every number of     *)
(* attempts, of hops and of chunks.                                        *)
(***************************************************************************)
EXTENDS Fetch, TLAPS

USE SizeAssumption

\* The backoff is entered while attempts are left.
Typed == TypeOK /\ (fetching = "backoff" => attempt + 1 < Attempts)

LEMMA NextTyped == Typed /\ [FetchNext]_fetchVars => Typed'
<1> SUFFICES ASSUME Typed, [FetchNext]_fetchVars PROVE Typed'
  OBVIOUS
<1> USE DEF Typed, TypeOK, Running, Blocked, Outcomes
<1>1. CASE Begin \/ NextHop \/ TooManyHops
  BY <1>1 DEF Begin, NextHop, TooManyHops
<1>2. CASE Open                   BY <1>2 DEF Open
<1>3. CASE Opened                 BY <1>3 DEF Opened
<1>4. CASE Read                   BY <1>4 DEF Read
<1>5. CASE Chunk                  BY <1>5 DEF Chunk
<1>6. CASE Answer \/ Retry        BY <1>6 DEF Answer, Retry
<1>7. CASE Backoff                BY <1>7 DEF Backoff
<1>8. CASE Stop                   BY <1>8 DEF Stop
<1>9. CASE UNCHANGED fetchVars    BY <1>9 DEF fetchVars
<1> QED
  BY <1>1, <1>2, <1>3, <1>4, <1>5, <1>6, <1>7, <1>8, <1>9 DEF FetchNext, Get

\* The variables keep their types: neither the attempts, nor the hops, nor the
\* body go over their limits.
THEOREM FetchTypeCorrect == FetchSpec => []TypeOK
<1>1. FetchInit => Typed
  <2>1. FetchInit => stop \in BOOLEAN
    BY DEF FetchInit
  <2>2. FetchInit => /\ fetching = "begin" /\ attempt \in 0..Attempts - 1
                     /\ hop \in 0..Hops /\ size \in 0..Limit
                     /\ requests \in Nat /\ late \in Nat
    BY DEF FetchInit
  <2> QED
    BY <2>1, <2>2 DEF Typed, TypeOK
<1>2. Typed => TypeOK
  BY DEF Typed
<1> QED
  BY <1>1, <1>2, NextTyped, PTL DEF FetchSpec
------------------------------------------------------------------------------
\* Where get may still send a request or read a chunk, no operation has ended
\* after the stop.
Prompt ==
    /\ late \in 0..1
    /\ late # 0 => stop
    /\ fetching \in {"open", "read"} => late = 0

LEMMA NextPrompt == Prompt /\ [FetchNext]_fetchVars => Prompt'
<1> SUFFICES ASSUME Prompt, [FetchNext]_fetchVars PROVE Prompt'
  OBVIOUS
<1> USE DEF Prompt, Running, Blocked
<1>1. CASE Begin \/ NextHop \/ TooManyHops
  BY <1>1 DEF Begin, NextHop, TooManyHops
<1>2. CASE Open \/ Read           BY <1>2 DEF Open, Read
<1>3. CASE Opened                 BY <1>3 DEF Opened
<1>4. CASE Chunk                  BY <1>4 DEF Chunk
<1>5. CASE Answer \/ Retry        BY <1>5 DEF Answer, Retry
<1>6. CASE Backoff                BY <1>6 DEF Backoff
<1>7. CASE Stop                   BY <1>7 DEF Stop, Outcomes
<1>8. CASE UNCHANGED fetchVars    BY <1>8 DEF fetchVars
<1> QED
  BY <1>1, <1>2, <1>3, <1>4, <1>5, <1>6, <1>7, <1>8 DEF FetchNext, Get

\* After a stop one blocking operation at most ends before get does.
THEOREM FetchStopsPromptly == FetchSpec => []StopIsPrompt
<1>1. FetchInit => Prompt
  BY DEF FetchInit, Prompt
<1>2. Prompt => StopIsPrompt
  BY DEF Prompt, StopIsPrompt
<1> QED
  BY <1>1, <1>2, NextPrompt, PTL DEF FetchSpec
------------------------------------------------------------------------------
\* Each attempt pays for at most Hops requests, and each hop for one.
Budget == attempt * Hops + (IF fetching = "open" THEN hop - 1 ELSE hop)

Paid ==
    /\ attempt \in Nat /\ hop \in 0..Hops /\ requests \in Nat
    /\ attempt < Attempts
    /\ fetching = "backoff" => attempt + 1 < Attempts
    /\ fetching = "open" => hop > 0
    /\ requests <= Budget

\* The budget of an attempt is within that of the whole call.
LEMMA AttemptWithinCall ==
  ASSUME NEW a \in Nat, a < Attempts
  PROVE  /\ a * Hops \in Nat /\ Attempts * Hops \in Nat
         /\ (a + 1) * Hops = a * Hops + Hops
         /\ (a + 1) * Hops <= Attempts * Hops
<1>1. Attempts \in Nat /\ Hops \in Nat
  OBVIOUS
<1>2. PICK k \in Nat : Attempts = a + 1 + k
  <2>1. Attempts - a - 1 \in Nat /\ Attempts = a + 1 + (Attempts - a - 1)
    BY <1>1
  <2> QED
    BY <2>1
<1>3. (a + 1 + k) * Hops = (a + 1) * Hops + k * Hops
  BY <1>1
<1>4. k * Hops \in Nat /\ a * Hops \in Nat /\ Attempts * Hops \in Nat
  BY <1>1
<1>5. (a + 1) * Hops = a * Hops + Hops
  BY <1>1
<1> QED
  BY <1>1, <1>2, <1>3, <1>4, <1>5

LEMMA NextPaid == Paid /\ [FetchNext]_fetchVars => Paid'
<1> SUFFICES ASSUME Paid, [FetchNext]_fetchVars PROVE Paid'
  OBVIOUS
<1> DEFINE before == attempt * Hops
<1>1. before \in Nat
  BY AttemptWithinCall DEF Paid
<1>2. CASE UNCHANGED <<attempt, hop, requests>> /\ fetching' \notin {"open", "backoff"}
                                               /\ fetching # "open"
  BY <1>1, <1>2 DEF Paid, Budget
<1>3. CASE Retry
  BY <1>1, <1>3 DEF Retry, Paid, Budget
<1>4. CASE NextHop
  BY <1>1, <1>4 DEF NextHop, Running, Paid, Budget
<1>5. CASE Open
  BY <1>1, <1>5 DEF Open, Paid, Budget
<1>6. CASE Backoff
  <2>1. (attempt + 1) * Hops = before + Hops
    BY AttemptWithinCall DEF Paid
  <2>2. /\ attempt' = attempt + 1 /\ hop' = 0 /\ requests' = requests
        /\ fetching' \in {"cancelled", "hop"} /\ fetching = "backoff"
    BY <1>6 DEF Backoff, Running
  <2>3. Budget' = before + Hops
    BY <2>1, <2>2 DEF Budget
  <2> QED
    BY <1>1, <2>2, <2>3 DEF Paid, Budget
<1>7. CASE Stop \/ UNCHANGED fetchVars
  BY <1>1, <1>7 DEF Stop, fetchVars, Paid, Budget
<1>8. Begin \/ TooManyHops \/ Opened \/ Read \/ Chunk \/ Answer
        => /\ UNCHANGED <<attempt, hop, requests>> /\ fetching' \notin {"open", "backoff"}
           /\ fetching # "open"
  BY DEF Begin, TooManyHops, Opened, Read, Chunk, Answer, Running
<1> QED
  BY <1>2, <1>3, <1>4, <1>5, <1>6, <1>7, <1>8 DEF FetchNext, Get

\* One call sends at most Attempts * Hops requests, whatever is answered.
THEOREM FetchIsPolite == FetchSpec => []Polite
<1>1. FetchInit => Paid
  BY DEF FetchInit, Paid, Budget
<1>2. Paid => Polite
  <2> SUFFICES ASSUME Paid PROVE requests <= Attempts * Hops
    BY DEF Polite
  <2>1. /\ attempt * Hops \in Nat /\ Attempts * Hops \in Nat
        /\ attempt * Hops + Hops <= Attempts * Hops
    BY AttemptWithinCall DEF Paid
  <2> QED
    BY <2>1 DEF Paid, Budget
<1> QED
  BY <1>1, <1>2, NextPaid, PTL DEF FetchSpec
------------------------------------------------------------------------------
(* One call always ends, but for the fairness.                              *)

\* How much of a hop is left: its step, then twice the chunks the body may have.
Place ==
    [begin |-> 8, open |-> 7, opened |-> 6, hop |-> 5, read |-> 4, chunk |-> 4, answer |-> 3,
     retry |-> 2, backoff |-> 1, body |-> 0, copy |-> 0, failed |-> 0, cancelled |-> 0][fetching]
ChunksLeft == 2 * (Limit - size) + (IF fetching = "read" THEN 1 ELSE 0)

\* A step of get uses up an attempt, or a hop of the same attempt, or a part of the
\* same hop.
Advances ==
    \/ attempt' > attempt
    \/ attempt' = attempt /\ hop' > hop
    \/ attempt' = attempt /\ hop' = hop /\ Place' < Place
    \/ attempt' = attempt /\ hop' = hop /\ Place' = Place /\ ChunksLeft' < ChunksLeft

\* The call advances with every step of its own; a stop elsewhere leaves it alone.
GetAdvances == [][Get => Advances]_fetchVars

\* Whatever the server answers, get never goes back: redirections use up hops,
\* transient failures attempts and chunks the limit of the body, and TypeOK bounds
\* each of the three.
THEOREM FetchAlwaysAdvances == FetchSpec => GetAdvances
<1>1. FetchInit => TypeOK
  BY SMT DEF FetchInit, TypeOK
<1>2. ASSUME TypeOK, Get
      PROVE  Advances
  <2> USE DEF TypeOK, Advances, Running
  <2>1. CASE Begin \/ TooManyHops
    BY <2>1 DEF Begin, TooManyHops, Place
  <2>2. CASE NextHop
    BY <1>2, <2>2 DEF NextHop
  <2>3. CASE Open
    BY <2>3 DEF Open, Place
  <2>4. CASE Opened
    BY <2>4 DEF Opened, Place
  <2>5. CASE Read
    <3>1. /\ fetching = "read" /\ fetching' \in {"chunk", "answer", "retry"}
          /\ UNCHANGED <<attempt, hop, size>>
      BY <2>5 DEF Read
    <3> QED BY <1>2, <3>1 DEF Place, ChunksLeft
  <2>6. CASE Chunk
    <3>1. /\ fetching = "chunk" /\ UNCHANGED <<attempt, hop>>
          /\ \/ fetching' \in {"failed", "cancelled"}
             \/ fetching' = "read" /\ size < Limit /\ size' = size + 1
      BY <1>2, <2>6 DEF Chunk
    <3> QED BY <1>2, <3>1 DEF Place, ChunksLeft
  <2>7. CASE Answer \/ Retry
    BY <2>7 DEF Answer, Retry, Place
  <2>8. CASE Backoff
    BY <1>2, <2>8 DEF Backoff
  <2> QED BY <1>2, <2>1, <2>2, <2>3, <2>4, <2>5, <2>6, <2>7, <2>8 DEF Get
<1>3. TypeOK /\ [FetchNext]_fetchVars => [Get => Advances]_fetchVars
  BY <1>2
<1> QED
  BY <1>3, FetchTypeCorrect, PTL DEF FetchSpec, GetAdvances
=============================================================================
