-------------------------------- MODULE Fetch --------------------------------
(***************************************************************************)
(* PublicFetcher.get (bk_crowns/fetch.py): up to three attempts, each of   *)
(* which follows up to four hops and reads a bounded body, against a       *)
(* server that may answer anything, while the process may be told to stop. *)
(* Opening a response and reading a chunk each block: httpx bounds every   *)
(* phase of them by its timeout, and nothing bounds their sum.             *)
(***************************************************************************)
EXTENDS Naturals

CONSTANTS
    Attempts,   \* range(3) in get
    Hops,       \* range(4) in _request
    Limit       \* MAX_RESPONSE_BYTES, in chunks

ASSUME SizeAssumption == {Attempts, Hops} \subseteq Nat \ {0} /\ Limit \in Nat

VARIABLES
    fetching,  \* where get, _request or _read_limited stands, or the outcome
    attempt, hop, size,
    stop,      \* the stop_event
    requests,  \* history: requests sent, counted up to one too many
    late       \* history: blocking operations that ended after the stop, up to 2

fetchVars == <<fetching, attempt, hop, size, stop, requests, late>>

Outcomes == {"body", "copy", "failed", "cancelled"}

FetchInit ==
    /\ fetching = "begin" /\ attempt = 0 /\ hop = 0 /\ size = 0
    /\ stop \in BOOLEAN
    /\ requests = 0 /\ late = 0

Blocked == late' = IF stop /\ late < 2 THEN late + 1 ELSE late

\* _ensure_running, on the way to a step.
Running(step) == fetching' = IF stop THEN "cancelled" ELSE step

Begin ==
    /\ fetching = "begin" /\ Running("hop")
    /\ UNCHANGED <<attempt, hop, size, stop, requests, late>>

\* Mutant: a redirection does not use up a hop.
HopForFree ==
    /\ fetching = "hop" /\ hop < Hops
    /\ Running("open")
    /\ UNCHANGED <<attempt, hop, size, stop, requests, late>>

NextHop ==
    /\ fetching = "hop" /\ hop < Hops
    /\ Running("open") /\ hop' = hop + 1
    /\ UNCHANGED <<attempt, size, stop, requests, late>>

TooManyHops ==
    /\ fetching = "hop" /\ hop = Hops /\ fetching' = "failed"
    /\ UNCHANGED <<attempt, hop, size, stop, requests, late>>

\* The request goes out: headers arrive, or a transport error.
Open ==
    /\ fetching = "open" /\ Blocked
    /\ fetching' \in {"opened", "retry"}
    /\ requests' = IF requests > Attempts * Hops THEN requests ELSE requests + 1
    /\ size' = 0
    /\ UNCHANGED <<attempt, hop, stop>>

\* A safe redirection, a refused one or a declared length over the limit, or
\* a body to read.
Opened ==
    /\ fetching = "opened"
    /\ \E step \in {"hop", "failed", "read"} : Running(step)
    /\ UNCHANGED <<attempt, hop, size, stop, requests, late>>

\* A chunk, the end of the body, or a transport error.
Read ==
    /\ fetching = "read" /\ Blocked
    /\ fetching' \in {"chunk", "answer", "retry"}
    /\ UNCHANGED <<attempt, hop, size, stop, requests>>

\* Mutant: the loop over chunks does not look at the stop event.
ChunkUnchecked ==
    /\ fetching = "chunk"
    /\ fetching' = (IF size = Limit THEN "failed" ELSE "read")
    /\ size' = IF size < Limit THEN size + 1 ELSE size
    /\ UNCHANGED <<attempt, hop, stop, requests, late>>

Chunk ==
    /\ fetching = "chunk"
    /\ Running(IF size = Limit THEN "failed" ELSE "read")
    /\ size' = IF size < Limit THEN size + 1 ELSE size
    /\ UNCHANGED <<attempt, hop, stop, requests, late>>

\* 304 with the local copy, 304 without it or another status, a transient
\* status, 200.
Answer ==
    /\ fetching = "answer"
    /\ fetching' \in {"copy", "failed", "retry"} \cup (IF size > 0 THEN {"body"} ELSE {})
    /\ UNCHANGED <<attempt, hop, size, stop, requests, late>>

Retry ==
    /\ fetching = "retry"
    /\ fetching' = IF attempt + 1 < Attempts THEN "backoff" ELSE "failed"
    /\ UNCHANGED <<attempt, hop, size, stop, requests, late>>

\* Mutant: get starts the next attempt without counting this one.
BackoffUncounted ==
    /\ fetching = "backoff"
    /\ Running("hop")
    /\ hop' = 0
    /\ UNCHANGED <<attempt, size, stop, requests, late>>

\* _backoff waits on the stop event: a stop interrupts it.
Backoff ==
    /\ fetching = "backoff"
    /\ Running("hop")
    /\ attempt' = attempt + 1 /\ hop' = 0
    /\ UNCHANGED <<size, stop, requests, late>>

Stop ==
    /\ ~stop /\ fetching \notin Outcomes
    /\ stop' = TRUE
    /\ UNCHANGED <<fetching, attempt, hop, size, requests, late>>

Get ==
    \/ Begin \/ NextHop \/ TooManyHops \/ Open \/ Opened
    \/ Read \/ Chunk \/ Answer \/ Retry \/ Backoff

FetchNext == Get \/ Stop

FetchSpec == FetchInit /\ [][FetchNext]_fetchVars

\* Every phase of an operation of httpx has a timeout and the backoff is finite.
FairFetch == FetchSpec /\ WF_fetchVars(Get)
------------------------------------------------------------------------------
TypeOK ==
    /\ fetching \in {"begin", "hop", "open", "opened", "read", "chunk", "answer",
                     "retry", "backoff"} \cup Outcomes
    /\ attempt \in 0..Attempts - 1 /\ hop \in 0..Hops /\ size \in 0..Limit
    /\ stop \in BOOLEAN
    /\ requests \in Nat /\ late \in Nat

\* After a stop, get ends at most one blocking operation before it returns or
\* raises, wherever the stop found it: what the joins of run_http_service wait for
\* is never a body in many chunks, another hop, another attempt or a backoff.
StopIsPrompt == late <= 1

\* README, "trois tentatives maximum": whatever the server answers, one call
\* sends at most Attempts * Hops requests.
Polite == requests <= Attempts * Hops

\* One call always ends, against a server that redirects or fails for ever.
Ends == <>(fetching \in Outcomes)
=============================================================================
