------------------------------ MODULE WaitingPage ------------------------------
(***************************************************************************)
(* The restaurant page: _selection and _restaurant_status of the HTTP      *)
(* server (bk_crowns/server.py) and the script of the waiting page         *)
(* (static/waiting.js), composed with the Coordinator.  A browser that     *)
(* finds no snapshot polls the status and reloads the page when the        *)
(* snapshot is ready or when the announced retry_after has passed: only a  *)
(* reload asks for the restaurant again.                                   *)
(***************************************************************************)
EXTENDS Coordinator

CONSTANT Patient   \* the restaurants whose visitor stays on the waiting page

ASSUME PatientAssumption == Patient \subseteq Ids

VARIABLE page   \* each restaurant's page, in a browser

browser == <<vars, page>>

\* "settled": no page is open, or the open one needs no poll; "loading": the GET
\* is on its way; "asked": request has returned; "waiting": the waiting page.
PageInit == Init /\ page = [id \in Ids |-> "settled"]

Turns(id, to) == page' = [page EXCEPT ![id] = to]
------------------------------------------------------------------------------
(* _selection: the decision of request, then a look at the store, unlocked. *)

\* serve_forever has returned before the coordinator clears its pending sets.
Open(id) ==
    /\ page[id] = "settled" /\ ~cleared /\ Turns(id, "loading")
    /\ UNCHANGED vars

\* request refuses: stopping, already queued, backing off, or the queue is full.
Refuse(id) ==
    /\ snap[id] # "fresh" \/ stopping
    /\ ~Admissible(id)
    /\ UNCHANGED vars

Ask(id) ==
    /\ page[id] = "loading" /\ Turns(id, "asked")
    /\ RequestFresh(id) \/ Admit(id) \/ RateLimit(id) \/ Refuse(id)

\* The directory is not ready: _selection answers 404, or request not_found after
\* _selection has found the restaurant.
NotFound(id) ==
    /\ page[id] = "loading"
    /\ \E to \in {"settled", "asked"} : Turns(id, to)
    /\ UNCHANGED vars

Answer(id) ==
    /\ page[id] = "asked"
    /\ Turns(id, IF snap[id] = "none" /\ id \in Patient THEN "waiting" ELSE "settled")
    /\ UNCHANGED vars
------------------------------------------------------------------------------
(* _restaurant_status and the poll of waiting.js.                           *)

QuotaFull(id) ==
    id \notin Protected /\ snap[id] = "none" /\ Len(Recent(coldAdmissions)) >= ColdMax

\* Mutant: the script waits for the snapshot alone.
ReloadsWhenReady(id) == snap[id] # "none"

\* The retry_after of the quota, always to come, replaces that of the record.
Reloads(id) ==
    \/ snap[id] # "none"
    \/ ~QuotaFull(id) /\ retry[id] # 0 /\ retry[id] <= now

Poll(id) ==
    /\ page[id] = "waiting" /\ ~cleared
    /\ Turns(id, IF Reloads(id) THEN "loading" ELSE page[id])
    /\ \/ Status(id)
       \/ (id \in Protected \/ snap[id] # "none") /\ UNCHANGED vars

Browse(id) == Ask(id) \/ NotFound(id) \/ Answer(id) \/ Poll(id)
------------------------------------------------------------------------------
(* The server, and time.                                                    *)

WorkerStep == Work /\ UNCHANGED page

\* A restart ends the requests under way, but a script outlives the polls that
\* find no server.
RestartStep ==
    /\ Restart
    /\ page' = [id \in Ids |-> IF page[id] \in {"loading", "asked"} THEN "settled" ELSE page[id]]

OtherStep == (Stop \/ GoStale) /\ UNCHANGED page

\* Only differences between times matter: at the bound the past slides instead.
Slide ==
    LET Back(t) == IF t > 1 THEN t - 1 ELSE t
        Older(t) == IF t > 0 THEN t - 1 ELSE 0
    IN  /\ now = MaxTime
        /\ retry' = [id \in Ids |-> Back(retry[id])]
        /\ notBefore' = [id \in Ids |-> Back(notBefore[id])]
        /\ coldAdmissions' = [i \in DOMAIN coldAdmissions |-> Older(coldAdmissions[i])]
        /\ coldLog' = Unexpired([i \in DOMAIN coldLog |-> Older(coldLog[i])], now)
        /\ UNCHANGED <<pending, worker, failures, stop, counters, snap, lru>>

TimePasses == (Tick \/ Slide) /\ UNCHANGED page

PageNext ==
    \/ \E id \in Ids : Open(id) \/ Browse(id)
    \/ WorkerStep \/ RestartStep \/ OtherStep \/ TimePasses

PageSpec == PageInit /\ [][PageNext]_browser

\* As for the Coordinator; a browser goes on with what it began, its script
\* polls every two seconds, and time passes.
FairPages ==
    /\ PageSpec
    /\ WF_browser(WorkerStep) /\ WF_browser(ClearPending /\ UNCHANGED page)
    /\ WF_browser(TimePasses)
    /\ \A id \in Ids : WF_browser(Browse(id))
------------------------------------------------------------------------------
\* What a waiting page may wait for: a pending refresh and a worker to do it, a
\* snapshot, or the end of a backoff on record.
Hope(id) == (id \in Protected /\ wpc # "dead") \/ snap[id] # "none" \/ retry[id] # 0

\* tests/test_generator.py:166, "waiting_script_reloads_when_a_public_backoff_
\* expires": a page that has something to wait for and keeps it comes back to the
\* server by itself, whatever polls, quota and failures happen.
PageComesBack ==
    \A id \in Patient : []<>(page[id] # "waiting" \/ ~Hope(id) \/ stopping)
=============================================================================
