----------------------------- MODULE Coordinator -----------------------------
(***************************************************************************)
(* RefreshCoordinator (bk_crowns/coordinator.py) and the RestaurantCache   *)
(* (bk_crowns/cache.py) it drives.  HTTP threads call request and status   *)
(* under one lock; a single worker thread takes identifiers from a bounded *)
(* queue, refreshes them outside the lock and evicts the least recently    *)
(* used snapshots; the main thread stops both; the process may die.        *)
(***************************************************************************)
EXTENDS Integers, Sequences, SequencesExt, FiniteSets, FiniteSetsExt

CONSTANTS
    Ids,          \* the restaurants of the validated directory
    NoId,         \* None: no active restaurant, and the sentinel of the queue
    QueueMax,     \* refresh_queue_max
    CacheMax,     \* cache_max_restaurants
    ColdMax,      \* cold_loads_per_hour
    Hour,         \* the rolling window, in ticks
    BaseDelay, MaxDelay,   \* 30 and 900 seconds, in ticks
    MaxTime, MaxFailures, MaxRestarts, MaxFaults  \* bounds of the model

ASSUME IdsAssumption == NoId \notin Ids /\ IsFiniteSet(Ids)
ASSUME SizeAssumption == {QueueMax, CacheMax, ColdMax, Hour} \subseteq Nat \ {0}
ASSUME DelayAssumption == BaseDelay \in Nat /\ MaxDelay \in Nat
ASSUME BoundAssumption == {MaxTime, MaxFailures, MaxRestarts, MaxFaults} \subseteq Nat

VARIABLES
    queue, queued, pendingOrder, active,   \* _queue, _queued, _pending_order, _active_id
    coldAdmissions,                        \* _cold_admissions
    cancel,     \* the stop_event the refresh services poll
    stopping,   \* _stop_event, set with _accepting = False
    cleared,    \* stop() has emptied the pending sets
    wpc,        \* where the worker thread stands
    item,       \* its local restaurant_id
    before,     \* its local before.consecutive_failures
    snap,       \* each restaurant's snapshot: "none", "stale" or "fresh"
    retry, failures,   \* retry_after (0: None) and consecutive_failures
    lru,        \* cache-index.json, least recently used first
    now, restarts, faults,
    coldLog,    \* history: the cold admissions of the last Hour, by any process
    notBefore,  \* history: when the last failure allows the next attempt
    cancelled   \* history: the worker's current exception is FetchCancelled

pending == <<queue, queued, pendingOrder, active>>
worker == <<wpc, item, before, cancelled>>
status == <<retry, failures, notBefore>>
stop == <<cancel, stopping, cleared>>
cold == <<coldAdmissions, coldLog>>
counters == <<now, restarts, faults>>
vars == <<pending, worker, status, stop, cold, counters, snap, lru>>

\* failure_delay
Delay(n) == LET d == BaseDelay * 2 ^ (IF n > 0 THEN n - 1 ELSE 0)
            IN  IF d < MaxDelay THEN d ELSE MaxDelay

\* The elements of s that lie in S, in the order they have in s.
Kept(s, S) ==
    LET places == {i \in DOMAIN s : s[i] \in S}
        Nth(k) == CHOOSE i \in places : Cardinality(places \cap 1..i) = k
    IN  [k \in 1..Cardinality(places) |-> s[Nth(k)]]

\* What is left of a log at time t once popleft has dropped the admissions before
\* the first one of the window.
Unexpired(log, t) ==
    LET recent == {i \in DOMAIN log : log[i] > t - Hour}
    IN  SubSeq(log, Min(recent \cup {Len(log) + 1}), Len(log))

\* Mutant: the window closes one tick early.
RecentShort(log) == Unexpired(log, now + 1)

\* _cold_retry_after drops what has left the window.
Recent(log) == Unexpired(log, now)

Touched(id) == Append(RemoveFirst(lru, id), id)

Protected == queued \cup ({active} \ {NoId})

\* Mutants of evict: it keeps one entry too many, ignores the protected set, or
\* sorts the candidates from the most recent.
VictimsOneLess(protected) ==
    {lru[i] : i \in {i \in DOMAIN lru :
        /\ lru[i] \notin protected
        /\ Cardinality({j \in 1..i : lru[j] \notin protected}) < Len(lru) - CacheMax}}
VictimsUnprotected(protected) == {lru[i] : i \in 1..(Len(lru) - CacheMax)}
VictimsNewest(protected) ==
    {lru[i] : i \in {i \in DOMAIN lru :
        /\ lru[i] \notin protected
        /\ Cardinality({j \in i..Len(lru) : lru[j] \notin protected}) <= Len(lru) - CacheMax}}

\* evict: the oldest unprotected entries, one for each entry that is too many.
Victims(protected) ==
    {lru[i] : i \in {i \in DOMAIN lru :
        /\ lru[i] \notin protected
        /\ Cardinality({j \in 1..i : lru[j] \notin protected}) <= Len(lru) - CacheMax}}

Init ==
    /\ queue = <<>> /\ queued = {} /\ pendingOrder = <<>> /\ active = NoId
    /\ coldAdmissions = <<>> /\ coldLog = <<>>
    /\ cancel = FALSE /\ stopping = FALSE /\ cleared = FALSE
    /\ wpc = "check" /\ item = NoId /\ before = 0 /\ cancelled = FALSE
    /\ snap = [id \in Ids |-> "none"]
    /\ retry = [id \in Ids |-> 0] /\ failures = [id \in Ids |-> 0]
    /\ notBefore = [id \in Ids |-> 0]
    /\ lru = <<>>
    /\ now = 0 /\ restarts = 0 /\ faults = 0
------------------------------------------------------------------------------
(* HTTP threads.  The refusals that change nothing are stuttering steps.   *)

RequestFresh(id) ==
    /\ ~stopping /\ snap[id] = "fresh"
    /\ lru' = Touched(id)
    /\ UNCHANGED <<pending, worker, status, stop, cold, counters, snap>>

\* Mutant: request does not look for the identifier in the pending set.
AdmissibleTwice(id) ==
    /\ ~stopping /\ snap[id] # "fresh"
    /\ retry[id] <= now
    /\ Len(queue) < QueueMax

\* The conditions request checks before the hourly quota, in its order.
Admissible(id) ==
    /\ ~stopping /\ snap[id] # "fresh"
    /\ id \notin queued
    /\ retry[id] <= now
    /\ Len(queue) < QueueMax

Admit(id) ==
    /\ Admissible(id)
    /\ IF snap[id] = "none"
       THEN /\ Len(Recent(coldAdmissions)) < ColdMax
            /\ coldAdmissions' = Append(Recent(coldAdmissions), now)
            /\ coldLog' = Append(coldLog, now)
       ELSE UNCHANGED cold
    /\ queued' = queued \cup {id}
    /\ pendingOrder' = Append(pendingOrder, id)
    /\ queue' = Append(queue, id)
    /\ UNCHANGED <<active, worker, status, stop, counters, snap, lru>>

RateLimit(id) ==
    /\ Admissible(id) /\ snap[id] = "none"
    /\ Len(Recent(coldAdmissions)) >= ColdMax
    /\ coldAdmissions' = Recent(coldAdmissions)
    /\ UNCHANGED <<pending, worker, status, stop, coldLog, counters, snap, lru>>

\* status(): a poll forgets the admissions that left the window.
Status(id) ==
    /\ id \notin Protected /\ snap[id] = "none"
    /\ coldAdmissions' = Recent(coldAdmissions)
    /\ UNCHANGED <<pending, worker, status, stop, coldLog, counters, snap, lru>>
------------------------------------------------------------------------------
(* _run, the worker thread.                                                *)

\* Mutant: the worker relies on the sentinel alone to stop.
CheckNothing ==
    /\ wpc = "check" /\ wpc' = "get"
    /\ UNCHANGED <<pending, item, before, cancelled, status, stop, cold, counters, snap, lru>>

Check ==
    /\ wpc = "check"
    /\ wpc' = IF stopping THEN "exited" ELSE "get"
    /\ UNCHANGED <<pending, item, before, cancelled, status, stop, cold, counters, snap, lru>>

Get ==
    /\ wpc = "get" /\ queue # <<>>
    /\ item' = Head(queue) /\ queue' = Tail(queue)
    /\ wpc' = IF Head(queue) = NoId THEN "exited" ELSE "got"
    /\ UNCHANGED <<queued, pendingOrder, active, before, cancelled,
                   status, stop, cold, counters, snap, lru>>

GetTimeout ==
    /\ wpc = "get" /\ queue = <<>>
    /\ wpc' = "check"
    /\ UNCHANGED <<pending, item, before, cancelled, status, stop, cold, counters, snap, lru>>

Activate ==
    /\ wpc = "got"
    /\ active' = item /\ before' = failures[item] /\ wpc' = "running"
    /\ UNCHANGED <<queue, queued, pendingOrder, item, cancelled,
                   status, stop, cold, counters, snap, lru>>

\* load_status raises outside the try: the thread dies holding its entry.
ActivateFault ==
    /\ wpc = "got" /\ faults < MaxFaults
    /\ active' = item /\ wpc' = "dead" /\ faults' = faults + 1
    /\ UNCHANGED <<queue, queued, pendingOrder, item, before, cancelled,
                   status, stop, cold, now, restarts, snap, lru>>

\* refresh_one returns: the new status carries no failure and no retry_after.
RefreshDone ==
    /\ wpc = "running"
    /\ snap' = [snap EXCEPT ![item] = "fresh"]
    /\ failures' = [failures EXCEPT ![item] = 0]
    /\ retry' = [retry EXCEPT ![item] = 0]
    /\ notBefore' = [notBefore EXCEPT ![item] = 0]
    /\ wpc' = "touch"
    /\ UNCHANGED <<pending, item, before, cancelled, stop, cold, counters, lru>>

\* refresh_one raises after its own record_failure, which clears retry_after.
RefreshFailed ==
    /\ wpc = "running" /\ failures[item] < MaxFailures
    /\ failures' = [failures EXCEPT ![item] = @ + 1]
    /\ retry' = [retry EXCEPT ![item] = 0]
    /\ wpc' = "failing"
    /\ UNCHANGED <<pending, item, before, cancelled, notBefore, stop, cold, counters, snap, lru>>

\* refresh_one raises without a record: FetchCancelled once the stop_event is
\* set, or no shared data, or a restaurant that left the directory.
RefreshRefused ==
    /\ wpc = "running" /\ failures[item] < MaxFailures
    /\ cancelled' = cancel
    /\ wpc' = "failing"
    /\ UNCHANGED <<pending, item, before, status, stop, cold, counters, snap, lru>>

\* publish succeeds, then _prune raises: the new status becomes a failure.
RefreshHalfDone ==
    /\ wpc = "running" /\ faults < MaxFaults
    /\ snap' = [snap EXCEPT ![item] = "fresh"]
    /\ failures' = [failures EXCEPT ![item] = 1]
    /\ retry' = [retry EXCEPT ![item] = 0]
    /\ wpc' = "failing" /\ faults' = faults + 1
    /\ UNCHANGED <<pending, item, before, cancelled, notBefore, stop, cold, now, restarts, lru>>

Touch ==
    /\ wpc = "touch"
    /\ lru' = Touched(item) /\ wpc' = "finally"
    /\ UNCHANGED <<pending, item, before, cancelled, status, stop, cold, counters, snap>>

\* _save raises after the entry was updated: a success becomes a failure.
TouchFault ==
    /\ wpc = "touch" /\ faults < MaxFaults
    /\ lru' = Touched(item) /\ wpc' = "failing" /\ faults' = faults + 1
    /\ UNCHANGED <<pending, item, before, cancelled, status, stop, cold, now, restarts, snap>>

\* _record_worker_failure counts the failure unless refresh_one did.
Counted == IF failures[item] <= before THEN failures[item] + 1 ELSE failures[item]

\* Mutant: the delay is computed from the count before this failure.
RecordWithOldCount ==
    /\ wpc = "failing"
    /\ failures' = [failures EXCEPT ![item] = Counted]
    /\ retry' = [retry EXCEPT ![item] = now + Delay(before)]
    /\ notBefore' = [notBefore EXCEPT ![item] = now + Delay(Counted)]
    /\ wpc' = "finally" /\ cancelled' = FALSE
    /\ UNCHANGED <<pending, item, before, stop, cold, counters, snap, lru>>

RecordWorkerFailure ==
    /\ wpc = "failing"
    /\ failures' = [failures EXCEPT ![item] = Counted]
    /\ retry' = [retry EXCEPT ![item] = now + Delay(Counted)]
    /\ notBefore' = [notBefore EXCEPT ![item] = now + Delay(Counted)]
    /\ wpc' = "finally" /\ cancelled' = FALSE
    /\ UNCHANGED <<pending, item, before, stop, cold, counters, snap, lru>>

\* It raises in the except clause, before or after record_failure wrote.
RecordWorkerFault ==
    /\ wpc = "failing" /\ faults < MaxFaults
    /\ \/ UNCHANGED <<failures, retry>>
       \/ /\ failures' = [failures EXCEPT ![item] = Counted]
          /\ retry' = [retry EXCEPT ![item] = 0]
    /\ wpc' = "unwinding" /\ cancelled' = FALSE /\ faults' = faults + 1
    /\ UNCHANGED <<pending, item, before, notBefore, stop, cold, now, restarts, snap, lru>>

\* Mutant: the pending set keeps the restaurant.
ReleaseKeepsPending ==
    /\ wpc \in {"finally", "unwinding"}
    /\ active' = NoId /\ item' = NoId /\ before' = 0
    /\ queued' = queued
    /\ pendingOrder' = RemoveFirst(pendingOrder, item)

\* The finally clause, up to the eviction.
Release ==
    /\ wpc \in {"finally", "unwinding"}
    /\ active' = NoId
    /\ queued' = queued \ {item}
    /\ pendingOrder' = RemoveFirst(pendingOrder, item)
    /\ item' = NoId /\ before' = 0

\* remove_restaurant deletes a whole directory, its status included.
Deleted(ids) ==
    /\ snap' = [id \in Ids |-> IF id \in ids THEN "none" ELSE snap[id]]
    /\ failures' = [id \in Ids |-> IF id \in ids THEN 0 ELSE failures[id]]
    /\ retry' = [id \in Ids |-> IF id \in ids THEN 0 ELSE retry[id]]

\* Mutant: evicted entries stay in the index.
EvictDiskOnly(victims) == Deleted(victims) /\ UNCHANGED lru

EvictAll(victims) == Deleted(victims) /\ lru' = Kept(lru, Ids \ victims)

Finish ==
    /\ Release
    /\ EvictAll(Victims(queued \ {item}))
    /\ wpc' = IF wpc = "finally" THEN "check" ELSE "dead"
    /\ UNCHANGED <<queue, cancelled, notBefore, stop, cold, counters>>

\* A poll builds the victim's SnapshotStore, without the lock, and so makes its
\* snapshots/ again under the rmtree, whose last rmdir raises: the thread dies
\* after it released its entry.  The files of the victim are gone, its index
\* entry stays; the victims before it are gone altogether.
FinishRaced ==
    /\ Release
    /\ LET victims == Victims(queued \ {item})
       IN  \E i \in DOMAIN lru :
             /\ lru[i] \in victims
             /\ Deleted(victims \cap ToSet(SubSeq(lru, 1, i)))
             /\ lru' = Kept(lru, Ids \ (victims \cap ToSet(SubSeq(lru, 1, i - 1))))
    /\ wpc' = "dead"
    /\ UNCHANGED <<queue, cancelled, notBefore, stop, cold, counters>>

\* The disk fails under remove_restaurant: the files of this victim may be gone
\* or not.
FinishFault ==
    /\ Release
    /\ faults < MaxFaults /\ faults' = faults + 1
    /\ LET victims == Victims(queued \ {item})
       IN  \E i \in DOMAIN lru : \E pointer, record \in SUBSET {lru[i]} :
             LET whole == victims \cap ToSet(SubSeq(lru, 1, i - 1))
                 noStatus == whole \cup record
             IN  /\ lru[i] \in victims
                 /\ snap' = [id \in Ids |-> CASE id \in whole \cup pointer -> "none"
                                            [] id \in record \ pointer -> "stale"
                                            [] OTHER -> snap[id]]
                 /\ failures' = [id \in Ids |-> IF id \in noStatus THEN 0 ELSE failures[id]]
                 /\ retry' = [id \in Ids |-> IF id \in noStatus THEN 0 ELSE retry[id]]
                 /\ lru' = Kept(lru, Ids \ whole)
    /\ wpc' = "dead"
    /\ UNCHANGED <<queue, cancelled, notBefore, stop, cold, now, restarts>>
------------------------------------------------------------------------------
(* The main thread.                                                        *)

\* scheduler.request_stop sets the event that the refresh services poll,
\* before the coordinator hears of the stop.
CancelFetches ==
    /\ ~cancel /\ cancel' = TRUE
    /\ UNCHANGED <<pending, worker, status, stopping, cleared, cold, counters, snap, lru>>

\* Mutant: the sentinel is put whether or not there is room for it.
StopOverfills ==
    /\ cancel /\ ~stopping /\ stopping' = TRUE
    /\ queue' = Append(queue, NoId)
    /\ UNCHANGED <<queued, pendingOrder, active, worker, status, cancel, cleared,
                   cold, counters, snap, lru>>

RequestStop ==
    /\ cancel /\ ~stopping /\ stopping' = TRUE
    /\ queue' = IF Len(queue) < QueueMax THEN Append(queue, NoId) ELSE queue
    /\ UNCHANGED <<queued, pendingOrder, active, worker, status, cancel, cleared,
                   cold, counters, snap, lru>>

\* stop, after join: it returned, or timed out on a worker still alive.
ClearPending ==
    /\ stopping /\ ~cleared /\ cleared' = TRUE
    /\ queued' = {} /\ pendingOrder' = <<>>
    /\ active' = IF wpc \in {"exited", "dead"} THEN NoId ELSE active
    /\ UNCHANGED <<queue, worker, status, cancel, stopping, cold, counters, snap, lru>>
------------------------------------------------------------------------------
(* The environment.                                                        *)

\* Six hours pass, or a new shared snapshot is published.
GoStale ==
    /\ \E S \in SUBSET {id \in Ids : snap[id] = "fresh"} :
         /\ S # {}
         /\ snap' = [id \in Ids |-> IF id \in S THEN "stale" ELSE snap[id]]
    /\ UNCHANGED <<pending, worker, status, stop, cold, counters, lru>>

Tick ==
    /\ now < MaxTime /\ now' = now + 1
    /\ coldLog' = Unexpired(coldLog, now')
    /\ UNCHANGED <<pending, worker, status, stop, coldAdmissions, restarts, faults, snap, lru>>

\* The process ends, however it ends, and is started again: disk survives, and
\* RestaurantCache._load keeps the entries of ready snapshots and adds the others,
\* at the age of their last success, wherever that falls between the entries kept.
Restart ==
    /\ restarts < MaxRestarts /\ restarts' = restarts + 1
    /\ queue' = <<>> /\ queued' = {} /\ pendingOrder' = <<>> /\ active' = NoId
    /\ coldAdmissions' = <<>>
    /\ cancel' = FALSE /\ stopping' = FALSE /\ cleared' = FALSE
    /\ wpc' = "check" /\ item' = NoId /\ before' = 0 /\ cancelled' = FALSE
    /\ LET ready == {id \in Ids : snap[id] # "none"}
       IN  \E loaded \in [1..Cardinality(ready) -> ready] :
             /\ IsInjective(loaded) /\ ToSet(loaded) = ready
             /\ Kept(loaded, ToSet(lru)) = Kept(lru, ready)
             /\ lru' = loaded
    /\ UNCHANGED <<status, snap, coldLog, now, faults>>

Request(id) == RequestFresh(id) \/ Admit(id) \/ RateLimit(id) \/ Status(id)

Work ==
    \/ Check \/ Get \/ GetTimeout \/ Activate
    \/ RefreshDone \/ RefreshFailed \/ RefreshRefused
    \/ Touch \/ RecordWorkerFailure \/ Finish \/ FinishRaced

Fault ==
    \/ ActivateFault \/ RefreshHalfDone \/ TouchFault \/ RecordWorkerFault
    \/ FinishFault

Stop == CancelFetches \/ RequestStop \/ ClearPending

Next == (\E id \in Ids : Request(id)) \/ Work \/ Fault \/ Stop \/ GoStale \/ Tick \/ Restart

Spec == Init /\ [][Next]_vars
------------------------------------------------------------------------------
TypeOK ==
    /\ queue \in Seq(Ids \cup {NoId}) /\ Len(queue) <= QueueMax
    /\ queued \subseteq Ids /\ pendingOrder \in Seq(Ids) /\ active \in Ids \cup {NoId}
    /\ coldAdmissions \in Seq(Nat) /\ coldLog \in Seq(Nat)
    /\ {cancel, stopping, cleared, cancelled} \subseteq BOOLEAN
    /\ wpc \in {"check", "get", "got", "running", "touch", "failing",
                "finally", "unwinding", "exited", "dead"}
    /\ item \in Ids \cup {NoId} /\ before \in Nat
    /\ snap \in [Ids -> {"none", "stale", "fresh"}]
    /\ retry \in [Ids -> Nat] /\ failures \in [Ids -> Nat] /\ notBefore \in [Ids -> Nat]
    /\ lru \in Seq(Ids)
    /\ {now, restarts, faults} \subseteq Nat

Held == IF item = NoId THEN <<>> ELSE <<item>>
Waiting == IF queue # <<>> /\ Last(queue) = NoId THEN Front(queue) ELSE queue
Cached == {id \in Ids : snap[id] # "none"}

\* README, "une entrée en file par restaurant": the queue, the pending set and
\* the displayed order always tell the same story, the restaurant in the
\* worker's hands first, until stop() empties the last two.
QueueAgreement ==
    ~cleared =>
        /\ pendingOrder = Held \o Waiting
        /\ queued = ToSet(pendingOrder) /\ IsInjective(pendingOrder)

\* README, "six nouveaux chargements à froid par fenêtre glissante d'une heure":
\* whatever polls, failures and evictions, and for one process.
ColdQuota == restarts = 0 => Len(coldLog) <= ColdMax

\* Between two refreshes the cache index lists exactly the snapshots on disk:
\* none is out of reach of the eviction, none is listed after its deletion, not
\* even when a restart reads back the index of an eviction that failed half-way.
IndexMatchesDisk ==
    /\ IsInjective(lru)
    /\ wpc # "dead" => ToSet(lru) \subseteq Cached
    /\ wpc \in {"check", "get", "got"} /\ faults = 0 => ToSet(lru) = Cached

\* README, "cache LRU limité à 20 restaurants": whatever restarts and OSErrors
\* came before, an eviction that completes leaves the limit respected, or only
\* restaurants with pending work in the cache.
CacheBound ==
    [][wpc = "finally" /\ wpc' = "check" /\ restarts' = restarts
         => Len(lru') <= CacheMax \/ ToSet(lru') \subseteq Protected']_vars

\* A snapshot is never evicted while its restaurant is queued or active.
PendingNeverEvicted ==
    [][\A id \in Ids : snap[id] # "none" /\ snap'[id] = "none"
         => id \notin Protected \/ id = item]_vars

\* The eviction that ends a refresh takes the snapshot this refresh has loaded
\* only if the cache stays full without it, of restaurants with pending work or
\* asked for since it was touched.
FreshSurvives ==
    [][wpc = "finally" /\ wpc' = "check" /\ snap[item] # "none" /\ snap'[item] = "none"
         => /\ Len(lru') >= CacheMax
            /\ \A i, j \in DOMAIN lru :
                 i < j /\ lru[j] = item => lru[i] \in Protected' \/ lru[i] \notin ToSet(lru')]_vars

\* In one process and without an OSError, no refresh starts before the delay its
\* last failure imposed, unless an eviction has deleted the record of this delay
\* together with the snapshot.
BackoffRespected ==
    [][active' \in Ids /\ active' # active /\ restarts = 0 /\ faults = 0
         => \/ notBefore[active'] <= now
            \/ failures[active'] = 0 /\ snap[active'] = "none"]_vars

\* An admitted restaurant always leaves the pending set, unless the eviction of
\* an earlier one killed the worker.
Drains == \A id \in Ids : []<>(id \notin queued \/ wpc = "dead")

\* request_stop always ends the worker thread, even when the queue is full,
\* unless it had died or the whole process ends first and another one starts.
StopEndsWorker == []<>(wpc \in {"exited", "dead"} \/ ~stopping)

\* tests/test_refresh.py:231, "cancelled ... without recording error": a refresh
\* that shutdown cancels does not count as a failure of its restaurant.
CancelIsNotFailure == [][cancelled => failures' = failures]_vars

\* What HTTP clients see of the pending work: see ServiceLine.
Line == INSTANCE ServiceLine WITH
          line <- pendingOrder, serving <- active, closed <- cleared

\* The pending work is one line, served in order, one restaurant at a time.
ServesInOrder == Line!Spec
=============================================================================
