---------------------------- MODULE SnapshotStore ----------------------------
(***************************************************************************)
(* One SnapshotStore of bk_crowns/state.py: a directory of immutable       *)
(* generations, the pointer file current.json, the public link and         *)
(* status.json.  A single refresh transaction (bk_crowns/refresh.py)       *)
(* writes it at a time; HTTP threads read it without any lock; every write *)
(* may raise OSError and the process may die between any two of them.      *)
(***************************************************************************)
EXTENDS Naturals, FiniteSets

CONSTANTS
    Gens,          \* snapshot identifiers; their order is the order of names
    Retention,     \* SNAPSHOT_RETENTION
    PublicLink,    \* TRUE for the shared store, FALSE for a restaurant store
    MonotoneClock, \* identifiers are wall-clock stamps: does the clock go back?
    Readers,       \* threads that read the store
    MaxCrashes,    \* bound: process deaths in a behaviour
    MaxFaults      \* bound: OSErrors in a behaviour

ASSUME GensAssumption == Gens \subseteq Nat \ {0}
ASSUME RetentionAssumption == Retention \in Nat \ {0}
ASSUME SwitchAssumption == PublicLink \in BOOLEAN /\ MonotoneClock \in BOOLEAN
ASSUME BoundAssumption == MaxCrashes \in Nat /\ MaxFaults \in Nat

None == 0          \* no pointer, no link, no generation
Maybe == Gens \cup {None}

VARIABLES
    dirs,      \* snapshots/<id>: "absent", "partial" (rmtree under way) or "complete"
    pointer,   \* current.json
    link,      \* the public symlink
    status,    \* status.json: its snapshot_id, and whether it carries last_error
    stagings,  \* how many .refresh-* directories the store holds
    pc,        \* where the refresh transaction stands
    gen,       \* the identifier it publishes
    previous,  \* publish's local: the generation a rollback restores
    rpc,       \* where each reader stands
    seen,      \* the generation each reader resolved
    crashes, faults,
    before,    \* history: the generation served when publish took over
    prior,     \* history: the committed generation when publish took over
    committed, \* history: generations that publish has not withdrawn
    missed     \* history: generations committed since a reader resolved its own

disk == <<dirs, pointer, link, status, stagings>>
local == <<gen, previous>>
reading == <<rpc, seen, missed>>
history == <<before, prior, committed>>
counters == <<crashes, faults>>
vars == <<disk, pc, local, reading, history, counters>>

Present == {g \in Gens : dirs[g] # "absent"}

\* current_path: the pointer, if it names a directory; StateError is None.
CurrentPath == IF pointer # None /\ pointer \in Present THEN pointer ELSE None

\* is_ready, read at one instant: pointer, status and required files agree.
Served ==
    IF pointer # None /\ status.snapshot = pointer /\ dirs[pointer] = "complete"
    THEN pointer ELSE None

\* Mutants of _prune: it forgets to keep the current generation, keeps one too
\* many, keeps the current one only, or forgets reverse=True.
NewestOnly  == {s \in Present : Cardinality({t \in Present : t > s}) < Retention}
OneMore     == {s \in Present : Cardinality({t \in Present : t > s}) <= Retention}
CurrentOnly == {CurrentPath} \ {None}
OldestKept  ==
    LET others == Present \ {CurrentPath}
    IN  {CurrentPath} \cup {s \in others :
          Cardinality({t \in others : t < s}) < Retention - 1}

\* _prune's retained set: the current generation, then the newest names.
Retained ==
    LET kept   == {CurrentPath} \ {None}
        others == Present \ kept
    IN  kept \cup {s \in others :
          Cardinality({t \in others : t > s}) < Retention - Cardinality(kept)}

Doomed == Present \ Retained

Init ==
    /\ dirs = [g \in Gens |-> "absent"]
    /\ pointer = None /\ link = None
    /\ status = [snapshot |-> None, error |-> FALSE]
    /\ stagings = 0
    /\ pc = "idle" /\ gen = None /\ previous = None
    /\ rpc = [r \in Readers |-> "idle"]
    /\ seen = [r \in Readers |-> None]
    /\ crashes = 0 /\ faults = 0
    /\ before = None /\ prior = None /\ committed = {}
    /\ missed = [r \in Readers |-> 0]
------------------------------------------------------------------------------
(* The refresh transaction, up to publish.                                 *)

\* run: draw a wall-clock identifier, create the staging directory and read
\* the previous status.
BeginRefresh(g) ==
    /\ pc = "idle"
    /\ MonotoneClock => \A s \in Present \cup {status.snapshot} : g > s
    /\ gen' = g /\ stagings' = stagings + 1 /\ pc' = "staged"
    /\ UNCHANGED <<dirs, pointer, link, status, previous, reading, history, counters>>

\* status.json cannot be read: create_staging ran, the try has not begun.
BeginFault ==
    /\ pc = "idle" /\ faults < MaxFaults
    /\ stagings' = stagings + 1 /\ faults' = faults + 1
    /\ UNCHANGED <<dirs, pointer, link, status, pc, local, reading, history, crashes>>

\* Any exception before the staging directory is moved: a fetch, parse or
\* threshold failure, _validate_staging, a clash of identifiers, os.replace.
AbandonRefresh ==
    /\ pc = "staged"
    /\ stagings' = stagings - 1 /\ pc' = "recording"
    /\ UNCHANGED <<dirs, pointer, link, status, local, reading, history, counters>>

\* cleanup itself raises: the handler ends there and nothing is recorded.
CleanupFault ==
    /\ pc = "staged" /\ faults < MaxFaults
    /\ faults' = faults + 1 /\ pc' = "idle"
    /\ UNCHANGED <<disk, local, reading, history, crashes>>

\* Mutant: the transaction forgets that it has cleaned up, or to clean up.
CancelTwice ==
    /\ pc = "staged"
    /\ stagings' = stagings - 1
    /\ UNCHANGED <<dirs, pointer, link, status, pc, local, reading, history, counters>>
CancelLeaks ==
    /\ pc = "staged" /\ pc' = "idle"
    /\ UNCHANGED <<disk, local, reading, history, counters>>

\* FetchCancelled: clean up, record nothing.
CancelRefresh ==
    /\ pc = "staged"
    /\ stagings' = stagings - 1 /\ pc' = "idle"
    /\ UNCHANGED <<dirs, pointer, link, status, local, reading, history, counters>>

\* store.record_failure, keeping the snapshot of the previous status.
RecordFailure ==
    /\ pc = "recording"
    /\ status' = [status EXCEPT !.error = TRUE] /\ pc' = "idle"
    /\ UNCHANGED <<dirs, pointer, link, stagings, local, reading, history, counters>>

\* load_status raises inside record_failure: the failure is written over an
\* empty Status, which forgets the snapshot.
RecordBlind ==
    /\ pc = "recording" /\ faults < MaxFaults
    /\ status' = [snapshot |-> None, error |-> TRUE] /\ pc' = "idle"
    /\ faults' = faults + 1
    /\ UNCHANGED <<dirs, pointer, link, stagings, local, reading, history, crashes>>

RecordFault ==
    /\ pc = "recording" /\ faults < MaxFaults
    /\ faults' = faults + 1 /\ pc' = "idle"
    /\ UNCHANGED <<disk, local, reading, history, crashes>>
------------------------------------------------------------------------------
(* publish.                                                                *)

MoveStaging ==
    /\ pc = "staged" /\ gen \notin Present
    /\ previous' = CurrentPath
    /\ dirs' = [dirs EXCEPT ![gen] = "complete"]
    /\ stagings' = stagings - 1
    /\ pc' = "moved"
    /\ before' = Served /\ prior' = status.snapshot
    /\ UNCHANGED <<pointer, link, status, gen, reading, committed, counters>>

\* Mutant: the status is emptied first, so that nobody reads the store meanwhile.
PointerUnready ==
    /\ pc = "moved"
    /\ status' = [snapshot |-> None, error |-> status.error]
    /\ pointer' = gen /\ pc' = "pointed"
    /\ UNCHANGED <<dirs, link, stagings, local, reading, history, counters>>

WritePointer ==
    /\ pc = "moved"
    /\ pointer' = gen /\ pc' = "pointed"
    /\ UNCHANGED <<dirs, link, status, stagings, local, reading, history, counters>>

ReplaceLink ==
    /\ pc = "pointed"
    /\ link' = IF PublicLink THEN gen ELSE link
    /\ pc' = "linked"
    /\ UNCHANGED <<dirs, pointer, status, stagings, local, reading, history, counters>>

WriteStatus ==
    /\ pc = "linked"
    /\ status' = [snapshot |-> gen, error |-> FALSE] /\ pc' = "pruning"
    /\ committed' = committed \cup {gen}
    /\ missed' = [r \in Readers |-> IF seen[r] # gen /\ missed[r] < Retention
                                    THEN missed[r] + 1 ELSE missed[r]]
    /\ UNCHANGED <<dirs, pointer, link, stagings, local, rpc, seen,
                   before, prior, counters>>

\* A write raises before it took effect, or current.json after it did.
PublishFault ==
    /\ pc \in {"moved", "pointed", "linked"} /\ faults < MaxFaults
    /\ faults' = faults + 1 /\ pc' = "restoring"
    /\ UNCHANGED <<disk, local, reading, history, crashes>>

\* atomic_write_json replaces status.json, then its finally raises: publish
\* withdraws a generation that the status goes on naming.
StatusFault ==
    /\ pc = "linked" /\ faults < MaxFaults
    /\ status' = [snapshot |-> gen, error |-> FALSE] /\ pc' = "restoring"
    /\ committed' = committed \ {gen} /\ faults' = faults + 1
    /\ UNCHANGED <<dirs, pointer, link, stagings, local, reading, before, prior, crashes>>

\* Mutant: the rollback leaves the pointer where publish put it.
PointerNotRestored ==
    /\ pc = "restoring" /\ pc' = "relinking"
    /\ UNCHANGED <<disk, local, reading, history, counters>>

\* _restore_pointer, first half: rewrite or unlink current.json.
RestorePointer ==
    /\ pc = "restoring"
    /\ pointer' = previous /\ pc' = "relinking"
    /\ UNCHANGED <<dirs, link, status, stagings, local, reading, history, counters>>

\* _restore_pointer, second half.
RestoreLink ==
    /\ pc = "relinking"
    /\ link' = IF PublicLink THEN previous ELSE link
    /\ pc' = "discarding"
    /\ UNCHANGED <<dirs, pointer, status, stagings, local, reading, history, counters>>

\* "échec du rollback après publication": the new directory is left in place.
RestoreFault ==
    /\ pc \in {"restoring", "relinking"} /\ faults < MaxFaults
    /\ faults' = faults + 1 /\ pc' = "recording"
    /\ UNCHANGED <<disk, local, reading, history, crashes>>

\* shutil.rmtree is not atomic: files go first, then the directory.
Unlink(g) ==
    dirs' = [dirs EXCEPT ![g] = IF @ = "complete" THEN "partial" ELSE "absent"]

Discard ==
    /\ pc = "discarding"
    /\ Unlink(gen)
    /\ pc' = IF dirs[gen] = "complete" THEN "discarding" ELSE "recording"
    /\ UNCHANGED <<pointer, link, status, stagings, local, reading, history, counters>>

\* rmtree(..., ignore_errors=True): what could not be deleted stays.
DiscardFault ==
    /\ pc = "discarding" /\ faults < MaxFaults
    /\ faults' = faults + 1 /\ pc' = "recording"
    /\ UNCHANGED <<disk, local, reading, history, crashes>>

PruneOne ==
    /\ pc = "pruning" /\ Doomed # {}
    /\ \E s \in Doomed : (\A t \in Doomed : t <= s) /\ Unlink(s)
    /\ UNCHANGED <<pointer, link, status, stagings, pc, local, reading, history, counters>>

PruneDone ==
    /\ pc = "pruning" /\ Doomed = {}
    /\ pc' = "idle"
    /\ UNCHANGED <<disk, local, reading, history, counters>>

\* _prune runs outside publish's try: the published refresh counts as failed.
PruneFault ==
    /\ pc = "pruning" /\ faults < MaxFaults
    /\ faults' = faults + 1 /\ pc' = "recording"
    /\ UNCHANGED <<disk, local, reading, history, crashes>>
------------------------------------------------------------------------------
(* Readers: _normalized_document and _restaurant_data.                     *)

\* is_ready, first file: current_path.
ReadPointer(r) ==
    /\ rpc[r] = "idle"
    /\ seen' = [seen EXCEPT ![r] = CurrentPath]
    /\ rpc' = [rpc EXCEPT ![r] = IF CurrentPath = None THEN "idle" ELSE "pointed"]
    /\ UNCHANGED <<disk, pc, local, missed, history, counters>>

\* is_ready, second file: status.json.
ReadStatus(r) ==
    /\ rpc[r] = "pointed"
    /\ rpc' = [rpc EXCEPT ![r] = IF status.snapshot = seen[r] THEN "agreed" ELSE "idle"]
    /\ UNCHANGED <<disk, pc, local, seen, missed, history, counters>>

\* is_ready, at last: the required paths.
CheckPaths(r) ==
    /\ rpc[r] = "agreed"
    /\ rpc' = [rpc EXCEPT ![r] = IF dirs[seen[r]] = "complete" THEN "ready" ELSE "idle"]
    /\ UNCHANGED <<disk, pc, local, seen, missed, history, counters>>

\* current_path again, to build the path of the document.
Resolve(r) ==
    /\ rpc[r] = "ready"
    /\ seen' = [seen EXCEPT ![r] = CurrentPath]
    /\ missed' = [missed EXCEPT ![r] = 0]
    /\ rpc' = [rpc EXCEPT ![r] = IF CurrentPath = None THEN "idle" ELSE "resolved"]
    /\ UNCHANGED <<disk, pc, local, history, counters>>

\* read_text or read_bytes of the document.
Load(r) ==
    /\ rpc[r] = "resolved"
    /\ rpc' = [rpc EXCEPT ![r] = "idle"]
    /\ UNCHANGED <<disk, pc, local, seen, missed, history, counters>>
------------------------------------------------------------------------------
\* The process dies and is started again: only the disk survives, and no
\* start-up code sweeps staging directories or half-removed generations.
Crash ==
    /\ pc # "idle" /\ crashes < MaxCrashes
    /\ crashes' = crashes + 1
    /\ pc' = "idle" /\ gen' = None /\ previous' = None
    /\ rpc' = [r \in Readers |-> "idle"]
    /\ seen' = [r \in Readers |-> None]
    /\ UNCHANGED <<disk, missed, history, faults>>

Publish ==
    \/ MoveStaging \/ WritePointer \/ ReplaceLink \/ WriteStatus
    \/ RestorePointer \/ RestoreLink \/ Discard
    \/ PruneOne \/ PruneDone

Writer ==
    \/ \E g \in Gens : BeginRefresh(g)
    \/ AbandonRefresh \/ CancelRefresh \/ RecordFailure
    \/ Publish

Fault ==
    \/ BeginFault \/ CleanupFault \/ RecordBlind \/ RecordFault
    \/ PublishFault \/ StatusFault \/ RestoreFault \/ DiscardFault \/ PruneFault

Reader(r) ==
    ReadPointer(r) \/ ReadStatus(r) \/ CheckPaths(r) \/ Resolve(r) \/ Load(r)

Next == Writer \/ Fault \/ Crash \/ \E r \in Readers : Reader(r)

Spec == Init /\ [][Next]_vars

\* The thread that runs publish is never preempted for ever.
FairSpec == Spec /\ WF_vars(Publish)
------------------------------------------------------------------------------
\* Where publish has moved its generation and has not yet settled its fate.
Unsettled == {"moved", "pointed", "linked", "restoring", "relinking", "discarding"}

TypeOK ==
    /\ dirs \in [Gens -> {"absent", "partial", "complete"}]
    /\ pointer \in Maybe /\ link \in Maybe
    /\ status \in [snapshot : Maybe, error : BOOLEAN]
    /\ stagings \in Nat
    /\ pc \in {"idle", "staged", "recording", "moved", "pointed", "linked",
               "restoring", "relinking", "discarding", "pruning"}
    /\ gen \in Maybe /\ previous \in Maybe
    /\ rpc \in [Readers -> {"idle", "pointed", "agreed", "ready", "resolved"}]
    /\ seen \in [Readers -> Maybe]
    /\ crashes \in Nat /\ faults \in Nat
    /\ before \in Maybe /\ prior \in Maybe /\ committed \subseteq Gens
    /\ missed \in [Readers -> Nat]

\* status.json names a generation whose publication raised: StatusFault.
Torn == status.snapshot \notin committed \cup {None}

\* What each point of publish and of its rollback relies on: the generation
\* under publication is whole and never the one to go back to, which is whole;
\* status.json has not moved since publish took over, but for a rollback whose
\* fault fell after it was replaced, and then it names the withdrawn generation.
Protocol ==
    /\ pc = "staged" => stagings > 0
    /\ pc \notin {"idle", "recording"} => gen \in Gens
    /\ ~PublicLink => link = None
    /\ pc \in Unsettled =>
         /\ gen # previous /\ (status.snapshot = gen => Torn)
         /\ status.snapshot # prior =>
              /\ status.snapshot = gen
              /\ pc \in {"restoring", "relinking", "discarding"}
         /\ previous # None => dirs[previous] = "complete"
         /\ before = IF previous = prior THEN prior ELSE None
         /\ dirs[gen] = "complete" \/ pc = "discarding"
    /\ pc \in {"pointed", "linked", "pruning"} => pointer = gen
    /\ pc \in {"relinking", "discarding"} => pointer = previous
    /\ pc \in {"linked", "pruning"} /\ PublicLink => link = gen
    /\ pc = "discarding" /\ PublicLink => link = previous
    /\ pc = "pruning" => status.snapshot = gen /\ ~Torn

\* Whatever fault or crash interrupts publish, rollback or prune, the pointer
\* and the public link never name a generation that is missing or half removed,
\* and the status names one only if its own publication was withdrawn by a fault
\* that fell after status.json was replaced.
NothingDangles ==
    \A g \in {pointer, link} \cup ({status.snapshot} \cap committed) :
        g # None => dirs[g] = "complete"

\* When rollback starts to delete the generation it withdraws, the pointer is
\* back and readers are served exactly what they were served before publish;
\* only where status.json already names the withdrawn generation they are served
\* nothing at all, and never the generation about to be deleted.
RollbackRestores ==
    pc = "discarding" =>
        /\ pointer = previous
        /\ Served = IF status.snapshot = gen THEN None ELSE before

\* A staging directory left behind is always the trace of a crash or of an
\* OSError: the ordinary failures, cancellations and publications remove theirs.
StagingAccounted ==
    stagings <= crashes + faults + (IF pc = "staged" THEN 1 ELSE 0)

\* Publications that no crash and no OSError disturbed leave at most Retention
\* generations, even when the wall clock steps back between two of them.
RetentionBound ==
    pc = "idle" /\ crashes = 0 /\ faults = 0 => Cardinality(Present) <= Retention

\* A reader that resolved a committed generation still finds its files while
\* fewer than Retention newer generations were committed: _prune may not pull
\* a generation from under an HTTP thread as soon as it is replaced.
ReaderKeepsGeneration ==
    \A r \in Readers :
        rpc[r] = "resolved" /\ seen[r] \in committed /\ missed[r] < Retention
            => dirs[seen[r]] = "complete"

\* README, "Deux générations par entrée sont conservées": when _prune ends, the
\* generation that was committed before this publication is still there.
PreviousKept ==
    [][pc = "pruning" /\ pc' = "idle" /\ prior \in committed /\ faults' = faults
        => dirs'[prior] = "complete"]_vars

\* README, "Un snapshot vide, partiel ou incohérent ne remplace jamais la
\* dernière version valide": with no refresh under way, a store that committed
\* a version serves one, whatever crash interrupted an earlier refresh.
ValidVersionServed == pc = "idle" /\ committed # {} => Served # None

\* Without crash and with at most one OSError, the unready window that a
\* publication opens always closes on a served generation, unless the OSError
\* fell after status.json was replaced.
WindowCloses == (status.snapshot # None) ~> (Served # None \/ Torn)

\* What a store promises its readers: see ServedGeneration.
Promise == INSTANCE ServedGeneration
             WITH offered <- pointer, latest <- status.snapshot, serving <- Served

\* Every step of publish, rollback, prune, failure recording and crash is a
\* step of the promise or leaves what readers are served alone.
KeepsPromise == Promise!Spec
=============================================================================
