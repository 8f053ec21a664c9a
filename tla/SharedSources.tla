---------------------------- MODULE SharedSources ----------------------------
(***************************************************************************)
(* SharedRefreshService.run (bk_crowns/refresh.py) and the conditional     *)
(* requests of PublicFetcher.get (bk_crowns/fetch.py).  A body is kept in  *)
(* the generation that downloaded it; status.json keeps, per resource, the *)
(* validator of the last response and the path of that body.  A 304 is     *)
(* usable only while the file is there, and old generations are pruned.    *)
(***************************************************************************)
EXTENDS Naturals

CONSTANTS
    MaxVersion,  \* bound: versions of each public page
    MaxGen,      \* bound: published generations
    Retention,   \* SNAPSHOT_RETENTION
    Incomplete   \* the versions of the tiers page that miss rewards

ASSUME BoundAssumption == MaxVersion \in Nat \ {0} /\ MaxGen \in Nat
ASSUME RetentionAssumption == Retention \in Nat \ {0}
ASSUME IncompleteAssumption == Incomplete \subseteq 1..MaxVersion

Resources == {"restaurants", "tiers", "cgu"}
Version == 0..MaxVersion           \* 0: no file, no validator
NoFiles == [res \in Resources |-> 0]
NoCache == [res \in Resources |-> [etag |-> 0, gen |-> 0]]

VARIABLES
    remote,   \* the version of each page its server answers with
    raw,      \* snapshots/<id>/raw: the version each generation holds
    cache,    \* status.cache: the validator, and the generation of raw_path
    last,     \* the last published generation
    pc,       \* the resource run fetches next, "publish" or "idle"
    draft     \* run's local cache, and the files of its staging directory

vars == <<remote, raw, cache, last, pc, draft>>

Init ==
    /\ remote = [res \in Resources |-> 1]
    /\ raw = [g \in 1..MaxGen |-> NoFiles]
    /\ cache = NoCache /\ last = 0
    /\ pc = "idle" /\ draft = [cache |-> NoCache, files |-> NoFiles]

\* get, 304: the validator still names the version the server has.
NotModified(res) == draft.cache[res].etag = remote[res]

\* The local copy raw_path names, 0 when the file is gone.
Copy(res) == LET g == draft.cache[res].gen IN IF g = 0 THEN 0 ELSE raw[g][res]

\* Mutant: raw_path stays on the generation that holds the previous copy.
StoreOldPath(res, body, etag) ==
    draft' = [cache |-> [draft.cache EXCEPT ![res] =
                           [etag |-> etag,
                            gen |-> IF draft.cache[res].gen = 0 THEN last + 1
                                    ELSE draft.cache[res].gen]],
              files |-> [draft.files EXCEPT ![res] = body]]

\* fetch, in run: write the body, remember the validator and the new path.
Store(res, body, etag) ==
    draft' = [cache |-> [draft.cache EXCEPT ![res] = [etag |-> etag, gen |-> last + 1]],
              files |-> [draft.files EXCEPT ![res] = body]]

\* choose_reward_source: the tiers page will do if it lists enough rewards.
Complete(body) == body \notin Incomplete

\* Where run goes once it has this body: the terms only when tiers miss some.
After(res, body) ==
    CASE res = "restaurants" -> "tiers"
      [] res = "tiers" -> IF Complete(body) THEN "publish" ELSE "cgu"
      [] res = "cgu" -> "publish"

Begin ==
    /\ pc = "idle" /\ last < MaxGen
    /\ pc' = "restaurants" /\ draft' = [cache |-> cache, files |-> NoFiles]
    /\ UNCHANGED <<remote, raw, cache, last>>

\* 200: servers may send no validator.
FetchBody(res) ==
    /\ pc = res /\ ~NotModified(res)
    /\ \E etag \in {0, remote[res]} : Store(res, remote[res], etag)
    /\ pc' = After(res, remote[res])
    /\ UNCHANGED <<remote, raw, cache, last>>

\* Mutant: a body kept from an earlier refresh is used without asking.
ReuseAnyCopy(res) ==
    /\ pc = res /\ Copy(res) # 0
    /\ Store(res, Copy(res), draft.cache[res].etag)
    /\ pc' = After(res, Copy(res))
    /\ UNCHANGED <<remote, raw, cache, last>>

\* 304 with the local copy.
ReuseCopy(res) ==
    /\ pc = res /\ NotModified(res) /\ Copy(res) # 0
    /\ Store(res, Copy(res), draft.cache[res].etag)
    /\ pc' = After(res, Copy(res))
    /\ UNCHANGED <<remote, raw, cache, last>>

\* Any failure, 304 without a local copy included: the status keeps its cache.
Fail ==
    /\ pc # "idle" /\ pc' = "idle"
    /\ UNCHANGED <<remote, raw, cache, last, draft>>

\* publish and _prune, undisturbed: the newest generations remain.
Kept == {g \in 1..last + 1 : g + Retention > last + 1}

Publish ==
    /\ pc = "publish" /\ pc' = "idle"
    /\ last' = last + 1 /\ cache' = draft.cache
    /\ raw' = [g \in 1..MaxGen |->
                 IF g = last + 1 THEN draft.files
                 ELSE IF g \in Kept THEN raw[g] ELSE NoFiles]
    /\ UNCHANGED <<remote, draft>>

\* A public page changes.
PageChanges ==
    /\ \E res \in Resources, v \in 1..MaxVersion :
         v # remote[res] /\ remote' = [remote EXCEPT ![res] = v]
    /\ UNCHANGED <<raw, cache, last, pc, draft>>

Next ==
    \/ Begin \/ Fail \/ Publish \/ PageChanges
    \/ \E res \in Resources : FetchBody(res) \/ ReuseCopy(res)

Spec == Init /\ [][Next]_vars
------------------------------------------------------------------------------
Cache == [Resources -> [etag : Version, gen : 0..MaxGen]]
Files == [Resources -> Version]

TypeOK ==
    /\ remote \in [Resources -> 1..MaxVersion]
    /\ raw \in [1..MaxGen -> Files]
    /\ cache \in Cache /\ last \in 0..MaxGen
    /\ pc \in Resources \cup {"idle", "publish"}
    /\ draft \in [cache : Cache, files : Files]

\* The copy a validator's raw_path names is the version the validator names,
\* or is gone: a 304 never resurrects the body of another version.
CopyMatchesValidator ==
    \A res \in Resources :
        LET c == cache[res] IN
        c.etag # 0 => c.gen \in 1..last /\ raw[c.gen][res] \in {0, c.etag}

\* The two resources that every refresh downloads always have the copy that
\* their conditional request relies on.
CopyKept ==
    \A res \in {"restaurants", "tiers"} :
        cache[res].etag # 0 => raw[cache[res].gen][res] # 0

\* What run holds for a resource it has downloaded in this refresh.
Fetched(res) ==
    /\ draft.cache[res].gen = last + 1
    /\ draft.files[res] # 0 /\ draft.cache[res].etag \in {0, draft.files[res]}

\* What run holds for a resource it has not asked for yet.
Untouched(res) == draft.cache[res] = cache[res]

\* While a refresh runs, its local cache describes either the files of its own
\* staging directory or exactly what status.json says, and by the time it may
\* publish the two required resources are of the first kind.
DraftSound ==
    pc # "idle" =>
        /\ last < MaxGen
        /\ IF pc = "restaurants" THEN Untouched("restaurants") ELSE Fetched("restaurants")
        /\ IF pc \in {"restaurants", "tiers"} THEN Untouched("tiers") ELSE Fetched("tiers")
        /\ Untouched("cgu") \/ (pc = "publish" /\ Fetched("cgu"))

\* Every body a refresh goes on with is the one the server had when asked.
FetchIsCurrent ==
    [][\A res \in Resources :
         pc = res /\ pc' \notin {res, "idle"} => draft'.files[res] = remote[res]]_vars

\* rewards_parser.choose_reward_source, "falling back to the public loyalty
\* terms": when the tiers page is incomplete and the terms are reachable, the
\* refresh can go on.
FallbackUsable ==
    pc = "cgu" => (NotModified("cgu") => Copy("cgu") # 0)
=============================================================================
