------------------------- MODULE SharedSourcesProofs -------------------------
(***************************************************************************)
(* A conditional request of a shared refresh never brings back the body of *)
(* another version, and the two required resources always have the copy    *)
(* that a 304 needs: for every number of versions, generations, and every  *)
(* retention.                                                              *)
(***************************************************************************)
EXTENDS SharedSources, TLAPS

\* The copies CopyKept is about are those of the last generation, which
\* _prune never removes: this is what makes it inductive.
KeptInLast ==
    \A res \in {"restaurants", "tiers"} :
        cache[res].etag # 0 => cache[res].gen = last /\ raw[last][res] # 0

IInv == TypeOK /\ CopyMatchesValidator /\ KeptInLast /\ DraftSound

USE BoundAssumption, IncompleteAssumption

LEMMA InitIInv == Init => IInv
<1> SUFFICES ASSUME Init PROVE IInv
  OBVIOUS
<1>1. TypeOK
  BY DEF Init, TypeOK, NoCache, NoFiles, Cache, Files, Version, Resources
<1>2. CopyMatchesValidator /\ KeptInLast
  BY DEF Init, CopyMatchesValidator, KeptInLast, NoCache, Resources
<1>3. DraftSound
  BY DEF Init, DraftSound
<1> QED
  BY <1>1, <1>2, <1>3 DEF IInv

\* A refresh starts from what status.json says.
LEMMA BeginIInv == IInv /\ Begin => IInv'
<1> SUFFICES ASSUME IInv, Begin PROVE IInv'
  OBVIOUS
<1> USE DEF IInv, Begin
<1>1. TypeOK'
  BY DEF TypeOK, Files, NoFiles, Version, Resources
<1>2. CopyMatchesValidator' /\ KeptInLast'
  BY DEF CopyMatchesValidator, KeptInLast
<1>3. DraftSound'
  BY DEF DraftSound, Untouched
<1> QED
  BY <1>1, <1>2, <1>3

\* Storing a body the server has, under its validator or none, is sound.
LEMMA StoreSound ==
  ASSUME IInv, NEW res \in Resources, pc = res,
         NEW body \in 1..MaxVersion, NEW etag \in {0, body},
         Store(res, body, etag), pc' = After(res, body),
         UNCHANGED <<remote, raw, cache, last>>
  PROVE  IInv'
<1> USE DEF IInv, Resources
<1>1. last < MaxGen /\ pc # "idle"
  BY DEF DraftSound
<1>2. TypeOK'
  <2>1. draft.cache \in Cache /\ draft.files \in Files
    BY DEF TypeOK
  <2>2. [etag |-> etag, gen |-> last + 1] \in [etag : Version, gen : 0..MaxGen]
    BY <1>1 DEF TypeOK, Version
  <2>3. body \in Version
    BY DEF Version
  <2>4. [draft.cache EXCEPT ![res] = [etag |-> etag, gen |-> last + 1]] \in Cache
    BY <2>1, <2>2 DEF Cache
  <2>5. [draft.files EXCEPT ![res] = body] \in Files
    BY <2>1, <2>3 DEF Files
  <2>6. draft' \in [cache : Cache, files : Files]
    BY <2>4, <2>5 DEF Store
  <2>7. pc' \in Resources \cup {"idle", "publish"}
    BY DEF After, Complete
  <2> QED
    BY <2>6, <2>7 DEF TypeOK
<1>3. CopyMatchesValidator' /\ KeptInLast'
  BY DEF CopyMatchesValidator, KeptInLast
<1>4. Fetched(res)'
  BY DEF Fetched, Store, TypeOK, Cache, Files
<1>5. \A r \in Resources \ {res} : /\ draft'.cache[r] = draft.cache[r]
                                  /\ draft'.files[r] = draft.files[r]
  BY DEF Store, TypeOK, Cache, Files
<1>6. DraftSound'
  <2>1. CASE res = "restaurants"
    <3>1. pc' = "tiers"
      BY <2>1 DEF After, Complete
    <3>2. Untouched("tiers") /\ Untouched("cgu")
      BY <2>1 DEF DraftSound
    <3>3. Fetched("restaurants")' /\ Untouched("tiers")' /\ Untouched("cgu")'
      BY <2>1, <3>2, <1>4, <1>5 DEF Fetched, Untouched
    <3> QED
      BY <1>1, <3>1, <3>3 DEF DraftSound
  <2>2. CASE res = "tiers"
    <3>1. pc' \in {"cgu", "publish"}
      BY <2>2 DEF After, Complete
    <3>2. Fetched("restaurants") /\ Untouched("cgu")
      BY <2>2 DEF DraftSound
    <3>3. Fetched("restaurants")' /\ Fetched("tiers")' /\ Untouched("cgu")'
      BY <2>2, <3>2, <1>4, <1>5 DEF Fetched, Untouched
    <3> QED
      BY <1>1, <3>1, <3>3 DEF DraftSound
  <2>3. CASE res = "cgu"
    <3>1. pc' = "publish"
      BY <2>3 DEF After, Complete
    <3>2. Fetched("restaurants") /\ Fetched("tiers")
      BY <2>3 DEF DraftSound
    <3>3. Fetched("restaurants")' /\ Fetched("tiers")' /\ Fetched("cgu")'
      BY <2>3, <3>2, <1>4, <1>5 DEF Fetched, Untouched
    <3> QED
      BY <1>1, <3>1, <3>3 DEF DraftSound
  <2> QED
    BY <2>1, <2>2, <2>3
<1> QED
  BY <1>2, <1>3, <1>6

\* The copy a 304 brings back is the version the server has.
LEMMA CopyIsCurrent ==
  ASSUME IInv, NEW res \in Resources, ReuseCopy(res)
  PROVE  /\ Copy(res) = remote[res] /\ draft.cache[res].etag = remote[res]
         /\ remote[res] \in 1..MaxVersion
<1>1. draft.cache[res].etag = remote[res] /\ remote[res] \in 1..MaxVersion
  BY DEF ReuseCopy, NotModified, IInv, TypeOK
<1>2. Untouched(res)
  BY DEF ReuseCopy, IInv, DraftSound, Resources
<1>3. Copy(res) \in {0, draft.cache[res].etag}
  BY <1>1, <1>2 DEF Copy, Untouched, IInv, CopyMatchesValidator
<1> QED
  BY <1>1, <1>3 DEF ReuseCopy

\* Both answers of a server end in such a body.
LEMMA FetchIInv ==
  ASSUME IInv, NEW res \in Resources, FetchBody(res) \/ ReuseCopy(res)
  PROVE  IInv'
<1>1. CASE FetchBody(res)
  <2>1. remote[res] \in 1..MaxVersion
    BY DEF IInv, TypeOK
  <2>2. PICK etag \in {0, remote[res]} : Store(res, remote[res], etag)
    BY <1>1 DEF FetchBody
  <2> QED
    BY <1>1, <2>1, <2>2, StoreSound DEF FetchBody
<1>2. CASE ReuseCopy(res)
  <2> QED
    BY <1>2, CopyIsCurrent, StoreSound DEF ReuseCopy
<1> QED
  BY <1>1, <1>2

\* publish and _prune: the new generation is never pruned, and an older one is
\* kept whole or emptied.
LEMMA PublishIInv == IInv /\ Publish => IInv'
<1> SUFFICES ASSUME IInv, Publish PROVE IInv'
  OBVIOUS
<1> USE DEF IInv, Resources
<1>1. /\ last < MaxGen /\ last \in 0..MaxGen /\ last' = last + 1
      /\ Fetched("restaurants") /\ Fetched("tiers")
      /\ Fetched("cgu") \/ Untouched("cgu")
  BY DEF Publish, DraftSound, TypeOK
<1>2. TypeOK'
  BY <1>1 DEF Publish, TypeOK, NoFiles, Files, Version
<1>3. raw'[last + 1] = draft.files
  BY <1>1 DEF Publish
<1>4. \A g \in 1..last : raw'[g] \in {raw[g], NoFiles}
  BY <1>1 DEF Publish
<1>5. \A res \in Resources : Fetched(res) =>
        /\ cache'[res].gen = last' /\ raw'[last'][res] # 0
        /\ cache'[res].etag \in {0, raw'[last'][res]}
  BY <1>1, <1>3 DEF Publish, Fetched
<1>6. KeptInLast'
  BY <1>1, <1>5 DEF KeptInLast
<1>7. CopyMatchesValidator'
  <2> SUFFICES ASSUME NEW res \in Resources, cache'[res].etag # 0
               PROVE  /\ cache'[res].gen \in 1..last'
                      /\ raw'[cache'[res].gen][res] \in {0, cache'[res].etag}
    BY DEF CopyMatchesValidator
  <2>1. CASE Fetched(res)
    BY <1>1, <1>5, <2>1
  <2>2. CASE Untouched(res)
    <3>1. cache'[res] = cache[res]
      BY <2>2 DEF Publish, Untouched
    <3>2. cache[res].gen \in 1..last /\ raw[cache[res].gen][res] \in {0, cache[res].etag}
      BY <3>1 DEF CopyMatchesValidator
    <3>3. NoFiles[res] = 0
      BY DEF NoFiles
    <3> QED
      BY <1>1, <1>4, <3>1, <3>2, <3>3
  <2> QED
    BY <1>1, <2>1, <2>2
<1>8. DraftSound'
  BY DEF Publish, DraftSound
<1> QED
  BY <1>2, <1>6, <1>7, <1>8

LEMMA NextIInv == IInv /\ [Next]_vars => IInv'
<1> SUFFICES ASSUME IInv, [Next]_vars PROVE IInv'
  OBVIOUS
<1>1. CASE Fail
  BY <1>1 DEF Fail, IInv, TypeOK, CopyMatchesValidator, KeptInLast, DraftSound
<1>2. CASE PageChanges
  BY <1>2 DEF PageChanges, IInv, TypeOK, CopyMatchesValidator, KeptInLast,
              DraftSound, Fetched, Untouched
<1>3. CASE UNCHANGED vars
  BY <1>3 DEF vars, IInv, TypeOK, CopyMatchesValidator, KeptInLast,
              DraftSound, Fetched, Untouched
<1> QED
  BY <1>1, <1>2, <1>3, BeginIInv, FetchIInv, PublishIInv DEF Next

LEMMA Invariance == Spec => []IInv
BY InitIInv, NextIInv, PTL DEF Spec

\* The type invariant, for every bound.
THEOREM TypeCorrect == Spec => []TypeOK
BY Invariance, PTL DEF IInv

\* A 304 never resurrects the body of another version.
THEOREM NoOtherVersion == Spec => []CopyMatchesValidator
BY Invariance, PTL DEF IInv

\* The conditional requests for the two required resources always have their
\* local copy, whatever the retention: pruning cannot strand them.
THEOREM RequiredCopyKept == Spec => []CopyKept
<1>1. IInv => CopyKept
  BY DEF IInv, KeptInLast, CopyKept
<1> QED
  BY <1>1, Invariance, PTL

\* Every body a refresh goes on with is the one the server had when asked,
\* whether the server sent it or answered 304.
THEOREM FetchedIsCurrent == Spec => FetchIsCurrent
<1>1. ASSUME IInv, [Next]_vars, NEW res \in Resources, pc = res, pc' \notin {res, "idle"}
      PROVE  draft'.files[res] = remote[res]
  <2>1. PICK r \in Resources : FetchBody(r) \/ ReuseCopy(r)
    BY <1>1 DEF Next, vars, Begin, Fail, Publish, PageChanges, Resources
  <2>2. r = res
    BY <1>1, <2>1 DEF FetchBody, ReuseCopy
  <2>3. draft.files \in [Resources -> Version]
    BY <1>1 DEF IInv, TypeOK, Files
  <2>4. CASE FetchBody(res)
    BY <2>3, <2>4 DEF FetchBody, Store
  <2>5. CASE ReuseCopy(res)
    BY <1>1, <2>3, <2>5, CopyIsCurrent DEF ReuseCopy, Store
  <2> QED
    BY <2>1, <2>2, <2>4, <2>5
<1>2. IInv /\ [Next]_vars =>
        [\A res \in Resources :
           pc = res /\ pc' \notin {res, "idle"} => draft'.files[res] = remote[res]]_vars
  BY <1>1
<1> QED
  BY <1>2, Invariance, PTL DEF Spec, FetchIsCurrent
=============================================================================
