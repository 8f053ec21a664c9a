------------------------- MODULE SnapshotStoreProofs -------------------------
(***************************************************************************)
(* Theorems of SnapshotStore, for every set of identifiers, retention,     *)
(* number of readers, crashes and OSErrors.                                *)
(***************************************************************************)
EXTENDS SnapshotStore, FiniteSetTheorems, TLAPS

\* The inductive invariant: TypeOK and NothingDangles are not inductive alone,
\* since Discard and PruneOne are harmless only for what Protocol says of the
\* generation under publication and of the one to go back to.
IInv == TypeOK /\ Protocol /\ NothingDangles

\* The initial store is empty and its transaction idle.
LEMMA InitIInv == Init => IInv
<1> SUFFICES ASSUME Init PROVE IInv
  OBVIOUS
<1>1. TypeOK
  BY SwitchAssumption DEF Init, TypeOK, Maybe, None
<1>2. Protocol
  BY DEF Init, Protocol, Unsettled
<1>3. NothingDangles
  BY DEF Init, NothingDangles
<1> QED
  BY <1>1, <1>2, <1>3 DEF IInv

\* current_path raises or names a present generation; while nothing dangles it
\* names exactly what the pointer file does.
LEMMA CurrentPathIsPointer ==
  ASSUME TypeOK, NothingDangles
  PROVE  CurrentPath = pointer
BY GensAssumption DEF TypeOK, NothingDangles, CurrentPath, Present, Maybe, None

\* _prune never dooms the current generation.
LEMMA DoomedIsOld ==
  ASSUME TypeOK, NothingDangles, NEW s \in Doomed
  PROVE  s \in Gens /\ s # pointer
<1>1. pointer # None => pointer \in Retained
  BY CurrentPathIsPointer DEF Retained
<1>2. s \in Present /\ s \notin Retained /\ s \in Gens
  BY DEF Doomed, Present
<1> QED
  BY <1>1, <1>2, GensAssumption DEF None

USE GensAssumption

\* Up to the move of the staging directory, nothing that is named changes.
LEMMA BeforePublish ==
  ASSUME IInv,
         \/ \E g \in Gens : BeginRefresh(g)
         \/ BeginFault \/ CleanupFault \/ AbandonRefresh \/ CancelRefresh
         \/ RecordFailure \/ RecordBlind \/ RecordFault \/ Crash
  PROVE  IInv'
<1> USE DEF IInv, TypeOK, Protocol, NothingDangles, Torn, Maybe, None, Unsettled,
            disk, local, reading, history, counters
<1>1. CASE \E g \in Gens : BeginRefresh(g)  BY <1>1 DEF BeginRefresh
<1>2. CASE BeginFault                       BY <1>2 DEF BeginFault
<1>3. CASE CleanupFault                     BY <1>3 DEF CleanupFault
<1>4. CASE AbandonRefresh                   BY <1>4 DEF AbandonRefresh
<1>5. CASE CancelRefresh                    BY <1>5 DEF CancelRefresh
<1>6. CASE RecordFailure                    BY <1>6 DEF RecordFailure
<1>7. CASE RecordBlind                      BY <1>7 DEF RecordBlind
<1>8. CASE RecordFault                      BY <1>8 DEF RecordFault
<1>9. CASE Crash                            BY <1>9 DEF Crash
<1> QED
  BY <1>1, <1>2, <1>3, <1>4, <1>5, <1>6, <1>7, <1>8, <1>9

\* The forward half of publish.
LEMMA Publication ==
  ASSUME IInv,
         \/ MoveStaging \/ WritePointer \/ ReplaceLink \/ WriteStatus
         \/ PublishFault \/ StatusFault
  PROVE  IInv'
<1>0. CurrentPath = pointer
  BY CurrentPathIsPointer DEF IInv
<1> USE DEF IInv, TypeOK, Protocol, NothingDangles, Torn, Maybe, None, Unsettled,
            disk, local, reading, history, counters
<1>1. CASE MoveStaging
  BY <1>0, <1>1 DEF MoveStaging, Present, Served
<1>2. CASE WritePointer                     BY <1>2 DEF WritePointer
<1>3. CASE ReplaceLink                      BY <1>3 DEF ReplaceLink
<1>4. CASE WriteStatus                      BY <1>4 DEF WriteStatus
<1>5. CASE PublishFault                     BY <1>5 DEF PublishFault
<1>6. CASE StatusFault                      BY <1>6 DEF StatusFault
<1> QED
  BY <1>1, <1>2, <1>3, <1>4, <1>5, <1>6

\* The rollback, and the deletion of the generation it withdraws.
LEMMA Rollback ==
  ASSUME IInv,
         RestorePointer \/ RestoreLink \/ RestoreFault \/ Discard \/ DiscardFault
  PROVE  IInv'
<1> USE DEF IInv, TypeOK, Protocol, NothingDangles, Torn, Maybe, None, Unsettled,
            disk, local, reading, history, counters
<1>1. CASE RestorePointer                   BY <1>1 DEF RestorePointer
<1>2. CASE RestoreLink                      BY <1>2 DEF RestoreLink
<1>3. CASE RestoreFault                     BY <1>3 DEF RestoreFault
<1>4. CASE Discard                          BY <1>4, SwitchAssumption DEF Discard, Unlink
<1>5. CASE DiscardFault                     BY <1>5 DEF DiscardFault
<1> QED
  BY <1>1, <1>2, <1>3, <1>4, <1>5

\* The deletion of old generations.
LEMMA Pruning ==
  ASSUME IInv, PruneOne \/ PruneDone \/ PruneFault
  PROVE  IInv'
<1>0. \A s \in Doomed : s \in Gens /\ s # pointer
  BY DoomedIsOld DEF IInv
<1> USE DEF IInv, TypeOK, Protocol, NothingDangles, Torn, Maybe, None, Unsettled,
            disk, local, reading, history, counters
<1>1. CASE PruneOne
  BY <1>0, <1>1, SwitchAssumption DEF PruneOne, Unlink
<1>2. CASE PruneDone                        BY <1>2 DEF PruneDone
<1>3. CASE PruneFault                       BY <1>3 DEF PruneFault
<1> QED
  BY <1>1, <1>2, <1>3

\* Readers change nothing on disk.
LEMMA Reading ==
  ASSUME IInv, NEW r \in Readers, Reader(r)
  PROVE  IInv'
<1> USE DEF IInv, TypeOK, Protocol, NothingDangles, Torn, Maybe, None, Unsettled,
            disk, local, reading, history, counters
<1>0. CurrentPath \in Maybe
  BY DEF CurrentPath
<1>1. CASE ReadPointer(r)                   BY <1>0, <1>1 DEF ReadPointer
<1>2. CASE ReadStatus(r)                    BY <1>2 DEF ReadStatus
<1>3. CASE Resolve(r)                       BY <1>0, <1>3 DEF Resolve
<1>4. CASE Load(r)                          BY <1>4 DEF Load
<1>5. CASE CheckPaths(r)                    BY <1>5 DEF CheckPaths
<1> QED
  BY <1>1, <1>2, <1>3, <1>4, <1>5 DEF Reader

\* Every step keeps the inductive invariant.
LEMMA NextIInv == IInv /\ [Next]_vars => IInv'
<1> SUFFICES ASSUME IInv, [Next]_vars PROVE IInv'
  OBVIOUS
<1>1. CASE UNCHANGED vars
  BY <1>1 DEF IInv, TypeOK, Protocol, NothingDangles, Torn, Unsettled,
              vars, disk, local, reading, history, counters
<1>2. CASE Next
  BY <1>2, BeforePublish, Publication, Rollback, Pruning, Reading
     DEF Next, Writer, Publish, Fault
<1> QED
  BY <1>1, <1>2

LEMMA Invariance == Spec => []IInv
BY InitIInv, NextIInv, PTL DEF Spec

\* Every variable keeps its type; in particular a staging directory is never
\* removed twice.
THEOREM TypeCorrect == Spec => []TypeOK
BY Invariance, PTL DEF IInv

\* The protocol of publish and rollback holds whatever crash occurs and whichever
\* write raises, before or after it took effect.
THEOREM ProtocolHolds == Spec => []Protocol
BY Invariance, PTL DEF IInv

\* The pointer and the public link never name a missing or half removed
\* generation, nor does the status while its own publication was not withdrawn.
THEOREM NeverDangles == Spec => []NothingDangles
BY Invariance, PTL DEF IInv

\* A rollback gives readers back exactly what publish took from them, or nothing
\* when the status already names what it withdraws.
THEOREM RollbackIsExact == Spec => []RollbackRestores
<1>1. IInv => RollbackRestores
  BY DEF IInv, TypeOK, Protocol, NothingDangles, Torn, RollbackRestores, Served,
         Unsettled, Maybe, None
<1> QED
  BY <1>1, Invariance, PTL

\* While nothing dangles, readers are served exactly when the pointer file and
\* status.json agree: no clean-up ever makes a store unready.
LEMMA ServedIsAgreement ==
  ASSUME TypeOK, NothingDangles
  PROVE  Served = Promise!Agreed(pointer, status.snapshot)
BY DEF TypeOK, NothingDangles, Served, Promise!Agreed, Maybe, None

\* Each step writes at most one of the two files, and writes to status.json
\* only what the pointer already says, or nothing.
LEMMA OneFileAtATime ==
  ASSUME IInv, [Next]_vars
  PROVE  \/ pointer' \in Maybe /\ status'.snapshot = status.snapshot
         \/ pointer' = pointer /\ pointer # None /\ status'.snapshot = pointer
         \/ pointer' = pointer /\ status'.snapshot = None
<1> USE DEF IInv, TypeOK, Protocol, Torn, Maybe, None
<1> DEFINE Quiet == pointer' = pointer /\ status' = status
<1>1. CASE WriteStatus \/ StatusFault
  BY <1>1 DEF WriteStatus, StatusFault
<1>2. CASE RecordFailure \/ RecordBlind
  BY <1>2 DEF RecordFailure, RecordBlind
<1>3. CASE WritePointer \/ RestorePointer
  BY <1>3 DEF WritePointer, RestorePointer
<1>4. CASE UNCHANGED vars \/ \E r \in Readers : Reader(r)
  <2>1. Quiet
    BY <1>4 DEF vars, disk, Reader, ReadPointer, ReadStatus, CheckPaths, Resolve, Load
  <2> QED
    BY <2>1
<1>5. CASE \/ \E g \in Gens : BeginRefresh(g)
           \/ AbandonRefresh \/ CancelRefresh \/ BeginFault \/ CleanupFault
           \/ RecordFault \/ Crash
  <2>1. Quiet
    BY <1>5 DEF disk, BeginRefresh, AbandonRefresh, CancelRefresh, BeginFault,
                CleanupFault, RecordFault, Crash
  <2> QED
    BY <2>1
<1>6. CASE \/ MoveStaging \/ ReplaceLink \/ RestoreLink \/ Discard
           \/ PruneOne \/ PruneDone
           \/ PublishFault \/ RestoreFault \/ DiscardFault \/ PruneFault
  <2>1. Quiet
    BY <1>6 DEF disk, MoveStaging, ReplaceLink, RestoreLink, Discard, PruneOne,
                PruneDone, PublishFault, RestoreFault, DiscardFault, PruneFault
  <2> QED
    BY <2>1
<1> QED
  BY <1>1, <1>2, <1>3, <1>4, <1>5, <1>6 DEF Next, Writer, Publish, Fault

\* A snapshot store keeps the promise of ServedGeneration: what readers get
\* changes only when a generation is offered, committed, withdrawn or forgotten.
THEOREM StoreKeepsPromise == Spec => KeepsPromise
<1>1. Init => Promise!Init
  BY DEF Init, Promise!Init, Served, None
<1>2. IInv /\ IInv' /\ [Next]_vars => [Promise!Next]_(Promise!vars)
  <2> SUFFICES ASSUME IInv, IInv', [Next]_vars
               PROVE  [Promise!Next]_(Promise!vars)
    OBVIOUS
  <2>1. Served = Promise!Agreed(pointer, status.snapshot)
    BY ServedIsAgreement DEF IInv
  <2>2. Served' = Promise!Agreed(pointer, status.snapshot)'
    BY DEF IInv, TypeOK, NothingDangles, Served, Promise!Agreed, Maybe, None
  <2>3. CASE pointer' \in Maybe /\ status'.snapshot = status.snapshot
    BY <2>2, <2>3 DEF Promise!Next, Promise!Offer, Promise!Agreed, Maybe
  <2>4. CASE pointer' = pointer /\ pointer # None /\ status'.snapshot = pointer
    BY <2>2, <2>4 DEF Promise!Next, Promise!Commit, Promise!Agreed
  <2>5. CASE pointer' = pointer /\ status'.snapshot = None
    BY <2>2, <2>5 DEF Promise!Next, Promise!Forget, Promise!Agreed
  <2> QED
    BY OneFileAtATime, <2>3, <2>4, <2>5
<1> QED
  BY <1>1, <1>2, Invariance, PTL DEF Spec, KeepsPromise, Promise!Spec
------------------------------------------------------------------------------
(* How many generations are kept, and which ones.                           *)

\* At most k members of a finite set of naturals have fewer than k above them.
LEMMA FewNewest ==
  ASSUME NEW S \in SUBSET Nat, IsFiniteSet(S), NEW k \in Nat
  PROVE  LET top == {s \in S : Cardinality({t \in S : t > s}) < k}
         IN  IsFiniteSet(top) /\ Cardinality(top) <= k
<1> DEFINE Above(s) == {t \in S : t > s}
           top == {s \in S : Cardinality(Above(s)) < k}
           rank == [s \in top |-> Cardinality(Above(s))]
<1>1. \A s \in S : IsFiniteSet(Above(s)) /\ Cardinality(Above(s)) \in Nat
  BY FS_Subset, FS_CardinalityType
<1>2. ASSUME NEW s \in S, NEW u \in S, s < u
      PROVE  Cardinality(Above(s)) # Cardinality(Above(u))
  <2>1. Above(u) \subseteq Above(s)
    <3>1. s \in Nat /\ u \in Nat /\ \A t \in S : t \in Nat
      OBVIOUS
    <3>2. \A t \in S : t > u => t > s
      BY <1>2, <3>1
    <3> QED BY <3>2
  <2>2. u \in Above(s) /\ u \notin Above(u)
    BY <1>2
  <2> HIDE DEF Above
  <2> QED BY <1>1, <2>1, <2>2, FS_Subset
<1>3. \A s, u \in top : rank[s] = rank[u] => s = u
  <2>1. \A s, u \in S : s < u \/ u < s \/ s = u
    OBVIOUS
  <2>2. top \subseteq S /\ \A s \in top : rank[s] = Cardinality(Above(s))
    OBVIOUS
  <2> HIDE DEF top, rank, Above
  <2> QED BY <1>2, <2>1, <2>2
<1>4. \A s \in top : rank[s] \in 0..(k - 1)
  <2>1. \A s \in top : s \in S /\ rank[s] = Cardinality(Above(s)) /\ Cardinality(Above(s)) < k
    OBVIOUS
  <2>2. \A n \in Nat : n < k => n \in 0..(k - 1)
    OBVIOUS
  <2> HIDE DEF top, rank, Above
  <2> QED BY <1>1, <2>1, <2>2
<1>5. rank \in Injection(top, 0..(k - 1))
  <2>1. rank \in [top -> 0..(k - 1)]
    <3>1. rank = [s \in top |-> rank[s]]
      OBVIOUS
    <3> HIDE DEF top, rank, Above
    <3> QED BY <1>4, <3>1
  <2> HIDE DEF top, rank, Above
  <2> QED BY <1>3, <2>1 DEF Injection, IsInjective
<1>6. IsFiniteSet(0..(k - 1)) /\ Cardinality(0..(k - 1)) = k
  BY FS_Interval
<1> HIDE DEF rank
<1> QED BY <1>5, <1>6, FS_Injection

\* _prune keeps Retention generations at most.
LEMMA RetainedIsFew ==
  ASSUME IsFiniteSet(Present)
  PROVE  IsFiniteSet(Retained) /\ Cardinality(Retained) <= Retention
<1> DEFINE kept == {CurrentPath} \ {None}
           others == Present \ kept
           n == Retention - Cardinality(kept)
           newest == {s \in others : Cardinality({t \in others : t > s}) < n}
<1>1. IsFiniteSet(kept) /\ Cardinality(kept) \in {0, 1}
  <2>1. kept = {} \/ kept = {CurrentPath}
    OBVIOUS
  <2>2. IsFiniteSet({}) /\ Cardinality({}) = 0
    BY FS_EmptySet
  <2>3. IsFiniteSet({CurrentPath}) /\ Cardinality({CurrentPath}) = 1
    BY FS_Singleton
  <2> QED BY <2>1, <2>2, <2>3
<1>2. Retained = kept \cup newest
  BY DEF Retained
<1>3. IsFiniteSet(others) /\ others \in SUBSET Nat
  <2>1. others \subseteq Present /\ Present \subseteq Nat
    BY DEF Present
  <2> HIDE DEF others
  <2> QED BY <2>1, FS_Subset
<1> HIDE DEF kept, others
<1>4. n \in Nat /\ n + Cardinality(kept) = Retention
  BY <1>1, RetentionAssumption
<1> HIDE DEF n
<1>5. IsFiniteSet(newest) /\ Cardinality(newest) <= n
  BY <1>3, <1>4, FewNewest
<1> HIDE DEF newest
<1>6. /\ IsFiniteSet(kept \cup newest) /\ IsFiniteSet(kept \cap newest)
      /\ Cardinality(kept \cup newest)
           = Cardinality(kept) + Cardinality(newest) - Cardinality(kept \cap newest)
  <2>1. kept \cap newest \subseteq kept
    OBVIOUS
  <2> QED BY <1>1, <1>5, <2>1, FS_Union, FS_Subset
<1>7. Cardinality(newest) \in Nat /\ Cardinality(kept \cap newest) \in Nat
      /\ Retention \in Nat
  BY <1>5, <1>6, FS_CardinalityType, RetentionAssumption
<1> QED BY <1>1, <1>2, <1>4, <1>5, <1>6, <1>7

\* _prune takes a generation away only when Retention newer ones are present,
\* as long as the current generation is the newest.
LEMMA DoomedIsFarBehind ==
  ASSUME TypeOK, NothingDangles, IsFiniteSet(Present),
         pointer # None, \A t \in Present : t <= pointer, NEW s \in Doomed
  PROVE  Cardinality({t \in Present : t > s}) >= Retention
<1> DEFINE others == Present \ {pointer}
           above == {t \in others : t > s}
<1>1. s \in Gens /\ s # pointer /\ s \in Present
  BY DoomedIsOld DEF Doomed
<1>2. CurrentPath = pointer /\ {pointer} \ {None} = {pointer}
  BY CurrentPathIsPointer
<1>3. pointer \in Gens /\ pointer \in Present
  BY DEF TypeOK, NothingDangles, Present, Maybe
<1>4. ~(Cardinality(above) < Retention - 1)
  <2>1. s \notin Retained
    BY DEF Doomed
  <2>2. Cardinality({pointer}) = 1
    BY FS_Singleton
  <2>3. Retained = {pointer} \cup {u \in others :
                     Cardinality({t \in others : t > u}) < Retention - 1}
    BY <1>2, <2>2 DEF Retained
  <2> QED BY <1>1, <2>1, <2>3
<1>5. s \in Nat /\ pointer \in Nat /\ pointer > s
  BY <1>1, <1>3
<1>6. {t \in Present : t > s} = above \cup {pointer} /\ pointer \notin above
  BY <1>3, <1>5
<1>7. IsFiniteSet(above)
  BY FS_Subset
<1> HIDE DEF above, others
<1>8. Cardinality(above \cup {pointer}) = Cardinality(above) + 1
  BY <1>6, <1>7, FS_AddElement
<1>9. Cardinality(above) \in Nat /\ Retention \in Nat
  BY <1>7, FS_CardinalityType, RetentionAssumption
<1> QED BY <1>4, <1>6, <1>8, <1>9

\* The steps that add or remove a generation, and the one they add or remove.
LEMMA PresentSteps ==
  ASSUME IInv, [Next]_vars
  PROVE  /\ UNCHANGED dirs \/ MoveStaging \/ Discard \/ PruneOne
         /\ MoveStaging => Present' = Present \cup {gen} /\ gen \in Gens \ Present
         /\ Discard => /\ Present' \in {Present, Present \ {gen}}
                       /\ dirs[gen] # "complete" => Present' = Present \ {gen}
                       /\ \A g \in Gens \ {gen} : dirs'[g] = dirs[g]
         /\ PruneOne => /\ Present' \subseteq Present
                        /\ \E s \in Doomed : \A g \in Gens \ {s} : dirs'[g] = dirs[g]
<1> USE DEF IInv, TypeOK
<1>1. ASSUME MoveStaging
      PROVE  Present' = Present \cup {gen} /\ gen \in Gens \ Present
  <2>1. gen \in Gens /\ gen \notin Present /\ dirs' = [dirs EXCEPT ![gen] = "complete"]
    BY <1>1 DEF MoveStaging, Protocol
  <2> QED BY <2>1 DEF Present
<1>2. ASSUME Discard
      PROVE  /\ Present' \in {Present, Present \ {gen}}
             /\ dirs[gen] # "complete" => Present' = Present \ {gen}
             /\ \A g \in Gens \ {gen} : dirs'[g] = dirs[g]
  <2>1. gen \in Gens /\ dirs' = [dirs EXCEPT ![gen] =
                                   IF @ = "complete" THEN "partial" ELSE "absent"]
    BY <1>2 DEF Discard, Unlink, Protocol
  <2> QED BY <2>1 DEF Present
<1>3. ASSUME PruneOne
      PROVE  /\ Present' \subseteq Present
             /\ \E s \in Doomed : \A g \in Gens \ {s} : dirs'[g] = dirs[g]
  <2>1. PICK s \in Doomed :
          dirs' = [dirs EXCEPT ![s] = IF @ = "complete" THEN "partial" ELSE "absent"]
    BY <1>3 DEF PruneOne, Unlink
  <2>2. s \in Gens /\ s \in Present
    BY DEF Doomed, Present
  <2> QED BY <2>1, <2>2 DEF Present
<1>4. CASE \/ \E g \in Gens : BeginRefresh(g)
           \/ AbandonRefresh \/ CancelRefresh \/ RecordFailure
           \/ BeginFault \/ CleanupFault \/ RecordBlind \/ RecordFault
           \/ PublishFault \/ StatusFault \/ RestoreFault \/ DiscardFault \/ PruneFault \/ Crash
  BY <1>1, <1>2, <1>3, <1>4
     DEF disk, BeginRefresh, AbandonRefresh, CancelRefresh, RecordFailure, BeginFault,
         CleanupFault, RecordBlind, RecordFault, PublishFault, StatusFault, RestoreFault,
         DiscardFault, PruneFault, Crash
<1>5. CASE \/ WritePointer \/ ReplaceLink \/ WriteStatus
           \/ RestorePointer \/ RestoreLink \/ PruneDone
  BY <1>1, <1>2, <1>3, <1>5
     DEF disk, WritePointer, ReplaceLink, WriteStatus, RestorePointer, RestoreLink, PruneDone
<1>6. CASE UNCHANGED vars \/ \E r \in Readers : Reader(r)
  BY <1>1, <1>2, <1>3, <1>6
     DEF vars, disk, Reader, ReadPointer, ReadStatus, CheckPaths, Resolve, Load
<1> QED BY <1>1, <1>2, <1>3, <1>4, <1>5, <1>6 DEF Next, Writer, Publish, Fault

\* A step that is not a crash or an OSError leaves their counts alone, and the
\* two never decrease.
LEMMA FaultsGrow ==
  ASSUME TypeOK, [Next]_vars
  PROVE  /\ crashes' = 0 => crashes = 0 /\ ~Crash
         /\ faults' = faults \/ (faults' = faults + 1 /\ Fault)
         /\ Fault => faults' = faults + 1
<1> USE DEF TypeOK
<1>1. Fault => faults' = faults + 1
  BY DEF Fault, BeginFault, CleanupFault, RecordBlind, RecordFault, PublishFault, StatusFault,
         RestoreFault, DiscardFault, PruneFault
<1>2. Crash => crashes' = crashes + 1 /\ faults' = faults
  BY DEF Crash
<1>3. ASSUME Writer \/ UNCHANGED vars \/ \E r \in Readers : Reader(r)
      PROVE  UNCHANGED counters
  BY <1>3 DEF vars, Writer, BeginRefresh, AbandonRefresh, CancelRefresh, RecordFailure,
     Publish, MoveStaging, WritePointer, ReplaceLink, WriteStatus, RestorePointer,
     RestoreLink, Discard, PruneOne, PruneDone, Reader, ReadPointer, ReadStatus, CheckPaths,
     Resolve, Load
<1>4. Fault => crashes' = crashes
  BY DEF Fault, BeginFault, CleanupFault, RecordBlind, RecordFault, PublishFault, StatusFault,
         RestoreFault, DiscardFault, PruneFault
<1>5. crashes + 1 # 0
  OBVIOUS
<1> QED BY <1>1, <1>2, <1>3, <1>4, <1>5 DEF Next, counters

\* Only publish, its rollback and an ended transaction leave staging directories
\* behind, and only through a crash or an OSError.
THEOREM StagingIsAccounted == Spec => []StagingAccounted
<1> USE DEF StagingAccounted
<1>1. Init => StagingAccounted
  BY DEF Init
<1>2. ASSUME IInv, StagingAccounted, [Next]_vars
      PROVE  StagingAccounted'
  <2> USE <1>2 DEF IInv, TypeOK, disk, local, reading, history, counters
  <2>1. CASE \/ \E g \in Gens : BeginRefresh(g)
             \/ AbandonRefresh \/ CancelRefresh \/ MoveStaging
    BY <2>1 DEF BeginRefresh, AbandonRefresh, CancelRefresh, MoveStaging, Protocol
  <2>2. CASE BeginFault \/ CleanupFault
    BY <2>2 DEF BeginFault, CleanupFault
  <2>3. CASE Crash
    BY <2>3 DEF Crash
  <2>4. ASSUME stagings' = stagings, crashes' = crashes, faults' = faults \/ faults' = faults + 1,
               pc' # "staged" \/ pc = "staged", pc = "staged" => pc' = "staged"
        PROVE  StagingAccounted'
    <3>0. /\ crashes \in Nat /\ faults \in Nat /\ stagings \in Nat
          /\ stagings <= crashes + faults + (IF pc = "staged" THEN 1 ELSE 0)
      OBVIOUS
    <3>1. CASE faults' = faults
      BY <2>4, <3>0, <3>1
    <3>2. CASE faults' = faults + 1
      BY <2>4, <3>0, <3>2
    <3> QED BY <2>4, <3>1, <3>2
  <2>5. CASE RecordFailure \/ RecordBlind \/ RecordFault
    BY <2>4, <2>5 DEF RecordFailure, RecordBlind, RecordFault
  <2>6. CASE WritePointer \/ ReplaceLink \/ WriteStatus \/ PublishFault \/ StatusFault
    BY <2>4, <2>6 DEF WritePointer, ReplaceLink, WriteStatus, PublishFault, StatusFault
  <2>7. CASE RestorePointer \/ RestoreLink \/ RestoreFault \/ Discard \/ DiscardFault
    BY <2>4, <2>7 DEF RestorePointer, RestoreLink, RestoreFault, Discard, DiscardFault
  <2>8. CASE PruneOne \/ PruneDone \/ PruneFault
    BY <2>4, <2>8 DEF PruneOne, PruneDone, PruneFault
  <2>9. CASE UNCHANGED vars \/ \E r \in Readers : Reader(r)
    BY <2>4, <2>9 DEF vars, Reader, ReadPointer, ReadStatus, CheckPaths, Resolve, Load
  <2> QED BY <2>1, <2>2, <2>3, <2>5, <2>6, <2>7, <2>8, <2>9 DEF Next, Writer, Publish, Fault
<1> QED BY <1>1, <1>2, Invariance, PTL DEF Spec

\* Without a crash or an OSError a refresh starts and ends with few generations,
\* and no rollback takes place.
SizeInv ==
  /\ IsFiniteSet(Present)
  /\ crashes = 0 /\ faults = 0 =>
       /\ pc \notin {"restoring", "relinking", "discarding"}
       /\ pc \in {"idle", "staged", "recording"} => Cardinality(Present) <= Retention

\* Present is finite, whatever interrupts the transactions.
LEMMA PresentIsFinite ==
  ASSUME IInv, IsFiniteSet(Present), [Next]_vars
  PROVE  IsFiniteSet(Present')
<1>1. Present' = Present \cup {gen} \/ Present' \subseteq Present
  BY PresentSteps DEF Present
<1> QED BY <1>1, FS_AddElement, FS_Subset

\* The undisturbed transactions keep few generations, since _prune is their last
\* step.
LEMMA SizeInvStep ==
  ASSUME IInv, SizeInv, [Next]_vars
  PROVE  SizeInv'
<1>1. IsFiniteSet(Present')
  BY PresentIsFinite DEF SizeInv
<1> SUFFICES ASSUME crashes' = 0, faults' = 0
             PROVE  /\ pc' \notin {"restoring", "relinking", "discarding"}
                    /\ pc' \in {"idle", "staged", "recording"}
                         => Cardinality(Present') <= Retention
  BY <1>1 DEF SizeInv
<1>2. crashes = 0 /\ faults = 0 /\ ~Fault /\ ~Crash
  <2>1. faults \in Nat /\ faults + 1 # 0
    BY DEF IInv, TypeOK
  <2> QED BY <2>1, FaultsGrow DEF IInv
<1>3. /\ pc \notin {"restoring", "relinking", "discarding"}
      /\ pc \in {"idle", "staged", "recording"} => Cardinality(Present) <= Retention
  BY <1>2 DEF SizeInv
<1>4. CASE PruneDone
  <2>1. Present \subseteq Retained /\ Present' = Present /\ pc' = "idle"
    BY <1>4 DEF PruneDone, Doomed, disk, Present
  <2>2. IsFiniteSet(Retained) /\ Cardinality(Retained) <= Retention
    BY RetainedIsFew DEF SizeInv
  <2>3. Cardinality(Present) <= Cardinality(Retained)
    BY <2>1, <2>2, FS_Subset
  <2>4. Cardinality(Present) \in Nat /\ Cardinality(Retained) \in Nat /\ Retention \in Nat
    BY <2>2, FS_CardinalityType, RetentionAssumption DEF SizeInv
  <2> QED BY <2>1, <2>2, <2>3, <2>4
<1>5. CASE \/ \E g \in Gens : BeginRefresh(g)
           \/ AbandonRefresh \/ CancelRefresh \/ RecordFailure
  BY <1>3, <1>5 DEF BeginRefresh, AbandonRefresh, CancelRefresh, RecordFailure, Present
<1>6. CASE MoveStaging \/ WritePointer \/ ReplaceLink \/ WriteStatus \/ PruneOne
  BY <1>6 DEF MoveStaging, WritePointer, ReplaceLink, WriteStatus, PruneOne
<1>7. CASE RestorePointer \/ RestoreLink \/ Discard
  BY <1>3, <1>7 DEF RestorePointer, RestoreLink, Discard
<1>8. CASE UNCHANGED vars \/ \E r \in Readers : Reader(r)
  <2>1. pc' = pc /\ dirs' = dirs
    BY <1>8 DEF vars, disk, Reader, ReadPointer, ReadStatus, CheckPaths, Resolve, Load
  <2> QED BY <1>3, <2>1 DEF Present
<1> QED BY <1>2, <1>4, <1>5, <1>6, <1>7, <1>8 DEF Next, Writer, Publish

\* Publications that nothing disturbed leave Retention generations at most.
THEOREM RetentionBoundHolds == Spec => []RetentionBound
<1>1. Init => SizeInv
  <2>1. Init => Present = {}
    BY DEF Init, Present
  <2>2. IsFiniteSet({}) /\ Cardinality({}) = 0
    BY FS_EmptySet
  <2> QED BY <2>1, <2>2, RetentionAssumption DEF Init, SizeInv
<1>2. IInv /\ SizeInv /\ [Next]_vars => SizeInv'
  BY SizeInvStep
<1>3. SizeInv => RetentionBound
  BY DEF SizeInv, RetentionBound
<1> QED BY <1>1, <1>2, <1>3, Invariance, PTL DEF Spec
------------------------------------------------------------------------------
(* The order of generations, and the readers that _prune must spare.        *)

\* What can be said before a crash, or a second OSError, breaks a rollback off.
Undisturbed == crashes = 0 /\ faults <= 1

\* The newest settled generation, and the settled ones: all those present but
\* the one under publication.
Base == IF pc \in Unsettled THEN previous ELSE pointer
Settled == IF pc \in Unsettled THEN Present \ {gen} ELSE Present

\* While the clock never goes back, generations settle in the order of names.
OrderInv ==
  MonotoneClock /\ Undisturbed =>
    /\ pc \in {"restoring", "relinking", "discarding"} => faults = 1
    /\ \A g \in Settled \cup committed : g <= Base
    /\ pc \in Unsettled \cup {"staged"} => gen > Base
    /\ pc \in Unsettled => pointer \in {previous, gen}
    /\ status.snapshot \in committed => status.snapshot = Base

\* A behaviour is undisturbed from its beginning or not at all.
LEMMA UndisturbedBefore ==
  ASSUME TypeOK, Undisturbed', [Next]_vars
  PROVE  /\ Undisturbed /\ ~Crash
         /\ Fault => faults = 0 /\ faults' = 1
         /\ faults' = faults \/ (faults = 0 /\ faults' = 1)
<1>1. crashes \in Nat /\ faults \in Nat
  BY DEF TypeOK
<1>2. crashes' = 0 /\ faults' <= 1
  BY DEF Undisturbed
<1>3. crashes = 0 /\ ~Crash
  BY <1>2, FaultsGrow
<1>4. CASE faults' = faults
  <2>1. ~Fault
    BY <1>1, <1>4, FaultsGrow
  <2> QED BY <1>2, <1>3, <1>4, <2>1 DEF Undisturbed
<1>5. CASE faults' = faults + 1
  BY <1>1, <1>2, <1>3, <1>5 DEF Undisturbed
<1> QED BY <1>4, <1>5, FaultsGrow

\* Publications settle generations in order, and a rollback goes back to the
\* newest settled one.
LEMMA OrderInvStep ==
  ASSUME IInv, OrderInv, [Next]_vars
  PROVE  OrderInv'
<1> DEFINE Goal ==
       /\ pc' \in {"restoring", "relinking", "discarding"} => faults' = 1
       /\ \A g \in Settled' \cup committed' : g <= Base'
       /\ pc' \in Unsettled \cup {"staged"} => gen' > Base'
       /\ pc' \in Unsettled => pointer' \in {previous', gen'}
       /\ status'.snapshot \in committed' => status'.snapshot = Base'
<1> SUFFICES ASSUME MonotoneClock, Undisturbed'
             PROVE  Goal
  BY DEF OrderInv, Unsettled
<1> USE DEF None, Maybe
<1>1. /\ pc \in {"restoring", "relinking", "discarding"} => faults = 1
      /\ \A g \in Settled \cup committed : g <= Base
      /\ pc \in Unsettled \cup {"staged"} => gen > Base
      /\ pc \in Unsettled => pointer \in {previous, gen}
      /\ status.snapshot \in committed => status.snapshot = Base
  BY UndisturbedBefore DEF IInv, OrderInv
<1>2. /\ dirs \in [Gens -> {"absent", "partial", "complete"}]
      /\ gen \in Maybe /\ previous \in Maybe /\ pointer \in Maybe
      /\ status \in [snapshot : Maybe, error : BOOLEAN]
      /\ committed \subseteq Gens /\ Present \subseteq Gens /\ faults \in Nat
      /\ Base \in Nat /\ gen \in Nat /\ previous \in Nat /\ pointer \in Nat
  BY DEF IInv, TypeOK, Present, Base
<1>3. ~Crash /\ (Fault => faults = 0 /\ faults' = 1) /\ (~Fault => faults' = faults)
  BY UndisturbedBefore, FaultsGrow DEF IInv
<1>4. ASSUME pc \notin Unsettled, pc' \notin Unsettled,
             dirs' = dirs, pointer' = pointer, committed' = committed,
             status'.snapshot \in {status.snapshot, None},
             pc' = "staged" => gen' > pointer
      PROVE  Goal
  BY <1>1, <1>2, <1>4 DEF Settled, Base, Present, Unsettled
<1>5. ASSUME NEW g \in Gens, BeginRefresh(g)
      PROVE  Goal
  <2>1. g > pointer
    <3>1. pointer \in Present \/ pointer = 0
      BY <1>2 DEF IInv, NothingDangles, Present
    <3>2. \A s \in Present : g > s
      BY <1>5 DEF BeginRefresh
    <3>3. g > 0
      OBVIOUS
    <3> QED BY <3>1, <3>2, <3>3
  <2> HIDE DEF Goal
  <2> QED BY <1>4, <1>5, <2>1 DEF BeginRefresh, Unsettled, disk, history
<1>6. CASE AbandonRefresh \/ CancelRefresh \/ RecordFailure
  <2> HIDE DEF Goal
  <2> QED BY <1>2, <1>4, <1>6 DEF AbandonRefresh, CancelRefresh, RecordFailure, Unsettled, history
<1>7. CASE BeginFault \/ CleanupFault \/ RecordBlind \/ RecordFault
  <2> HIDE DEF Goal
  <2> QED BY <1>4, <1>7 DEF BeginFault, CleanupFault, RecordBlind, RecordFault, Unsettled,
                            disk, history
<1>8. CASE PruneDone \/ PruneFault
  <2> HIDE DEF Goal
  <2> QED BY <1>4, <1>8 DEF PruneDone, PruneFault, Unsettled, disk, history
<1>9. CASE MoveStaging
  <2>1. /\ pc = "staged" /\ pc' = "moved" /\ previous' = pointer /\ pointer' = pointer
        /\ gen' = gen /\ committed' = committed /\ status' = status
    BY <1>9, CurrentPathIsPointer DEF MoveStaging, IInv
  <2>2. Present' = Present \cup {gen} /\ gen \notin Present
    BY <1>9, PresentSteps
  <2>3. Base = pointer /\ Base' = pointer /\ Settled = Present /\ Settled' = Present
    BY <2>1, <2>2 DEF Base, Settled, Unsettled
  <2> QED BY <1>1, <2>1, <2>3 DEF Unsettled
<1>10. CASE WritePointer \/ ReplaceLink \/ PublishFault \/ StatusFault
  <2>1. /\ pc \in Unsettled /\ pc' \in Unsettled \ {"relinking", "discarding"}
        /\ dirs' = dirs /\ gen' = gen /\ previous' = previous
        /\ committed' \subseteq committed /\ pointer' \in {pointer, gen}
        /\ status' = status \/ status'.snapshot \notin committed'
        /\ pc' = "restoring" => Fault
    BY <1>10 DEF WritePointer, ReplaceLink, PublishFault, StatusFault, Unsettled, disk, local,
                 history, Fault
  <2>2. Base' = Base /\ Settled' = Settled
    BY <2>1 DEF Base, Settled, Present
  <2> QED BY <1>1, <1>3, <2>1, <2>2 DEF Unsettled
<1>11. CASE WriteStatus
  <2>1. /\ pc = "linked" /\ pc' = "pruning" /\ committed' = committed \cup {gen}
        /\ dirs' = dirs /\ pointer' = pointer /\ pointer = gen /\ status'.snapshot = gen
    BY <1>11 DEF WriteStatus, IInv, Protocol
  <2>2. Base = previous /\ Base' = gen /\ Settled = Present \ {gen} /\ Settled' = Present
    BY <2>1 DEF Base, Settled, Present, Unsettled
  <2>3. \A g \in Present \cup committed : g = gen \/ g <= previous
    BY <1>1, <2>2
  <2>4. gen > previous
    BY <1>1, <2>1, <2>2 DEF Unsettled
  <2>5. \A g \in Present \cup committed \cup {gen} : g <= gen
    BY <1>2, <2>3, <2>4
  <2> QED BY <2>1, <2>2, <2>5 DEF Unsettled
<1>12. CASE RestorePointer \/ RestoreLink
  <2>1. /\ pc \in {"restoring", "relinking"} /\ pc' \in {"relinking", "discarding"}
        /\ dirs' = dirs /\ gen' = gen /\ previous' = previous /\ committed' = committed
        /\ status' = status /\ pointer' \in {pointer, previous} /\ faults' = faults
    BY <1>12 DEF RestorePointer, RestoreLink, Unsettled, local, history, counters
  <2>2. Base' = Base /\ Settled' = Settled
    BY <2>1 DEF Base, Settled, Present, Unsettled
  <2> QED BY <1>1, <2>1, <2>2 DEF Unsettled
<1>13. CASE Discard
  <2>1. /\ pc = "discarding" /\ pc' \in {"discarding", "recording"}
        /\ gen' = gen /\ previous' = previous /\ committed' = committed /\ status' = status
        /\ pointer' = pointer /\ pointer = previous /\ faults' = faults
        /\ pc' = "recording" => dirs[gen] # "complete"
    BY <1>13 DEF Discard, local, history, counters, IInv, Protocol
  <2>2. /\ Present' \in {Present, Present \ {gen}}
        /\ dirs[gen] # "complete" => Present' = Present \ {gen}
    BY <1>13, PresentSteps
  <2>3. Base' = Base /\ Settled' = Settled
    BY <2>1, <2>2 DEF Base, Settled, Unsettled
  <2> QED BY <1>1, <2>1, <2>3 DEF Unsettled
<1>14. CASE RestoreFault \/ DiscardFault
  BY <1>1, <1>3, <1>14 DEF RestoreFault, DiscardFault, Fault
<1>15. CASE PruneOne
  <2>1. /\ pc = "pruning" /\ pc' = pc /\ pointer' = pointer /\ gen' = gen
        /\ committed' = committed /\ status' = status
    BY <1>15 DEF PruneOne, local, history
  <2>2. Present' \subseteq Present
    BY <1>15, PresentSteps
  <2>3. Base' = Base /\ Settled' \subseteq Settled
    BY <2>1, <2>2 DEF Base, Settled, Unsettled
  <2> QED BY <1>1, <2>1, <2>3 DEF Unsettled
<1>16. CASE UNCHANGED vars \/ \E r \in Readers : Reader(r)
  <2>1. UNCHANGED <<dirs, pointer, status, pc, gen, previous, committed, faults>>
    BY <1>16 DEF vars, disk, local, history, counters, Reader, ReadPointer, ReadStatus, CheckPaths,
                 Resolve, Load
  <2>2. Base' = Base /\ Settled' = Settled
    BY <2>1 DEF Base, Settled, Present
  <2> QED BY <1>1, <2>1, <2>2
<1> HIDE DEF Goal
<1> QED BY <1>3, <1>5, <1>6, <1>7, <1>8, <1>9, <1>10, <1>11, <1>12, <1>13, <1>14, <1>15, <1>16
        DEF Next, Writer, Publish, Fault

\* A publication settles its generation when it writes status.json; no other step
\* adds a settled generation.
LEMMA SettledSteps ==
  ASSUME IInv, [Next]_vars, ~RestoreFault, ~DiscardFault, ~Crash
  PROVE  \/ Settled' \subseteq Settled /\ committed' \subseteq committed
         \/ /\ WriteStatus /\ Settled' \subseteq Settled \cup {gen}
            /\ committed' = committed \cup {gen}
<1> USE DEF Settled
<1>1. CASE MoveStaging
  BY <1>1, PresentSteps DEF MoveStaging, Unsettled
<1>2. CASE Discard
  <2>1. /\ pc = "discarding" /\ pc' \in {"discarding", "recording"} /\ gen' = gen
        /\ pc' = "recording" => dirs[gen] # "complete"
    BY <1>2 DEF Discard, local
  <2> QED BY <1>2, <2>1, PresentSteps DEF Discard, Unsettled, history
<1>3. CASE PruneOne
  <2>1. Present' \subseteq Present
    BY <1>3, PresentSteps
  <2> QED BY <1>3, <2>1 DEF PruneOne, Unsettled, history
<1>4. ASSUME Present' = Present, gen' = gen \/ pc' \notin Unsettled,
             (pc \in Unsettled) = (pc' \in Unsettled), committed' \subseteq committed
      PROVE  Settled' \subseteq Settled /\ committed' \subseteq committed
  BY <1>4
<1>5. CASE \/ \E g \in Gens : BeginRefresh(g)
           \/ AbandonRefresh \/ CancelRefresh \/ RecordFailure
  BY <1>4, <1>5 DEF BeginRefresh, AbandonRefresh, CancelRefresh, RecordFailure, Present,
                    Unsettled, history
<1>6. CASE BeginFault \/ CleanupFault \/ RecordBlind \/ RecordFault
  BY <1>4, <1>6 DEF BeginFault, CleanupFault, RecordBlind, RecordFault, Present, Unsettled,
                    disk, history
<1>7. CASE PruneDone \/ PruneFault
  BY <1>4, <1>7 DEF PruneDone, PruneFault, Present, Unsettled, disk, history
<1>8. CASE \/ WritePointer \/ ReplaceLink \/ PublishFault \/ StatusFault
           \/ RestorePointer \/ RestoreLink
  BY <1>4, <1>8 DEF WritePointer, ReplaceLink, PublishFault, StatusFault, RestorePointer,
                    RestoreLink, Present, Unsettled, disk, local, history
<1>9. CASE WriteStatus
  BY <1>9 DEF WriteStatus, Present, Unsettled
<1>10. CASE UNCHANGED vars \/ \E r \in Readers : Reader(r)
  <2>1. UNCHANGED <<dirs, pc, gen, committed>>
    BY <1>10 DEF vars, disk, local, history, Reader, ReadPointer, ReadStatus, CheckPaths,
                 Resolve, Load
  <2> QED BY <1>4, <2>1 DEF Present
<1> QED BY <1>1, <1>2, <1>3, <1>5, <1>6, <1>7, <1>8, <1>9, <1>10
        DEF Next, Writer, Publish, Fault

\* What _prune has yet to delete is far behind the current generation.
LEMMA PruneSparesTheNewest ==
  ASSUME IInv, OrderInv, IsFiniteSet(Present), MonotoneClock, Undisturbed, PruneOne,
         NEW s \in Doomed
  PROVE  Settled = Present /\ Cardinality({t \in Present : t > s}) >= Retention
<1>1. pc = "pruning" /\ pointer # None
  BY GensAssumption DEF PruneOne, IInv, Protocol, None
<1>2. Settled = Present /\ Base = pointer
  BY <1>1 DEF Settled, Base, Unsettled
<1>3. \A t \in Present : t <= pointer
  BY <1>2 DEF OrderInv
<1> QED BY <1>1, <1>2, <1>3, DoomedIsFarBehind DEF IInv

\* Since a reader resolved its generation, no more generations were settled than
\* its thread has missed, and while it missed few its own is whole.
Newer(r) == {g \in Settled : g > seen[r]}
ReaderInv ==
  MonotoneClock /\ Undisturbed =>
    \A r \in Readers : rpc[r] = "resolved" /\ missed[r] < Retention =>
      /\ Cardinality(Newer(r)) <= missed[r]
      /\ seen[r] \in committed => dirs[seen[r]] = "complete"

\* What a step that is not a crash does to a reader that is resolved after it.
LEMMA ReaderSteps ==
  ASSUME TypeOK, [Next]_vars, ~Crash, NEW r \in Readers, rpc'[r] = "resolved"
  PROVE  \/ /\ Resolve(r) /\ seen'[r] = CurrentPath /\ CurrentPath # None
            /\ missed'[r] = 0
         \/ /\ rpc[r] = "resolved" /\ seen'[r] = seen[r]
            /\ WriteStatus \/ missed'[r] = missed[r]
<1> USE DEF TypeOK
<1>1. ASSUME NEW q \in Readers, Reader(q)
      PROVE  \/ /\ Resolve(r) /\ seen'[r] = CurrentPath /\ CurrentPath # None
                /\ missed'[r] = 0
             \/ rpc[r] = "resolved" /\ seen'[r] = seen[r] /\ missed'[r] = missed[r]
  <2>1. CASE q = r
    BY <1>1, <2>1 DEF Reader, ReadPointer, ReadStatus, CheckPaths, Resolve, Load
  <2>2. CASE q # r
    BY <1>1, <2>2 DEF Reader, ReadPointer, ReadStatus, CheckPaths, Resolve, Load
  <2> QED BY <2>1, <2>2
<1>2. CASE WriteStatus
  BY <1>2 DEF WriteStatus
<1>3. CASE UNCHANGED reading
  BY <1>3 DEF reading
<1>4. CASE \/ \E g \in Gens : BeginRefresh(g)
           \/ AbandonRefresh \/ CancelRefresh \/ RecordFailure \/ Fault
  BY <1>3, <1>4 DEF BeginRefresh, AbandonRefresh, CancelRefresh, RecordFailure, Fault,
     BeginFault, CleanupFault, RecordBlind, RecordFault, PublishFault, StatusFault, RestoreFault,
     DiscardFault, PruneFault
<1>5. CASE \/ MoveStaging \/ WritePointer \/ ReplaceLink \/ RestorePointer \/ RestoreLink
           \/ Discard \/ PruneOne \/ PruneDone
  BY <1>3, <1>5 DEF MoveStaging, WritePointer, ReplaceLink, RestorePointer, RestoreLink,
     Discard, PruneOne, PruneDone
<1>6. CASE UNCHANGED vars
  BY <1>3, <1>6 DEF vars
<1> QED BY <1>1, <1>2, <1>4, <1>5, <1>6 DEF Next, Writer, Publish

\* No step takes files from a reader that missed few publications: Discard only
\* removes what was never committed, and _prune what is far behind.
LEMMA ReaderInvStep ==
  ASSUME IInv, IsFiniteSet(Present), OrderInv, ReaderInv, OrderInv', [Next]_vars
  PROVE  ReaderInv'
<1> SUFFICES ASSUME MonotoneClock, Undisturbed', NEW r \in Readers,
                    rpc'[r] = "resolved", missed'[r] < Retention
             PROVE  /\ Cardinality(Newer(r)') <= missed'[r]
                    /\ seen'[r] \in committed' => dirs'[seen'[r]] = "complete"
  BY DEF ReaderInv
<1>1. Undisturbed /\ ~Crash /\ (Fault => faults = 0)
  BY UndisturbedBefore DEF IInv
<1>2. /\ pc \in {"restoring", "relinking", "discarding"} => faults = 1
      /\ \A g \in Settled \cup committed : g <= Base
      /\ pc \in Unsettled \cup {"staged"} => gen > Base
      /\ pc \in Unsettled => pointer \in {previous, gen}
  BY <1>1 DEF OrderInv
<1>3. \/ Settled' \subseteq Settled /\ committed' \subseteq committed
      \/ WriteStatus /\ Settled' \subseteq Settled \cup {gen} /\ committed' = committed \cup {gen}
  <2>1. ~RestoreFault /\ ~DiscardFault
    BY <1>1, <1>2 DEF RestoreFault, DiscardFault, Fault
  <2> QED BY <1>1, <2>1, SettledSteps
<1>4. /\ Settled \subseteq Present /\ Present \subseteq Gens /\ committed \subseteq Gens
      /\ missed[r] \in Nat /\ seen[r] \in Nat /\ gen \in Nat /\ pointer \in Nat
      /\ previous \in Nat /\ Base \in Nat /\ Retention \in Nat \ {0}
      /\ missed \in [Readers -> Nat]
  <2>1. /\ committed \subseteq Gens /\ gen \in Nat /\ pointer \in Nat /\ previous \in Nat
        /\ missed \in [Readers -> Nat] /\ seen \in [Readers -> Maybe]
    BY DEF IInv, TypeOK, Maybe, None
  <2>2. Settled \subseteq Present /\ Present \subseteq Gens /\ Base \in Nat
    BY <2>1 DEF Settled, Present, Base
  <2>3. missed[r] \in Nat /\ seen[r] \in Nat
    <3>1. missed[r] \in Nat /\ seen[r] \in Maybe
      BY <2>1
    <3>2. Maybe \subseteq Nat
      BY GensAssumption DEF Maybe, None
    <3> QED BY <3>1, <3>2
  <2> QED BY <2>1, <2>2, <2>3, RetentionAssumption
<1>5. IsFiniteSet(Newer(r)) /\ Cardinality(Newer(r)) \in Nat
  BY <1>4, FS_Subset, FS_CardinalityType DEF Newer
<1>6. CASE Resolve(r) /\ seen'[r] = CurrentPath /\ CurrentPath # None /\ missed'[r] = 0
  <2>1. pointer = CurrentPath /\ pointer # None /\ dirs[pointer] = "complete"
    BY <1>6, CurrentPathIsPointer DEF IInv, NothingDangles
  <2>2. UNCHANGED <<dirs, pc, gen, committed>>
    BY <1>6 DEF Resolve, disk, local, history
  <2>3. Settled' = Settled
    BY <2>2 DEF Settled, Present
  <2>4. \A g \in Settled : ~(g > pointer)
    BY <1>2, <1>4 DEF Base
  <2>5. Newer(r)' = {}
    BY <1>6, <2>1, <2>3, <2>4 DEF Newer
  <2>6. Cardinality({}) = 0
    BY FS_EmptySet
  <2> QED BY <1>6, <2>1, <2>2, <2>5, <2>6
<1>7. CASE rpc[r] = "resolved" /\ seen'[r] = seen[r] /\ WriteStatus
  <2>1. /\ pc = "linked" /\ pc' = "pruning" /\ dirs' = dirs /\ pointer' = gen
        /\ missed'[r] = IF seen[r] # gen /\ missed[r] < Retention
                        THEN missed[r] + 1 ELSE missed[r]
    BY <1>4, <1>7 DEF WriteStatus, IInv, Protocol
  <2>2. CASE seen[r] = gen
    <3>1. \A g \in Settled' : g <= gen
      <4>1. Base' = gen
        BY <2>1 DEF Base, Unsettled
      <4> QED BY <4>1 DEF OrderInv
    <3>2. \A g \in Settled' : g \in Nat
      BY <1>3, <1>4
    <3>3. Newer(r)' = {}
      BY <1>4, <1>7, <2>2, <3>1, <3>2 DEF Newer
    <3>4. Cardinality({}) = 0
      BY FS_EmptySet
    <3>5. dirs[gen] = "complete"
      BY <2>1 DEF IInv, Protocol, Unsettled
    <3> QED BY <1>4, <1>7, <2>1, <2>2, <3>3, <3>4, <3>5
  <2>3. CASE seen[r] # gen
    <3>1. missed[r] < Retention /\ missed'[r] = missed[r] + 1
      BY <1>4, <2>1, <2>3
    <3>2. /\ Cardinality(Newer(r)) <= missed[r]
          /\ seen[r] \in committed => dirs[seen[r]] = "complete"
      BY <1>1, <1>7, <3>1 DEF ReaderInv
    <3>3. Newer(r)' \subseteq Newer(r) \cup {gen}
      BY <1>3, <1>4, <1>7 DEF Newer
    <3>4. /\ IsFiniteSet(Newer(r) \cup {gen})
          /\ Cardinality(Newer(r) \cup {gen}) <= Cardinality(Newer(r)) + 1
      <4>1. /\ IsFiniteSet(Newer(r) \cup {gen})
            /\ Cardinality(Newer(r) \cup {gen}) =
                 IF gen \in Newer(r) THEN Cardinality(Newer(r)) ELSE Cardinality(Newer(r)) + 1
        BY <1>5, FS_AddElement
      <4> QED BY <1>5, <4>1
    <3>5. /\ Cardinality(Newer(r)') <= Cardinality(Newer(r) \cup {gen})
          /\ Cardinality(Newer(r)') \in Nat /\ Cardinality(Newer(r) \cup {gen}) \in Nat
      BY <3>3, <3>4, FS_Subset, FS_CardinalityType
    <3>6. Cardinality(Newer(r)') <= missed'[r]
      BY <1>4, <1>5, <3>1, <3>2, <3>4, <3>5
    <3> QED BY <1>3, <1>7, <2>1, <2>3, <3>2, <3>6
  <2> QED BY <2>2, <2>3
<1>8. CASE rpc[r] = "resolved" /\ seen'[r] = seen[r] /\ ~WriteStatus /\ missed'[r] = missed[r]
  <2>1. Settled' \subseteq Settled /\ committed' \subseteq committed
    BY <1>3, <1>8
  <2>2. /\ Cardinality(Newer(r)) <= missed[r]
        /\ seen[r] \in committed => dirs[seen[r]] = "complete"
    BY <1>1, <1>8 DEF ReaderInv
  <2>3. Newer(r)' \subseteq Newer(r)
    BY <1>8, <2>1 DEF Newer
  <2>4. Cardinality(Newer(r)') <= Cardinality(Newer(r)) /\ Cardinality(Newer(r)') \in Nat
    BY <1>5, <2>3, FS_Subset, FS_CardinalityType
  <2>5. Cardinality(Newer(r)') <= missed'[r]
    BY <1>4, <1>5, <1>8, <2>2, <2>4
  <2>6. ASSUME seen[r] \in committed
        PROVE  dirs'[seen[r]] = "complete"
    <3>1. dirs[seen[r]] = "complete" /\ seen[r] \in Gens
      BY <1>4, <2>2, <2>6
    <3>2. CASE UNCHANGED dirs
      BY <3>1, <3>2
    <3>3. CASE MoveStaging
      BY <3>1, <3>3 DEF MoveStaging, IInv, TypeOK
    <3>4. CASE Discard
      <4>1. seen[r] # gen
        BY <1>2, <1>4, <2>6, <3>4 DEF Discard, Unsettled
      <4> QED BY <3>1, <3>4, <4>1, PresentSteps
    <3>5. CASE PruneOne
      <4>1. PICK s \in Doomed : \A g \in Gens \ {s} : dirs'[g] = dirs[g]
        BY <3>5, PresentSteps
      <4>2. s # seen[r]
        <5>1. s = seen[r] => Cardinality(Newer(r)) >= Retention
          BY <1>1, <3>5, PruneSparesTheNewest DEF Newer
        <5> QED BY <1>4, <1>5, <1>8, <2>2, <5>1
      <4> QED BY <3>1, <4>1, <4>2
    <3> QED BY <3>2, <3>3, <3>4, <3>5, PresentSteps
  <2> QED BY <1>8, <2>1, <2>5, <2>6
<1> QED BY <1>1, <1>6, <1>7, <1>8, ReaderSteps DEF IInv

\* A reader that resolved a committed generation finds its files while fewer than
\* Retention newer ones were committed, as long as the clock never goes back, no
\* process died and at most one OSError occurred: what breaks a rollback off, and
\* leaves a generation nobody committed among those _prune counts.
THEOREM ReadersKeepTheirGeneration ==
  ASSUME MonotoneClock
  PROVE  Spec => [](crashes = 0 /\ faults <= 1 => ReaderKeepsGeneration)
<1> DEFINE Inv == IsFiniteSet(Present) /\ OrderInv /\ ReaderInv
<1>1. Init => Inv
  <2>1. Init => Present = {}
    BY DEF Init, Present
  <2>2. IsFiniteSet({})
    BY FS_EmptySet
  <2>3. Init => OrderInv
    BY <2>1 DEF Init, OrderInv, Settled, Base, Unsettled
  <2>4. Init => ReaderInv
    BY DEF Init, ReaderInv
  <2> QED BY <2>1, <2>2, <2>3, <2>4
<1>2. IInv /\ Inv /\ [Next]_vars => Inv'
  BY PresentIsFinite, OrderInvStep, ReaderInvStep
<1>3. Inv => (crashes = 0 /\ faults <= 1 => ReaderKeepsGeneration)
  BY DEF ReaderInv, ReaderKeepsGeneration, Undisturbed
<1> HIDE DEF Inv
<1> QED BY <1>1, <1>2, <1>3, Invariance, PTL DEF Spec

\* While _prune works, the generation committed before the current one is whole
\* and nothing but the current one is newer.
PriorInv ==
  MonotoneClock /\ Undisturbed /\ Retention > 1 /\ pc = "pruning" /\ prior \in committed =>
    /\ dirs[prior] = "complete"
    /\ \A g \in Present \ {gen} : g <= prior

\* publish hands _prune the generation it replaced, and _prune keeps two.
LEMMA PriorInvStep ==
  ASSUME IInv, IsFiniteSet(Present), OrderInv, PriorInv, [Next]_vars
  PROVE  PriorInv'
<1> SUFFICES ASSUME MonotoneClock, Undisturbed', Retention > 1, pc' = "pruning",
                    prior' \in committed'
             PROVE  /\ dirs'[prior'] = "complete"
                    /\ \A g \in Present' \ {gen'} : g <= prior'
  BY DEF PriorInv
<1>1. Undisturbed /\ ~Crash
  BY UndisturbedBefore DEF IInv
<1>2. CASE WriteStatus
  <2>1. /\ pc = "linked" /\ prior' = prior /\ gen' = gen /\ dirs' = dirs
    BY <1>2 DEF WriteStatus, local
  <2>2. /\ prior = status.snapshot /\ dirs[gen] = "complete"
        /\ previous # None => dirs[previous] = "complete"
    BY <2>1 DEF IInv, Protocol, Unsettled
  <2>3. /\ status.snapshot \in committed => status.snapshot = previous
        /\ \A g \in Present \ {gen} : g <= previous
        /\ gen > previous
    BY <1>1, <2>1 DEF OrderInv, Base, Settled, Unsettled
  <2>4. prior \in committed \cup {gen} /\ None \notin committed
    BY <1>2, <2>1 DEF WriteStatus, IInv, TypeOK, None
  <2>5. CASE prior \in committed
    BY <2>1, <2>2, <2>3, <2>4, <2>5 DEF Present
  <2>6. CASE prior = gen
    <3>1. gen \in Nat /\ previous \in Nat /\ \A g \in Present : g \in Nat
      BY DEF IInv, TypeOK, Maybe, None, Present
    <3>2. \A g \in Present \ {gen} : g <= gen
      BY <2>3, <3>1
    <3> QED BY <2>1, <2>2, <2>6, <3>2 DEF Present
  <2> QED BY <2>4, <2>5, <2>6
<1>3. ASSUME pc = "pruning", UNCHANGED <<prior, gen, committed>>
      PROVE  /\ dirs[prior] = "complete"
             /\ \A g \in Present \ {gen} : g <= prior
  BY <1>1, <1>3 DEF PriorInv
<1>4. CASE PruneOne
  <2>1. pc = "pruning" /\ prior' = prior /\ gen' = gen /\ committed' = committed
    BY <1>4 DEF PruneOne, local, history
  <2>2. PICK s \in Doomed : \A g \in Gens \ {s} : dirs'[g] = dirs[g]
    BY <1>4, PresentSteps
  <2>3. Present' \subseteq Present
    BY <1>4, PresentSteps
  <2>4. s # prior
    <3> DEFINE above == {t \in Present : t > s}
    <3>1. SUFFICES ASSUME s = prior
                   PROVE  FALSE
      OBVIOUS
    <3>2. Cardinality(above) >= Retention
      BY <1>1, <1>4, PruneSparesTheNewest
    <3>3. \A g \in Present : g \in Nat
      BY DEF Present
    <3>4. s \in Nat
      BY <3>3 DEF Doomed
    <3>5. above \subseteq {gen}
      BY <1>3, <2>1, <3>1, <3>3, <3>4
    <3> HIDE DEF above
    <3>6. IsFiniteSet({gen}) /\ Cardinality({gen}) = 1
      BY FS_Singleton
    <3>7. Cardinality(above) <= 1
      BY <3>5, <3>6, FS_Subset
    <3>8. IsFiniteSet(above)
      BY <3>5, <3>6, FS_Subset
    <3>9. Cardinality(above) \in Nat /\ Retention \in Nat
      BY <3>8, FS_CardinalityType, RetentionAssumption
    <3> QED BY <3>2, <3>7, <3>9
  <2>5. prior \in Gens
    BY <2>1 DEF IInv, TypeOK
  <2> QED BY <1>3, <2>1, <2>2, <2>3, <2>4, <2>5
<1>5. CASE UNCHANGED vars \/ \E r \in Readers : Reader(r)
  <2>1. UNCHANGED <<dirs, pc, gen, prior, committed>>
    BY <1>5 DEF vars, disk, local, history, Reader, ReadPointer, ReadStatus, CheckPaths,
                Resolve, Load
  <2> QED BY <1>3, <2>1 DEF Present
<1>6. CASE \/ \E g \in Gens : BeginRefresh(g)
           \/ AbandonRefresh \/ CancelRefresh \/ RecordFailure
  BY <1>6 DEF BeginRefresh, AbandonRefresh, CancelRefresh, RecordFailure
<1>7. CASE \/ MoveStaging \/ WritePointer \/ ReplaceLink
           \/ RestorePointer \/ RestoreLink \/ Discard \/ PruneDone
  BY <1>7 DEF MoveStaging, WritePointer, ReplaceLink, RestorePointer, RestoreLink, Discard,
              PruneDone
<1>8. CASE Fault
  BY <1>8 DEF Fault, BeginFault, CleanupFault, RecordBlind, RecordFault, PublishFault, StatusFault,
              RestoreFault, DiscardFault, PruneFault
<1> QED BY <1>1, <1>2, <1>4, <1>5, <1>6, <1>7, <1>8 DEF Next, Writer, Publish

\* When _prune ends, the generation that was valid before this publication is
\* still there.  Retention is 2 in the code, and 1 would not do; after a crash, or
\* a second OSError, a generation nobody committed may take its place.
THEOREM PreviousIsKept ==
  ASSUME MonotoneClock, Retention > 1, MaxCrashes = 0, MaxFaults <= 1
  PROVE  Spec => PreviousKept
<1> DEFINE Inv == IsFiniteSet(Present) /\ OrderInv /\ PriorInv
           Few == crashes <= MaxCrashes /\ faults <= MaxFaults
<1>1. Init => Inv /\ Few
  <2>1. Init => Present = {}
    BY DEF Init, Present
  <2>2. IsFiniteSet({})
    BY FS_EmptySet
  <2>3. Init => OrderInv
    BY <2>1 DEF Init, OrderInv, Settled, Base, Unsettled
  <2>4. Init => PriorInv /\ Few
    BY BoundAssumption DEF Init, PriorInv
  <2> QED BY <2>1, <2>2, <2>3, <2>4
<1>2. IInv /\ Inv /\ [Next]_vars => Inv'
  BY PresentIsFinite, OrderInvStep, PriorInvStep
<1>3. IInv /\ Few /\ [Next]_vars => Few'
  <2> SUFFICES ASSUME IInv, Few, [Next]_vars
               PROVE  Few'
    OBVIOUS
  <2>1. crashes \in Nat /\ faults \in Nat /\ MaxCrashes \in Nat /\ MaxFaults \in Nat
    BY BoundAssumption DEF IInv, TypeOK
  <2>2. Fault => faults < MaxFaults
    BY DEF Fault, BeginFault, CleanupFault, RecordBlind, RecordFault, PublishFault, StatusFault,
           RestoreFault, DiscardFault, PruneFault
  <2>3. Crash => crashes < MaxCrashes /\ crashes' = crashes + 1
    BY DEF Crash
  <2>4. ~Crash => crashes' = crashes
    BY DEF Next, Writer, BeginRefresh, AbandonRefresh, CancelRefresh, RecordFailure,
     Publish, MoveStaging, WritePointer, ReplaceLink, WriteStatus, RestorePointer,
     RestoreLink, Discard, PruneOne, PruneDone, Reader, ReadPointer, ReadStatus, CheckPaths, Resolve,
     Load, Fault, BeginFault, CleanupFault, RecordBlind, RecordFault, PublishFault, StatusFault,
     RestoreFault, DiscardFault, PruneFault, vars, counters
  <2>5. faults' = faults \/ (faults' = faults + 1 /\ Fault)
    BY FaultsGrow DEF IInv
  <2> QED BY <2>1, <2>2, <2>3, <2>4, <2>5
<1>4. IInv /\ Inv /\ Few /\ [Next]_vars =>
        [pc = "pruning" /\ pc' = "idle" /\ prior \in committed /\ faults' = faults
           => dirs'[prior] = "complete"]_vars
  <2> SUFFICES ASSUME IInv, Inv, Few, Next, pc = "pruning", prior \in committed
               PROVE  pc' = "idle" /\ faults' = faults => dirs'[prior] = "complete"
    OBVIOUS
  <2>1. crashes = 0 /\ faults <= 1
    BY BoundAssumption DEF IInv, TypeOK
  <2>2. dirs[prior] = "complete"
    BY <2>1 DEF PriorInv, Undisturbed
  <2>3. CASE PruneDone \/ Crash
    BY <2>2, <2>3 DEF PruneDone, Crash, disk
  <2>4. CASE Fault
    <3>1. faults \in Nat /\ faults' = faults + 1
      BY <2>4, FaultsGrow DEF IInv, TypeOK
    <3> QED BY <3>1
  <2>5. ASSUME pc' = "idle", ~PruneDone, ~Crash, ~Fault
        PROVE  FALSE
    BY <2>5 DEF Next, Writer, BeginRefresh, AbandonRefresh, CancelRefresh, RecordFailure,
     Publish, MoveStaging, WritePointer, ReplaceLink, WriteStatus, RestorePointer,
     RestoreLink, Discard, PruneOne, Reader, ReadPointer, ReadStatus, CheckPaths, Resolve, Load
  <2> QED BY <2>3, <2>4, <2>5
<1> HIDE DEF Inv, Few
<1> QED BY <1>1, <1>2, <1>3, <1>4, Invariance, PTL DEF Spec, PreviousKept
------------------------------------------------------------------------------
(* The unready window: what WindowCloses rests on, but for the fairness.     *)

\* Where pointer and status may disagree although nothing goes wrong.
InWindow == pc \in {"pointed", "linked", "restoring"}

\* A committed generation that the status names is the settled one, and publish
\* finds it there.
SteadyInv ==
  Undisturbed =>
    /\ status.snapshot \in committed => status.snapshot = Base
    /\ pc = "moved" => pointer = previous
    /\ pc \in {"restoring", "relinking", "discarding"} => faults = 1

\* Outside the window of a publication, and before a crash or a second OSError, a
\* store serves the version on record, which no failed refresh replaces: on record
\* is what status.json names, unless its publication was withdrawn.
Steady ==
  Undisturbed /\ ~InWindow /\ status.snapshot \in committed => Served = status.snapshot

\* The window opens at WritePointer; WriteStatus or the rollback closes it.
LEMMA SteadyInvStep ==
  ASSUME IInv, SteadyInv, [Next]_vars
  PROVE  SteadyInv'
<1> DEFINE Goal ==
       /\ status'.snapshot \in committed' => status'.snapshot = Base'
       /\ pc' = "moved" => pointer' = previous'
       /\ pc' \in {"restoring", "relinking", "discarding"} => faults' = 1
<1> SUFFICES ASSUME Undisturbed'
             PROVE  Goal
  BY DEF SteadyInv
<1> USE DEF Base, Unsettled
<1>1. /\ status.snapshot \in committed => status.snapshot = Base
      /\ pc = "moved" => pointer = previous
      /\ pc \in {"restoring", "relinking", "discarding"} => faults = 1
  BY UndisturbedBefore DEF IInv, SteadyInv
<1>2. ~Crash /\ (Fault => faults = 0 /\ faults' = 1) /\ (~Fault => faults' = faults)
  BY UndisturbedBefore, FaultsGrow DEF IInv
<1>3. status \in [snapshot : Maybe, error : BOOLEAN] /\ None \notin committed
  BY DEF IInv, TypeOK, None
<1>4. CASE \/ \E g \in Gens : BeginRefresh(g)
           \/ AbandonRefresh \/ CancelRefresh \/ RecordFailure
  BY <1>1, <1>3, <1>4 DEF BeginRefresh, AbandonRefresh, CancelRefresh, RecordFailure, history
<1>5. CASE BeginFault \/ CleanupFault \/ RecordBlind \/ RecordFault \/ PruneFault
  BY <1>1, <1>3, <1>5 DEF BeginFault, CleanupFault, RecordBlind, RecordFault, PruneFault, disk,
                          history
<1>6. CASE MoveStaging
  <2>1. /\ pc = "staged" /\ pc' = "moved" /\ previous' = pointer
        /\ pointer' = pointer /\ status' = status /\ committed' = committed
    BY <1>6, CurrentPathIsPointer DEF MoveStaging, IInv
  <2> QED BY <1>1, <2>1
<1>7. CASE WritePointer \/ ReplaceLink
  BY <1>1, <1>7 DEF WritePointer, ReplaceLink, local, history
<1>8. CASE WriteStatus
  BY <1>8 DEF WriteStatus, IInv, Protocol
<1>9. CASE PublishFault \/ StatusFault
  BY <1>1, <1>2, <1>9 DEF PublishFault, StatusFault, disk, local, history, Fault
<1>10. CASE RestorePointer \/ RestoreLink
  BY <1>1, <1>2, <1>10 DEF RestorePointer, RestoreLink, local, history, counters
<1>11. CASE Discard
  <2>1. /\ pc = "discarding" /\ pc' \in {"discarding", "recording"} /\ pointer = previous
        /\ UNCHANGED <<pointer, previous, status, committed, faults>>
    BY <1>11 DEF Discard, local, history, counters, IInv, Protocol
  <2> QED BY <1>1, <2>1
<1>12. CASE RestoreFault \/ DiscardFault
  BY <1>1, <1>2, <1>12 DEF RestoreFault, DiscardFault, Fault
<1>13. CASE PruneOne \/ PruneDone
  BY <1>1, <1>13 DEF PruneOne, PruneDone, disk, history
<1>14. CASE UNCHANGED vars \/ \E r \in Readers : Reader(r)
  <2>1. UNCHANGED <<pointer, status, pc, previous, committed, faults>>
    BY <1>14 DEF vars, disk, local, history, counters, Reader, ReadPointer, ReadStatus,
                 CheckPaths, Resolve, Load
  <2> QED BY <1>1, <2>1
<1> HIDE DEF Goal
<1> QED BY <1>2, <1>4, <1>5, <1>6, <1>7, <1>8, <1>9, <1>10, <1>11, <1>12, <1>13, <1>14
        DEF Next, Writer, Publish, Fault

\* A refresh that fails, at any point and for any one OSError but the one that falls
\* after status.json was replaced, leaves readers the version on record: otherwise
\* only a crash or a second OSError in the window takes it away.
THEOREM StoreIsSteady == Spec => []Steady
<1>1. Init => SteadyInv
  BY DEF Init, SteadyInv, Base, Unsettled
<1>2. IInv /\ SteadyInv /\ [Next]_vars => SteadyInv'
  BY SteadyInvStep
<1>3. IInv /\ SteadyInv => Steady
  <2> SUFFICES ASSUME IInv, SteadyInv, Undisturbed, ~InWindow, status.snapshot \in committed
               PROVE  Served = status.snapshot
    BY DEF Steady
  <2>1. status.snapshot = pointer
    BY DEF SteadyInv, InWindow, Base, Unsettled, IInv, Protocol
  <2>2. dirs[pointer] = "complete"
    BY <2>1 DEF IInv, TypeOK, NothingDangles, None
  <2> QED BY <2>1, <2>2 DEF Served, IInv, TypeOK, None
<1> QED BY <1>1, <1>2, <1>3, Invariance, PTL DEF Spec

\* How far a transaction is from its end: its place first, then what it has yet to
\* delete, a directory counting twice while it is whole.
StepsLeft ==
  [staged |-> 9, moved |-> 8, pointed |-> 7, linked |-> 6, restoring |-> 5, relinking |-> 4,
   discarding |-> 3, pruning |-> 2, recording |-> 1, idle |-> 0][pc]
Whole == {g \in Gens : dirs[g] = "complete"}
FilesLeft == Cardinality(Present) + Cardinality(Whole)

\* Whatever a transaction under way does, its faults included, brings it closer to
\* its end.
TransactionEnds ==
  [][pc # "idle" => \/ UNCHANGED <<pc, dirs>>
                    \/ StepsLeft' < StepsLeft
                    \/ pc' = pc /\ FilesLeft' < FilesLeft]_vars

\* rmtree makes progress: a whole directory is no longer whole, any other is gone.
LEMMA UnlinkProgress ==
  ASSUME TypeOK, IsFiniteSet(Present), NEW s \in Present, Unlink(s)
  PROVE  FilesLeft' < FilesLeft
<1>1. /\ dirs \in [Gens -> {"absent", "partial", "complete"}] /\ s \in Gens
      /\ dirs' = [dirs EXCEPT ![s] = IF @ = "complete" THEN "partial" ELSE "absent"]
  BY DEF TypeOK, Present, Unlink
<1>2. IsFiniteSet(Whole)
  <2>1. Whole \subseteq Present
    BY DEF Whole, Present
  <2> QED BY <2>1, FS_Subset
<1>3. Cardinality(Present) \in Nat /\ Cardinality(Whole) \in Nat
  BY <1>2, FS_CardinalityType
<1>4. CASE dirs[s] = "complete"
  <2>1. Present' = Present /\ Whole' = Whole \ {s} /\ s \in Whole
    BY <1>1, <1>4 DEF Present, Whole
  <2>2. Cardinality(Whole \ {s}) = Cardinality(Whole) - 1
    BY <1>2, <2>1, FS_RemoveElement
  <2> QED BY <1>3, <2>1, <2>2 DEF FilesLeft
<1>5. CASE dirs[s] # "complete"
  <2>1. Present' = Present \ {s} /\ Whole' = Whole
    BY <1>1, <1>5 DEF Present, Whole
  <2>2. Cardinality(Present \ {s}) = Cardinality(Present) - 1
    BY FS_RemoveElement
  <2> QED BY <1>3, <2>1, <2>2 DEF FilesLeft
<1> QED BY <1>4, <1>5

\* A transaction never returns to a point it has left, and it deletes what it has
\* to delete in a bounded number of steps: with fairness it always comes to its end.
THEOREM TransactionAlwaysEnds == Spec => TransactionEnds
<1>1. Init => IsFiniteSet(Present)
  <2>1. Init => Present = {}
    BY DEF Init, Present
  <2> QED BY <2>1, FS_EmptySet
<1>2. IInv /\ IsFiniteSet(Present) /\ [Next]_vars => IsFiniteSet(Present)'
  BY PresentIsFinite
<1>3. ASSUME IInv, IsFiniteSet(Present), [Next]_vars, pc # "idle"
      PROVE  \/ UNCHANGED <<pc, dirs>>
             \/ StepsLeft' < StepsLeft
             \/ pc' = pc /\ FilesLeft' < FilesLeft
  <2>1. CASE \/ \E g \in Gens : BeginRefresh(g)
             \/ BeginFault
    BY <1>3, <2>1 DEF BeginRefresh, BeginFault
  <2>2. CASE AbandonRefresh \/ CancelRefresh \/ RecordFailure
    BY <2>2 DEF AbandonRefresh, CancelRefresh, RecordFailure, StepsLeft
  <2>3. CASE MoveStaging \/ WritePointer \/ ReplaceLink \/ WriteStatus
    BY <2>3 DEF MoveStaging, WritePointer, ReplaceLink, WriteStatus, StepsLeft
  <2>4. CASE RestorePointer \/ RestoreLink \/ PruneDone
    BY <2>4 DEF RestorePointer, RestoreLink, PruneDone, StepsLeft
  <2>5. CASE CleanupFault \/ RecordBlind \/ RecordFault \/ DiscardFault \/ PruneFault
    BY <2>5 DEF CleanupFault, RecordBlind, RecordFault, DiscardFault, PruneFault, StepsLeft
  <2>6. CASE PublishFault \/ StatusFault \/ RestoreFault
    <3>1. \/ pc \in {"moved", "pointed", "linked"} /\ pc' = "restoring"
          \/ pc \in {"restoring", "relinking"} /\ pc' = "recording"
      BY <2>6 DEF PublishFault, StatusFault, RestoreFault
    <3> QED BY <3>1 DEF StepsLeft
  <2>7. CASE Discard
    <3>1. /\ pc = "discarding" /\ pc' \in {"discarding", "recording"} /\ Unlink(gen)
          /\ pc' = "discarding" => dirs[gen] = "complete"
      BY <2>7 DEF Discard
    <3>2. CASE pc' = "recording"
      BY <3>1, <3>2 DEF StepsLeft
    <3>3. CASE pc' = "discarding"
      <4>1. gen \in Present
        BY <3>1, <3>3, <1>3 DEF IInv, Protocol, Present
      <4> QED BY <1>3, <3>1, <3>3, <4>1, UnlinkProgress DEF IInv
    <3> QED BY <3>1, <3>2, <3>3
  <2>8. CASE PruneOne
    <3>1. PICK s \in Doomed : Unlink(s)
      BY <2>8 DEF PruneOne
    <3>2. s \in Present /\ pc' = pc
      BY <2>8 DEF PruneOne, Doomed
    <3> QED BY <1>3, <3>1, <3>2, UnlinkProgress DEF IInv
  <2>9. CASE Crash
    <3>1. pc' = "idle" /\ StepsLeft' = 0
      BY <2>9 DEF Crash, StepsLeft
    <3>2. StepsLeft \in 1..9
      BY <1>3 DEF IInv, TypeOK, StepsLeft
    <3> QED BY <3>1, <3>2
  <2>10. CASE UNCHANGED vars \/ \E r \in Readers : Reader(r)
    BY <2>10 DEF vars, disk, Reader, ReadPointer, ReadStatus, CheckPaths, Resolve, Load
  <2> QED BY <1>3, <2>1, <2>2, <2>3, <2>4, <2>5, <2>6, <2>7, <2>8, <2>9, <2>10
          DEF Next, Writer, Publish, Fault
<1>4. IInv /\ IsFiniteSet(Present) /\ [Next]_vars =>
        [pc # "idle" => \/ UNCHANGED <<pc, dirs>>
                        \/ StepsLeft' < StepsLeft
                        \/ pc' = pc /\ FilesLeft' < FilesLeft]_vars
  BY <1>3
<1> QED BY <1>1, <1>2, <1>4, Invariance, PTL DEF Spec, TransactionEnds
=============================================================================
