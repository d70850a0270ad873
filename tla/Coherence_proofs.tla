------------------------- MODULE Coherence_proofs -------------------------
EXTENDS Coherence, TLAPS

\* The initial records of a resolve and of the worker are well typed, and the
\* coordinates of every object and key are coordinates.
LEMMA ConstantTypes ==
    /\ NoBody \in Body /\ NoCell \in Body
    /\ NoRec \in RecState
    /\ Idle \in ResolveState
    /\ IdleWorker \in WorkerState
    /\ \A o \in Objects : Buckets(o) \subseteq Coords
    /\ \A c \in Coords : TypeOf(c) \in Gvrs
<1>1. NoBody \in Body /\ NoCell \in Body
  BY DEF NoBody, NoCell, Body, Unread
<1>2. \E c : c \in Coords
  BY ConstantsAssumption DEF Coords
<1>3. NoRec \in RecState
  BY <1>2 DEF NoRec, RecState
<1>4. Idle \in ResolveState
  BY <1>1, <1>3, ConstantsAssumption DEF Idle, ResolveState
<1>5. IdleWorker \in WorkerState
  BY ConstantsAssumption DEF IdleWorker, WorkerState
<1>6. \A o \in Objects : Buckets(o) \subseteq Coords
  BY ConstantsAssumption DEF Buckets, Coords
<1>7. \A c \in Coords : TypeOf(c) \in Gvrs
  BY ConstantsAssumption DEF TypeOf, Coords
<1> QED BY <1>1, <1>3, <1>4, <1>5, <1>6, <1>7

\* The empty tracker, store and queues at process start are well typed.
LEMMA TypeInit == Init => TypeOK
  BY ConstantTypes, ConstantsAssumption
  DEF Init, TypeOK, InformerTypeOK, DepTypeOK, MarkTypeOK, StoreTypeOK, Coords, NoBucket, NoTomb

----------------------------------------------------------------------------
\* The operators several actions share keep the types.

\* Detaching the buckets of half-done Records keeps the resolves well typed.
LEMMA DetachedType ==
    ASSUME NEW rs \in [Resolvers -> ResolveState], NEW pruned
    PROVE  Detached(rs, pruned) \in [Resolvers -> ResolveState]
<1> SUFFICES ASSUME NEW r \in Resolvers
             PROVE  [rs[r] EXCEPT !.rec.detached = TRUE] \in ResolveState
  BY DEF Detached
<1>1. rs[r] \in ResolveState
  OBVIOUS
<1>2. [rs[r].rec EXCEPT !.detached = TRUE] \in RecState
  BY <1>1 DEF ResolveState, RecState
<1> QED BY <1>1, <1>2 DEF ResolveState

\* RemoveL1Key keeps the tracker and the resolves well typed.
LEMMA RemoveL1KeyType ==
    ASSUME TypeOK, NEW k \in Keys
    PROVE  /\ RemoveL1Key(k) => DepTypeOK'
           /\ ResAfterRemove(k) \in [Resolvers -> ResolveState]
<1>1. RemoveL1Key(k) => DepTypeOK'
  BY DEF TypeOK, DepTypeOK, RemoveL1Key, ForwardWithout, NoBucket
<1> DEFINE rs == [r \in Resolvers |->
                    IF res[r].key = k /\ res[r].ownDS = "same" /\ reverse[k] # {}
                    THEN [res[r] EXCEPT !.ownDS = "changed"] ELSE res[r]]
<1>2. rs \in [Resolvers -> ResolveState]
  BY DEF TypeOK, ResolveState
<1>3. Detached(rs, Emptied(k)) \in [Resolvers -> ResolveState]
  BY <1>2, DetachedType
<1> QED BY <1>1, <1>3 DEF ResAfterRemove

\* A removal of a cell (removeElementLocked, deleteForDep) keeps the types.
LEMMA RemoveCellType ==
    ASSUME TypeOK, NEW k \in Keys, RemoveCell(k)
    PROVE  DepTypeOK' /\ StoreTypeOK'
<1>1. DepTypeOK'
  BY RemoveL1KeyType DEF RemoveCell
<1>2. StoreTypeOK'
  BY ConstantTypes DEF RemoveCell, NextGen, TypeOK, StoreTypeOK
<1> QED BY <1>1, <1>2

\* onDirtyMark keeps the queue and the mark sequences well typed.
LEMMA OnDirtyMarkType ==
    ASSUME TypeOK, NEW k \in Keys, OnDirtyMark(k)
    PROVE  MarkTypeOK'
  BY DEF TypeOK, DepTypeOK, MarkTypeOK, OnDirtyMark, markVars

\* A resolve with only its deferred release left is well typed.
LEMMA EndingType ==
    ASSUME TypeOK, NEW r \in Resolvers
    PROVE  Ending(r) \in ResolveState
  BY ConstantTypes DEF TypeOK, Ending, ResolveState

----------------------------------------------------------------------------
\* Type correctness, one lemma per actor.

\* Every step of the dep-event worker keeps the types.
LEMMA WorkerType ==
    ASSUME TypeOK, Worker
    PROVE  TypeOK'
<1> USE DEF informerVars, depVars, markVars, storeVars
<1>1. ASSUME NEW o \in Objects, WorkerTake(o) PROVE TypeOK'
  <2>1. worker' \in WorkerState
    <3>1. PICK st \in {IF o \in alive THEN "EXISTS" ELSE "ABSENT", "UNKNOWN_DEGRADED"} :
             worker' = [worker EXCEPT !.pc = "add", !.obj = o, !.state = st]
      BY <1>1 DEF WorkerTake
    <3>2. st \in {"EXISTS", "ABSENT", "UNKNOWN_DEGRADED"}
      OBVIOUS
    <3> QED BY <1>1, <3>1, <3>2 DEF TypeOK, WorkerState
  <2> QED BY <1>1, <2>1
      DEF WorkerTake, TypeOK, InformerTypeOK, DepTypeOK, MarkTypeOK, StoreTypeOK
<1>2. CASE BumpAdd
  <2>1. worker' \in WorkerState
    <3>1. seq + 1 \in Nat
      BY DEF TypeOK, DepTypeOK
    <3> QED BY <1>2, <3>1 DEF BumpAdd, TypeOK, WorkerState
  <2> QED BY <1>2, <2>1
      DEF BumpAdd, TypeOK, InformerTypeOK, DepTypeOK, MarkTypeOK, StoreTypeOK
<1>3. CASE BumpFloor
  <2>1. DepTypeOK'
    BY <1>3, ConstantsAssumption DEF BumpFloor, RaisedFloor, TypeOK, DepTypeOK, WorkerState, MaxOf
  <2>2. worker' \in WorkerState
    BY <1>3, ConstantTypes DEF BumpFloor, TypeOK, WorkerState
  <2> QED BY <1>3, <2>1, <2>2 DEF BumpFloor, TypeOK, InformerTypeOK, MarkTypeOK, StoreTypeOK
<1>4. CASE BumpStamp
  <2>1. DepTypeOK'
    BY <1>4 DEF BumpStamp, TypeOK, DepTypeOK, WorkerState, MaxOf
  <2>2. worker' \in WorkerState
    BY <1>4 DEF BumpStamp, TypeOK, WorkerState
  <2> QED BY <1>4, <2>1, <2>2 DEF BumpStamp, TypeOK, InformerTypeOK, MarkTypeOK, StoreTypeOK
<1>5. CASE Collect
  <2>1. UNION {edges[c] : c \in Buckets(worker.obj)} \subseteq Keys
    BY ConstantTypes DEF TypeOK, DepTypeOK, WorkerState
  <2>2. worker' \in WorkerState
    BY <1>5, <2>1 DEF Collect, TypeOK, WorkerState
  <2> QED BY <1>5, <2>2 DEF Collect, TypeOK, InformerTypeOK, DepTypeOK, MarkTypeOK, StoreTypeOK
<1>6. ASSUME NEW k \in Keys, EvictOne(k) PROVE TypeOK'
  <2>1. worker' \in WorkerState
    BY <1>6 DEF EvictOne, TypeOK, WorkerState
  <2>2. DepTypeOK' /\ StoreTypeOK' /\ res' \in [Resolvers -> ResolveState]
    BY <1>6, RemoveCellType, RemoveL1KeyType DEF EvictOne, TypeOK, DepTypeOK, StoreTypeOK
  <2> QED BY <1>6, <2>1, <2>2 DEF EvictOne, TypeOK, InformerTypeOK, MarkTypeOK
<1>7. ASSUME NEW k \in Keys, MarkOne(k) PROVE TypeOK'
  <2>1. worker' \in WorkerState
    BY <1>7 DEF MarkOne, TypeOK, WorkerState
  <2>2. MarkTypeOK'
    BY <1>7, OnDirtyMarkType DEF MarkOne
  <2> QED BY <1>7, <2>1, <2>2 DEF MarkOne, TypeOK, InformerTypeOK, DepTypeOK, StoreTypeOK
<1>8. CASE WorkerDone
  BY <1>8, ConstantTypes
  DEF WorkerDone, TypeOK, InformerTypeOK, DepTypeOK, MarkTypeOK, StoreTypeOK
<1> QED BY <1>1, <1>2, <1>3, <1>4, <1>5, <1>6, <1>7, <1>8 DEF Worker

\* Every step of a resolve, from its fetch to its release, keeps the types.
LEMMA ResolveType ==
    ASSUME TypeOK, NEW r \in Resolvers, Resolve(r)
    PROVE  TypeOK'
<1> USE DEF informerVars, depVars, markVars, storeVars
<1>0. res[r] \in ResolveState /\ res[r].key \in Keys /\ res[r].rec \in RecState
  BY DEF TypeOK, ResolveState
<1>1. CASE FetchSelf(r)
  <2>1. Self(r) \in Coords
    BY <1>0, ConstantsAssumption DEF Self, Coords
  <2>2. [res[r].body EXCEPT ![Self(r)] = ver[Self(r)]] \in Body
    BY <1>0, <2>1 DEF TypeOK, InformerTypeOK, ResolveState, Body
  <2>3. res' \in [Resolvers -> ResolveState]
    BY <1>0, <1>1, <2>2, ConstantTypes DEF FetchSelf, TypeOK, ResolveState
  <2> QED BY <1>1, <2>3
      DEF FetchSelf, TypeOK, InformerTypeOK, DepTypeOK, MarkTypeOK, StoreTypeOK
<1>2. CASE CaptureGen(r)
  <2>1. currentGen(res[r].key) \in Nat
    BY <1>0 DEF currentGen, TypeOK, StoreTypeOK
  <2>2. res' \in [Resolvers -> ResolveState]
    BY <1>0, <1>2, <2>1 DEF CaptureGen, TypeOK, DepTypeOK, ResolveState
  <2> QED BY <1>2, <2>2
      DEF CaptureGen, TypeOK, InformerTypeOK, DepTypeOK, MarkTypeOK, StoreTypeOK
<1>3. ASSUME NEW c \in Coords, Read(r, c) PROVE TypeOK'
  <2>1. [res[r].body EXCEPT ![c] = ver[c]] \in Body
    BY <1>0 DEF TypeOK, InformerTypeOK, ResolveState, Body
  <2>2. res' \in [Resolvers -> ResolveState]
    BY <1>0, <1>3, <2>1 DEF Read, TypeOK, ResolveState
  <2> QED BY <1>3, <2>2
      DEF Read, TypeOK, InformerTypeOK, DepTypeOK, MarkTypeOK, StoreTypeOK
<1>4. ASSUME NEW c \in Coords, RecordBegin(r, c) PROVE TypeOK'
  <2>1. [coord |-> c, made |-> bump[c] = NoBucket, detached |-> FALSE,
         step |-> IF bump[c] = NoBucket THEN "inherit" ELSE "insert"] \in RecState
    BY DEF RecState
  <2>2. res' \in [Resolvers -> ResolveState]
    BY <1>0, <1>4, <2>1 DEF RecordBegin, NeedsRecheck, TypeOK, ResolveState
  <2>3. DepTypeOK'
    BY <1>4 DEF RecordBegin, TypeOK, DepTypeOK
  <2> QED BY <1>4, <2>2, <2>3
      DEF RecordBegin, TypeOK, InformerTypeOK, MarkTypeOK, StoreTypeOK
<1>5. CASE RecordInherit(r)
  <2>1. [res[r].rec EXCEPT !.step = "insert"] \in RecState
    BY <1>0 DEF RecState
  <2>2. res' \in [Resolvers -> ResolveState]
    BY <1>0, <1>5, <2>1 DEF RecordInherit, TypeOK, ResolveState
  <2>3. res[r].rec.coord \in Coords /\ floor[TypeOf(res[r].rec.coord)] \in Nat
    BY <1>0, ConstantTypes DEF RecState, TypeOK, DepTypeOK
  <2>4. DepTypeOK'
    BY <1>5, <2>3 DEF RecordInherit, TypeOK, DepTypeOK, MaxOf
  <2> QED BY <1>5, <2>2, <2>4
      DEF RecordInherit, TypeOK, InformerTypeOK, MarkTypeOK, StoreTypeOK
<1>6. CASE RecordInsert(r)
  <2> DEFINE k == res[r].key
             c == res[r].rec.coord
             lost == res[r].rec.detached
             dropped == ~(~lost /\ k \in edges[c]) /\ Full
             window == (IF dropped THEN {"cap"} ELSE {})
                         \cup (IF lost /\ ~dropped THEN {"prune"} ELSE {})
             rec == IF res[r].recheck
                    THEN [NoRec EXCEPT !.coord = c, !.step = "recheck"]
                    ELSE NoRec
             done == [res EXCEPT ![r].rec = rec,
                                 ![r].ownDS = IF @ = "none" /\ ~dropped THEN "same" ELSE @,
                                 ![r].win = @ \cup window]
  <2>1. k \in Keys /\ c \in Coords /\ window \in SUBSET Windows
    BY <1>0 DEF RecState, Windows
  <2>2. rec \in RecState
    BY <2>1, ConstantTypes DEF RecState
  <2>3. done \in [Resolvers -> ResolveState]
    <3> HIDE DEF rec, window, dropped
    <3> QED BY <1>0, <2>1, <2>2 DEF TypeOK, ResolveState
  <2>4. res' \in [Resolvers -> ResolveState]
    <3>1. res' = done \/ res' = Detached(done, {c})
      BY <1>6 DEF RecordInsert
    <3>2. Detached(done, {c}) \in [Resolvers -> ResolveState]
      <4> HIDE DEF done
      <4> QED BY <2>3, DetachedType
    <3> HIDE DEF done
    <3> QED BY <2>3, <3>1, <3>2
  <2>5. DepTypeOK'
    BY <1>6, <2>1 DEF RecordInsert, TypeOK, DepTypeOK, NoBucket
  <2>6. StoreTypeOK'
    BY <1>6, <2>1 DEF RecordInsert, TypeOK, StoreTypeOK
  <2> QED BY <1>6, <2>4, <2>5, <2>6 DEF RecordInsert, TypeOK, InformerTypeOK, MarkTypeOK
<1>7. CASE Recheck(r)
  <2> DEFINE moved == depMovedSince(res[r].rec.coord, res[r].checked)
  <2>0. moved \in BOOLEAN
    BY DEF depMovedSince
  <2>1. res' \in [Resolvers -> ResolveState]
    <3>1. res' = [res EXCEPT ![r].rec = NoRec, ![r].remarked = moved]
      BY <1>7 DEF Recheck
    <3> HIDE DEF moved
    <3> QED BY <1>0, <2>0, <3>1, ConstantTypes DEF TypeOK, ResolveState
  <2>2. MarkTypeOK'
    BY <1>0, <1>7, OnDirtyMarkType DEF Recheck, TypeOK, MarkTypeOK
  <2>3. StoreTypeOK'
    BY <1>0, <1>7 DEF Recheck, TypeOK, StoreTypeOK, Windows
  <2> QED BY <1>7, <2>1, <2>2, <2>3 DEF Recheck, TypeOK, InformerTypeOK, DepTypeOK
<1>8. CASE PutAccepted(r)
  <2> DEFINE k == res[r].key
  <2>1. PICK again \in SUBSET (res[r].own) :
          /\ ReassertOwnEdges(r, again)
          /\ exposed' \in [Keys -> SUBSET Windows]
    BY <1>0, <1>8 DEF PutAccepted, Missing, TypeOK, StoreTypeOK, ResolveState, Windows
  <2>2. DepTypeOK'
    BY <1>0, <2>1, ConstantTypes
    DEF ReassertOwnEdges, NewBucketStamp, TypeOK, DepTypeOK, ResolveState, NoBucket
  <2>3. currentGen(k) \in Nat
    BY <1>0 DEF currentGen, TypeOK, StoreTypeOK
  <2>4. StoreTypeOK'
    BY <1>0, <1>8, <2>1, <2>3 DEF PutAccepted, TypeOK, StoreTypeOK, ResolveState, NoTomb
  <2>5. MarkTypeOK'
    BY <1>0, <1>8 DEF PutAccepted, TypeOK, MarkTypeOK, DepTypeOK
  <2>6. res' \in [Resolvers -> ResolveState]
    <3>1. res' = [res EXCEPT ![r].pc = "check", ![r].body = NoBody, ![r].gen = 0, ![r].win = {}]
      BY <1>8 DEF PutAccepted
    <3>2. [res[r] EXCEPT !.pc = "check", !.body = NoBody, !.gen = 0, !.win = {}] \in ResolveState
      BY <1>0, ConstantTypes DEF TypeOK, ResolveState
    <3> QED BY <1>0, <3>1, <3>2 DEF TypeOK
  <2> QED BY <1>8, <2>2, <2>4, <2>5, <2>6 DEF PutAccepted, TypeOK, InformerTypeOK
<1>9. CASE PutRefused(r)
  <2>1. DepTypeOK' /\ res' \in [Resolvers -> ResolveState]
    BY <1>0, <1>9, RemoveL1KeyType, EndingType DEF PutRefused, TypeOK, DepTypeOK
  <2>2. MarkTypeOK'
    BY <1>0, <1>9 DEF PutRefused, TypeOK, MarkTypeOK
  <2> QED BY <1>9, <2>1, <2>2 DEF PutRefused, TypeOK, InformerTypeOK, StoreTypeOK
<1>10. CASE CheckBegin(r)
  <2>1. res' \in [Resolvers -> ResolveState]
    BY <1>0, <1>10 DEF CheckBegin, TypeOK, DepTypeOK, ResolveState
  <2>2. StoreTypeOK'
    BY <1>0, <1>10 DEF CheckBegin, TypeOK, StoreTypeOK, Windows
  <2> QED BY <1>10, <2>1, <2>2 DEF CheckBegin, TypeOK, InformerTypeOK, DepTypeOK, MarkTypeOK
<1>11. CASE CheckScan(r)
  <2>1. res' \in [Resolvers -> ResolveState]
    BY <1>0, <1>11, EndingType DEF CheckScan, TypeOK, ResolveState
  <2>2. MarkTypeOK'
    BY <1>0, <1>11, OnDirtyMarkType DEF CheckScan, TypeOK, MarkTypeOK
  <2>3. StoreTypeOK'
    BY <1>0, <1>11 DEF CheckScan, TypeOK, StoreTypeOK, Windows
  <2> QED BY <1>11, <2>1, <2>2, <2>3 DEF CheckScan, TypeOK, InformerTypeOK, DepTypeOK
<1>12. CASE LateDone(r)
  <2>1. res' \in [Resolvers -> ResolveState]
    BY <1>12, EndingType DEF LateDone, TypeOK
  <2> QED BY <1>12, <2>1
      DEF LateDone, TypeOK, InformerTypeOK, DepTypeOK, MarkTypeOK, StoreTypeOK
<1>13. CASE Decline(r)
  <2>1. res' \in [Resolvers -> ResolveState]
    BY <1>13, EndingType DEF Decline, TypeOK
  <2>2. MarkTypeOK' /\ StoreTypeOK'
    BY <1>0, <1>13 DEF Decline, Requeued, TypeOK, MarkTypeOK, StoreTypeOK
  <2> QED BY <1>13, <2>1, <2>2 DEF Decline, TypeOK, InformerTypeOK, DepTypeOK
<1>14. CASE SelfGone(r)
  <2>1. DepTypeOK' /\ StoreTypeOK' /\ res' \in [Resolvers -> ResolveState]
    BY <1>0, <1>14, RemoveCellType, RemoveL1KeyType, EndingType
    DEF SelfGone, TypeOK, DepTypeOK, StoreTypeOK
  <2>2. MarkTypeOK'
    BY <1>0, <1>14 DEF SelfGone, Requeued, TypeOK, MarkTypeOK
  <2> QED BY <1>14, <2>1, <2>2 DEF SelfGone, TypeOK, InformerTypeOK
<1>15. CASE Release(r)
  <2>1. DepTypeOK' /\ res' \in [Resolvers -> ResolveState]
    BY <1>0, <1>15, RemoveL1KeyType, ConstantTypes DEF Release, TypeOK, DepTypeOK
  <2> QED BY <1>15, <2>1 DEF Release, TypeOK, InformerTypeOK, MarkTypeOK, StoreTypeOK
<1> QED
  BY <1>1, <1>2, <1>3, <1>4, <1>5, <1>6, <1>7, <1>8, <1>9, <1>10, <1>11, <1>12, <1>13,
     <1>14, <1>15 DEF Resolve

\* Every step of the protocol keeps the types.
LEMMA TypeNext ==
    ASSUME TypeOK, [Next]_vars
    PROVE  TypeOK'
<1> USE DEF informerVars, depVars, markVars, storeVars
<1>1. ASSUME NEW o \in Objects, ObjectEvent(o) PROVE TypeOK'
  <2>1. InformerTypeOK'
    BY <1>1 DEF ObjectEvent, TypeOK, InformerTypeOK
  <2> QED BY <1>1, <2>1 DEF ObjectEvent, TypeOK, DepTypeOK, MarkTypeOK, StoreTypeOK
<1>2. ASSUME NEW r \in Callers, NEW k \in Keys, NEW kd \in CallerKinds, Enter(r, k, kd)
      PROVE  TypeOK'
  <2>1. SelfOf[k] \in Coords /\ kd \in {"call", "seed"} /\ r \in Resolvers
    BY ConstantsAssumption DEF Coords, Resolvers
  <2>2. res' \in [Resolvers -> ResolveState]
    <3>1. [Idle EXCEPT !.pc = "entry", !.key = k, !.kind = kd,
                       !.start = seq, !.sink = Predeclared(k)] \in ResolveState
      BY <2>1, ConstantTypes DEF TypeOK, DepTypeOK, ResolveState, Predeclared
    <3> QED BY <1>2, <2>1, <3>1 DEF Enter, TypeOK
  <2> QED BY <1>2, <2>2
      DEF Enter, TypeOK, InformerTypeOK, DepTypeOK, MarkTypeOK, StoreTypeOK
<1>3. ASSUME NEW r \in Refreshers, NEW k \in Keys, Dequeue(r, k)
      PROVE  TypeOK'
  <2>1. res' \in [Resolvers -> ResolveState]
    BY <1>3, ConstantTypes DEF Dequeue, TypeOK, ResolveState
  <2>2. MarkTypeOK'
    BY <1>3 DEF Dequeue, TypeOK, MarkTypeOK
  <2> QED BY <1>3, <2>1, <2>2 DEF Dequeue, TypeOK, InformerTypeOK, DepTypeOK, StoreTypeOK
<1>4. ASSUME NEW k \in Keys, Evict(k) PROVE TypeOK'
  <2>1. DepTypeOK' /\ StoreTypeOK' /\ res' \in [Resolvers -> ResolveState]
    BY <1>4, RemoveCellType, RemoveL1KeyType DEF Evict
  <2> QED BY <1>4, <2>1 DEF Evict, TypeOK, InformerTypeOK, MarkTypeOK
<1>5. ASSUME NEW k \in Keys, ExpireTombstone(k) PROVE TypeOK'
  BY <1>5 DEF ExpireTombstone, TypeOK, InformerTypeOK, DepTypeOK, MarkTypeOK, StoreTypeOK, NoTomb
<1>6. CASE UNCHANGED vars
  BY <1>6 DEF vars, TypeOK, InformerTypeOK, DepTypeOK, MarkTypeOK, StoreTypeOK
<1> QED BY <1>1, <1>2, <1>3, <1>4, <1>5, <1>6, WorkerType, ResolveType DEF Next

\* Type correctness of the whole protocol, for every set of keys, objects,
\* types and goroutines and every bound.
THEOREM TypeCorrect == Spec => []TypeOK
  BY TypeInit, TypeNext, PTL DEF Spec

----------------------------------------------------------------------------
\* The floor of a type is at or above the stamp of each of its buckets.

\* The buckets an event matches belong to the type of its object.
LEMMA BucketTypes ==
    ASSUME NEW o \in Objects
    PROVE  /\ GvrOf[o] \in Gvrs
           /\ \A c \in Buckets(o) : c \in Coords /\ TypeOf(c) = GvrOf[o]
  BY ConstantsAssumption DEF Buckets, TypeOf, Coords

\* Pruning buckets (RemoveL1Key) leaves no bucket ahead of its floor.
LEMMA FloorRemove ==
    ASSUME TypeOK, FloorCoversBuckets, NEW k \in Keys, RemoveL1Key(k), UNCHANGED worker
    PROVE  FloorCoversBuckets'
  BY ConstantTypes DEF TypeOK, DepTypeOK, FloorCoversBuckets, RemoveL1Key, NoBucket, TypeOf

\* Without buckets no bucket is ahead of its floor.
LEMMA FloorInit == Init => FloorCoversBuckets
  BY ConstantTypes DEF Init, FloorCoversBuckets, NoBucket, IdleWorker

\* No step puts a bucket ahead of its type's floor: bumpCoordinateGen raises
\* the floor before it stamps, a new bucket inherits at most the floor.
LEMMA FloorNext ==
    ASSUME TypeOK, TypeOK', FloorCoversBuckets, [Next]_vars
    PROVE  FloorCoversBuckets'
<1> USE DEF informerVars, depVars, markVars, storeVars
<1>0. ASSUME UNCHANGED <<bump, floor>>, worker'.pc = "stamp" => UNCHANGED worker
      PROVE  FloorCoversBuckets'
  BY <1>0 DEF FloorCoversBuckets, TypeOf
<1>1. CASE BumpFloor
  <2> DEFINE g == GvrOf[worker.obj]
  <2>1. worker.obj \in Objects /\ g \in Gvrs /\ worker.seq \in Nat
    BY BucketTypes DEF TypeOK, WorkerState
  <2>2. floor' = [floor EXCEPT ![g] = MaxOf(@, worker.seq)] /\ bump' = bump
    BY <1>1 DEF BumpFloor, RaisedFloor
  <2>3. \A h \in Gvrs : floor[h] <= floor'[h] /\ floor'[h] \in Nat
    BY <2>1, <2>2 DEF TypeOK, DepTypeOK, MaxOf
  <2>4. worker'.seq = worker.seq /\ worker'.obj = worker.obj
    BY <1>1 DEF BumpFloor, TypeOK, WorkerState
  <2>5. worker'.seq <= floor'[GvrOf[worker'.obj]]
    BY <2>1, <2>2, <2>4 DEF TypeOK, DepTypeOK, MaxOf
  <2>6. \A c \in Coords : bump'[c] <= floor'[TypeOf(c)]
    BY <2>2, <2>3, ConstantTypes DEF FloorCoversBuckets, TypeOK, DepTypeOK, NoBucket
  <2> QED BY <2>5, <2>6 DEF FloorCoversBuckets, TypeOf
<1>2. CASE BumpStamp
  <2> DEFINE c == IF worker.obj \in worker.todo THEN worker.obj ELSE GvrOf[worker.obj]
  <2>1. /\ c \in Coords /\ TypeOf(c) = GvrOf[worker.obj]
        /\ worker.obj \in Objects /\ worker.seq \in Nat
    BY BucketTypes DEF Buckets, TypeOK, WorkerState
  <2>2. /\ worker.seq <= floor[GvrOf[worker.obj]]
        /\ bump' = [bump EXCEPT ![c] = IF @ = NoBucket THEN @ ELSE MaxOf(@, worker.seq)]
        /\ floor' = floor
    BY <1>2 DEF BumpStamp, FloorCoversBuckets
  <2>3. \A d \in Coords : bump'[d] <= floor'[TypeOf(d)]
    <3> HIDE DEF c
    <3> QED BY <2>1, <2>2, ConstantTypes
        DEF FloorCoversBuckets, TypeOK, DepTypeOK, MaxOf, NoBucket
  <2>4. worker'.seq = worker.seq /\ worker'.obj = worker.obj
    BY <1>2 DEF BumpStamp, TypeOK, WorkerState
  <2> QED BY <2>2, <2>3, <2>4 DEF FloorCoversBuckets, TypeOf
<1>3. ASSUME NEW k \in Keys, EvictOne(k) PROVE FloorCoversBuckets'
  <2>1. worker'.pc = "fanout"
    BY <1>3 DEF EvictOne, TypeOK, WorkerState
  <2>2. CASE RemoveL1Key(k)
    BY <2>1, <2>2, ConstantTypes
    DEF TypeOK, DepTypeOK, FloorCoversBuckets, RemoveL1Key, NoBucket, TypeOf
  <2> QED BY <1>0, <1>3, <2>1, <2>2 DEF EvictOne, RemoveCell
<1>4. CASE Worker
  <2>1. ASSUME NEW o \in Objects, WorkerTake(o) PROVE FloorCoversBuckets'
    BY <1>0, <2>1 DEF WorkerTake, TypeOK, WorkerState
  <2>2. CASE BumpAdd
    BY <1>0, <2>2 DEF BumpAdd, TypeOK, WorkerState
  <2>3. CASE Collect
    BY <1>0, <2>3 DEF Collect, TypeOK, WorkerState
  <2>4. ASSUME NEW k \in Keys, MarkOne(k) PROVE FloorCoversBuckets'
    BY <1>0, <2>4 DEF MarkOne, TypeOK, WorkerState
  <2>5. CASE WorkerDone
    BY <1>0, <2>5 DEF WorkerDone, IdleWorker
  <2> QED BY <1>1, <1>2, <1>3, <1>4, <2>1, <2>2, <2>3, <2>4, <2>5 DEF Worker
<1>5. ASSUME NEW r \in Resolvers, Resolve(r) PROVE FloorCoversBuckets'
  <2>0. res[r].key \in Keys /\ res[r].rec.coord \in Coords
    BY DEF TypeOK, ResolveState, RecState
  <2>1. CASE FetchSelf(r) \/ CaptureGen(r) \/ Recheck(r) \/ CheckBegin(r) \/ CheckScan(r)
             \/ LateDone(r) \/ Decline(r) \/ \E c \in Coords : Read(r, c)
    BY <1>0, <2>1
    DEF FetchSelf, CaptureGen, Recheck, CheckBegin, CheckScan, LateDone, Decline, Read
  <2>2. ASSUME NEW c \in Coords, RecordBegin(r, c) PROVE FloorCoversBuckets'
    BY <2>2, ConstantTypes
    DEF RecordBegin, TypeOK, DepTypeOK, FloorCoversBuckets, TypeOf, NoBucket
  <2>3. CASE RecordInherit(r)
    <3> DEFINE c == res[r].rec.coord
    <3>1. /\ bump' = bump \/ bump' = [bump EXCEPT ![c] = MaxOf(@, floor[TypeOf(c)])]
          /\ UNCHANGED <<floor, worker>>
      BY <2>3 DEF RecordInherit
    <3>2. \A d \in Coords : bump[d] \in Int /\ floor[TypeOf(d)] \in Nat
      BY ConstantTypes DEF TypeOK, DepTypeOK, NoBucket
    <3>3. \A d \in Coords : bump'[d] \in {bump[d], MaxOf(bump[d], floor[TypeOf(d)])}
      BY <2>0, <3>1 DEF TypeOK, DepTypeOK
    <3>4. \A d \in Coords : bump'[d] <= floor'[TypeOf(d)]
      BY <3>1, <3>2, <3>3 DEF FloorCoversBuckets, MaxOf
    <3> QED BY <3>1, <3>4 DEF FloorCoversBuckets, TypeOf
  <2>4. CASE RecordInsert(r)
    <3> DEFINE c == res[r].rec.coord
    <3>1. /\ bump' = bump \/ bump' = [bump EXCEPT ![c] = NoBucket]
          /\ UNCHANGED <<floor, worker>>
      BY <2>4 DEF RecordInsert
    <3>2. \A d \in Coords : bump'[d] = bump[d] \/ bump'[d] = -1
      BY <2>0, <3>1 DEF TypeOK, DepTypeOK, NoBucket
    <3>3. \A d \in Coords : bump'[d] <= floor'[TypeOf(d)]
      BY <3>1, <3>2, ConstantTypes DEF TypeOK, DepTypeOK, FloorCoversBuckets
    <3> QED BY <3>1, <3>3 DEF FloorCoversBuckets, TypeOf
  <2>5. CASE PutAccepted(r)
    <3>1. PICK again : ReassertOwnEdges(r, again)
      BY <2>5 DEF PutAccepted
    <3> QED BY <2>5, <3>1, ConstantTypes
        DEF PutAccepted, ReassertOwnEdges, NewBucketStamp, TypeOK, DepTypeOK, FloorCoversBuckets, TypeOf, NoBucket
  <2>6. CASE PutRefused(r)
    BY <1>0, <2>0, <2>6, FloorRemove DEF PutRefused
  <2>7. CASE SelfGone(r)
    BY <1>0, <2>0, <2>7, FloorRemove DEF SelfGone, RemoveCell
  <2>8. CASE Release(r)
    BY <1>0, <2>0, <2>8, FloorRemove DEF Release, Unstored
  <2> QED BY <1>5, <2>1, <2>2, <2>3, <2>4, <2>5, <2>6, <2>7, <2>8 DEF Resolve
<1>6. CASE \E o \in Objects : ObjectEvent(o)
  BY <1>0, <1>6 DEF ObjectEvent
<1>7. CASE \E r \in Callers, k \in Keys, kd \in CallerKinds : Enter(r, k, kd)
  BY <1>0, <1>7 DEF Enter
<1>8. CASE \E r \in Refreshers, k \in Keys : Dequeue(r, k)
  BY <1>0, <1>8 DEF Dequeue
<1>9. CASE \E k \in Keys : Evict(k) \/ ExpireTombstone(k)
  BY <1>0, <1>9, FloorRemove DEF Evict, ExpireTombstone, RemoveCell
<1>10. CASE UNCHANGED vars
  BY <1>0, <1>10 DEF vars
<1> QED BY <1>4, <1>5, <1>6, <1>7, <1>8, <1>9, <1>10 DEF Next

\* The floor may stand in for any pruned bucket, at every moment of every
\* execution.
THEOREM FloorCorrect == Spec => []FloorCoversBuckets
  BY TypeInit, TypeNext, FloorInit, FloorNext, PTL DEF Spec

----------------------------------------------------------------------------
\* depMovedSince is stable.

\* Pruning a bucket does not make its coordinate look unmoved: the floor
\* answers for it.
LEMMA StableRemove ==
    ASSUME TypeOK, FloorCoversBuckets, NEW k \in Keys, RemoveL1Key(k)
    PROVE  MovedStays
  BY ConstantTypes
  DEF TypeOK, DepTypeOK, FloorCoversBuckets, RemoveL1Key, NoBucket, MovedStays,
      depMovedSince, TypeOf

\* No step makes a moved coordinate look unmoved to depMovedSince.
LEMMA StableNext ==
    ASSUME TypeOK, FloorCoversBuckets, [Next]_vars
    PROVE  MovedStays
<1> USE DEF informerVars, depVars, markVars, storeVars
<1>0. ASSUME UNCHANGED <<bump, floor>> PROVE MovedStays
  BY <1>0 DEF MovedStays, depMovedSince, TypeOf
<1>1. CASE Worker
  <2>1. CASE BumpFloor
    <3>1. floor' = [floor EXCEPT ![GvrOf[worker.obj]] = MaxOf(@, worker.seq)] /\ bump' = bump
      BY <2>1 DEF BumpFloor, RaisedFloor
    <3>2. worker.seq \in Nat
      BY DEF TypeOK, WorkerState
    <3>3. \A h \in Gvrs : floor[h] <= floor'[h] /\ floor'[h] \in Nat
      BY <3>1, <3>2 DEF TypeOK, DepTypeOK, MaxOf
    <3> QED BY <3>1, <3>3, ConstantTypes
        DEF MovedStays, depMovedSince, TypeOf, TypeOK, DepTypeOK
  <2>2. CASE BumpStamp
    <3> DEFINE d == IF worker.obj \in worker.todo THEN worker.obj ELSE GvrOf[worker.obj]
    <3>1. /\ floor' = floor
          /\ bump' = [bump EXCEPT ![d] = IF @ = NoBucket THEN @ ELSE MaxOf(@, worker.seq)]
      BY <2>2 DEF BumpStamp
    <3>2. worker.seq \in Nat
      BY DEF TypeOK, WorkerState
    <3>3. \A c \in Coords : /\ bump[c] = NoBucket <=> bump'[c] = NoBucket
                            /\ bump[c] <= bump'[c] /\ bump'[c] \in Int
      <4> HIDE DEF d
      <4> QED BY <3>1, <3>2 DEF TypeOK, DepTypeOK, MaxOf, NoBucket
    <3> QED BY <3>1, <3>3, ConstantTypes
        DEF MovedStays, depMovedSince, TypeOf, TypeOK, DepTypeOK, NoBucket
  <2>3. ASSUME NEW k \in Keys, EvictOne(k) PROVE MovedStays
    BY <1>0, <2>3, StableRemove DEF EvictOne, RemoveCell
  <2>4. CASE \/ \E o \in Objects : WorkerTake(o)
             \/ BumpAdd \/ Collect \/ WorkerDone
             \/ \E k \in Keys : MarkOne(k)
    BY <1>0, <2>4 DEF WorkerTake, BumpAdd, Collect, WorkerDone, MarkOne
  <2> QED BY <1>1, <2>1, <2>2, <2>3, <2>4 DEF Worker
<1>2. ASSUME NEW r \in Resolvers, Resolve(r) PROVE MovedStays
  <2>0. res[r].key \in Keys /\ res[r].rec.coord \in Coords
    BY DEF TypeOK, ResolveState, RecState
  <2>1. CASE FetchSelf(r) \/ CaptureGen(r) \/ Recheck(r) \/ CheckBegin(r) \/ CheckScan(r)
             \/ LateDone(r) \/ Decline(r) \/ \E c \in Coords : Read(r, c)
    BY <1>0, <2>1
    DEF FetchSelf, CaptureGen, Recheck, CheckBegin, CheckScan, LateDone, Decline, Read
  <2>2. ASSUME NEW c \in Coords, RecordBegin(r, c) PROVE MovedStays
    <3>1. CASE bump[c] # NoBucket
      BY <1>0, <2>2, <3>1 DEF RecordBegin
    <3>2. CASE bump[c] = NoBucket
      <4>1. /\ res'[r].rec.step = "inherit" /\ res'[r].rec.coord = c
            /\ res'[r].rec.detached = FALSE
        BY <2>2, <3>2 DEF RecordBegin, TypeOK, ResolveState
      <4>2. Uninherited({c})'
        BY <4>1 DEF Uninherited
      <4>3. bump' = [bump EXCEPT ![c] = 0] /\ floor' = floor
        BY <2>2, <3>2 DEF RecordBegin
      <4> QED BY <4>2, <4>3 DEF MovedStays, depMovedSince, TypeOf, TypeOK, DepTypeOK
    <3> QED BY <3>1, <3>2
  <2>3. CASE RecordInherit(r)
    <3>0. PICK d \in Coords : d = res[r].rec.coord
      BY <2>0
    <3>1. PICK f \in Nat : f = floor[TypeOf(d)]
      BY ConstantTypes DEF TypeOK, DepTypeOK
    <3>2. bump[d] \in Int /\ bump[d] <= f /\ DOMAIN bump = Coords
      BY <3>1 DEF TypeOK, DepTypeOK, FloorCoversBuckets, NoBucket
    <3>3. CASE UNCHANGED <<bump, floor>>
      BY <1>0, <3>3
    <3>4. CASE ~UNCHANGED <<bump, floor>>
      <4>1. bump' = [bump EXCEPT ![d] = MaxOf(bump[d], f)] /\ floor' = floor
        BY <2>3, <3>0, <3>1, <3>4 DEF RecordInherit
      <4>2. bump'[d] = f /\ \A c \in Coords \ {d} : bump'[c] = bump[c]
        BY <3>2, <4>1 DEF MaxOf
      <4>3. ASSUME NEW s \in 0 .. seq, depMovedSince(d, s) PROVE depMovedSince(d, s)'
        <5>1. s \in Nat
          BY DEF TypeOK, DepTypeOK
        <5> QED BY <3>1, <3>2, <4>2, <4>3, <5>1 DEF depMovedSince, NoBucket
      <4>4. \A c \in Coords \ {d}, s \in 0 .. seq : depMovedSince(c, s) => depMovedSince(c, s)'
        BY <4>1, <4>2 DEF depMovedSince, TypeOf
      <4> QED BY <4>3, <4>4 DEF MovedStays
    <3> QED BY <3>3, <3>4
  <2>4. CASE RecordInsert(r)
    <3> DEFINE d == res[r].rec.coord
    <3>1. /\ bump' = bump \/ bump' = [bump EXCEPT ![d] = NoBucket]
          /\ floor' = floor
      BY <2>4 DEF RecordInsert
    <3>2. \A c \in Coords : bump'[c] = bump[c] \/ bump'[c] = NoBucket
      BY <2>0, <3>1 DEF TypeOK, DepTypeOK
    <3>3. \A c \in Coords : /\ bump[c] \in Int /\ floor[TypeOf(c)] \in Nat
                            /\ bump[c] <= floor[TypeOf(c)]
      BY ConstantTypes DEF TypeOK, DepTypeOK, NoBucket, FloorCoversBuckets
    <3> QED BY <3>1, <3>2, <3>3 DEF MovedStays, depMovedSince, TypeOf, NoBucket
  <2>5. CASE PutAccepted(r)
    <3>1. PICK again : ReassertOwnEdges(r, again)
      BY <2>5 DEF PutAccepted
    <3> QED BY <3>1, ConstantTypes
        DEF ReassertOwnEdges, NewBucketStamp, TypeOK, DepTypeOK, FloorCoversBuckets, TypeOf, NoBucket,
            MovedStays, depMovedSince
  <2>6. CASE PutRefused(r) \/ SelfGone(r) \/ Release(r)
    BY <1>0, <2>0, <2>6, StableRemove DEF PutRefused, SelfGone, Release, RemoveCell
  <2> QED BY <1>2, <2>1, <2>2, <2>3, <2>4, <2>5, <2>6 DEF Resolve
<1>3. CASE \/ \E o \in Objects : ObjectEvent(o)
           \/ \E r \in Callers, k \in Keys, kd \in CallerKinds : Enter(r, k, kd)
           \/ \E r \in Refreshers, k \in Keys : Dequeue(r, k)
           \/ UNCHANGED vars
  BY <1>0, <1>3 DEF ObjectEvent, Enter, Dequeue, vars
<1>4. CASE \E k \in Keys : Evict(k) \/ ExpireTombstone(k)
  BY <1>0, <1>4, StableRemove DEF Evict, ExpireTombstone, RemoveCell
<1> QED BY <1>1, <1>2, <1>3, <1>4 DEF Next

\* depMovedSince never forgets a change, whatever is pruned, published or
\* stamped in the meantime.
THEOREM MovedStable == Spec => MovedIsStable
  BY TypeInit, TypeNext, FloorInit, FloorNext, StableNext, PTL DEF Spec, MovedIsStable

----------------------------------------------------------------------------
\* Every edge has an owner.

Running == {"resolve", "check", "scan", "late", "release"}

RecInside == \A q \in Resolvers : res[q].rec.step # "none" => res[q].pc \in {"resolve", "late"}

\* A step that changes one resolve only, without ending it.
LEMMA OneResolve ==
    ASSUME TypeOK, EdgesOwned, NEW r \in Resolvers,
           \A q \in Resolvers \ {r} : res'[q] = res[q],
           res[r].pc \in Running => res'[r].key = res[r].key /\ res'[r].pc \in Running,
           res'[r].rec.step # "none" => res'[r].pc \in {"resolve", "late"}
    PROVE  /\ RecInside'
           /\ \A q \in Resolvers, k \in Keys : Active(q, k) => Active(q, k)'
  BY DEF EdgesOwned, RecInside, Active, Running

\* A step that leaves the edges and the cells alone.
LEMMA OwnedFrame ==
    ASSUME TypeOK, EdgesOwned, RecInside', UNCHANGED <<edges, reverse, cell>>,
           \A q \in Resolvers, k \in Keys : Active(q, k) => Active(q, k)'
    PROVE  EdgesOwned'
  BY DEF EdgesOwned, RecInside, Resident

\* What the other resolves notice of a removal does not end any of them.
LEMMA RemoveFrame ==
    ASSUME TypeOK, NEW k \in Keys, NEW q \in Resolvers
    PROVE  /\ ResAfterRemove(k)[q].pc = res[q].pc
           /\ ResAfterRemove(k)[q].key = res[q].key
           /\ ResAfterRemove(k)[q].rec.step = res[q].rec.step
<1> DEFINE x == IF res[q].key = k /\ res[q].ownDS = "same" /\ reverse[k] # {}
                THEN [res[q] EXCEPT !.ownDS = "changed"] ELSE res[q]
<1>1. res[q] \in ResolveState /\ res[q].rec \in RecState
  BY DEF TypeOK, ResolveState
<1>2. x \in ResolveState /\ x.pc = res[q].pc /\ x.key = res[q].key /\ x.rec = res[q].rec
  BY <1>1 DEF ResolveState
<1>3. \/ ResAfterRemove(k)[q] = x
      \/ ResAfterRemove(k)[q] = [x EXCEPT !.rec.detached = TRUE]
  BY DEF ResAfterRemove, Detached
<1>4. LET y == [x EXCEPT !.rec.detached = TRUE]
      IN  y.pc = x.pc /\ y.key = x.key /\ y.rec.step = x.rec.step
  <2> HIDE DEF x
  <2> QED BY <1>1, <1>2 DEF ResolveState, RecState
<1> HIDE DEF x
<1> QED BY <1>2, <1>3, <1>4

\* Taking a key's edges down: none of them is left.
LEMMA OwnedStrip ==
    ASSUME TypeOK, EdgesOwned, RecInside', NEW k \in Keys, RemoveL1Key(k),
           \A j \in Keys \ {k} : cell'[j] = cell[j],
           \A q \in Resolvers, j \in Keys \ {k} : Active(q, j) => Active(q, j)'
    PROVE  EdgesOwned'
<1>1. reverse'[k] = {} /\ \A j \in Keys \ {k} : reverse'[j] = reverse[j]
  BY DEF RemoveL1Key, TypeOK, DepTypeOK
<1>2. \A c \in Coords : k \notin edges'[c] /\ edges'[c] \subseteq edges[c]
  BY DEF RemoveL1Key, ForwardWithout, EdgesOwned, TypeOK, DepTypeOK
<1>3. \A j \in Keys, c \in Coords : j \in edges'[c] => c \in reverse'[j]
  BY <1>1, <1>2 DEF EdgesOwned
<1>4. \A j \in Keys : reverse'[j] # {} => Resident(j)' \/ \E q \in Resolvers : Active(q, j)'
  BY <1>1 DEF EdgesOwned, Resident
<1> QED BY <1>3, <1>4 DEF EdgesOwned, RecInside

\* A removal of a resident cell by somebody else than a resolve.
LEMMA OwnedRemoveCell ==
    ASSUME TypeOK, EdgesOwned, NEW k \in Keys, RemoveCell(k), res' = ResAfterRemove(k)
    PROVE  EdgesOwned'
<1>1. RecInside' /\ \A q \in Resolvers, j \in Keys : Active(q, j) => Active(q, j)'
  BY RemoveFrame DEF EdgesOwned, RecInside, Active
<1>2. \A j \in Keys \ {k} : cell'[j] = cell[j]
  BY DEF RemoveCell, TypeOK, StoreTypeOK
<1> QED BY <1>1, <1>2, OwnedStrip DEF RemoveCell

\* There are no edges at process start.
LEMMA OwnedInit == Init => EdgesOwned
  BY ConstantTypes DEF Init, EdgesOwned, Idle, NoRec

\* Every step of a resolve leaves each edge with an owner.
LEMMA OwnedResolve ==
    ASSUME TypeOK, TypeOK', EdgesOwned, NEW r \in Resolvers, Resolve(r)
    PROVE  EdgesOwned'
<1> USE DEF informerVars, depVars, markVars, storeVars
<1>0. /\ res[r] \in ResolveState /\ res[r].key \in Keys
      /\ res[r].rec \in RecState /\ res[r].rec.coord \in Coords
      /\ DOMAIN res = Resolvers
  BY DEF TypeOK, ResolveState, RecState
<1>e. Ending(r).pc = "release" /\ Ending(r).key = res[r].key /\ Ending(r).rec.step = "none"
  BY <1>0, ConstantTypes DEF Ending, Idle, NoRec
<1>i. Idle.pc = "idle" /\ Idle.rec.step = "none"
  BY DEF Idle, NoRec
<1>1. CASE FetchSelf(r)
  <2>1. /\ \A q \in Resolvers \ {r} : res'[q] = res[q]
        /\ res[r].pc = "entry"
        /\ res'[r].rec.step # "none" => res[r].rec.step # "none"
    BY <1>0, <1>1, <1>i DEF FetchSelf, ResolveState
  <2>2. res'[r].rec.step = "none"
    BY <2>1 DEF EdgesOwned
  <2> QED BY <1>1, <2>1, <2>2, OneResolve, OwnedFrame DEF FetchSelf, Running
<1>2. CASE CaptureGen(r)
  <2>1. /\ \A q \in Resolvers \ {r} : res'[q] = res[q]
        /\ res[r].pc = "capture" /\ res'[r].pc = "resolve"
    BY <1>0, <1>2 DEF CaptureGen, ResolveState
  <2> QED BY <1>2, <2>1, OneResolve, OwnedFrame DEF CaptureGen, Running
<1>3. ASSUME NEW c \in Coords, Read(r, c) PROVE EdgesOwned'
  <2>1. /\ \A q \in Resolvers \ {r} : res'[q] = res[q]
        /\ res'[r].pc = "resolve" /\ res'[r].key = res[r].key
    BY <1>0, <1>3 DEF Read, ResolveState
  <2> QED BY <1>3, <2>1, OneResolve, OwnedFrame DEF Read, Running
<1>4. ASSUME NEW c \in Coords, RecordBegin(r, c) PROVE EdgesOwned'
  <2>1. /\ \A q \in Resolvers \ {r} : res'[q] = res[q]
        /\ res'[r].pc = res[r].pc /\ res[r].pc \in {"resolve", "late"}
        /\ res'[r].key = res[r].key
    BY <1>0, <1>4 DEF RecordBegin, MayRecord, ResolveState
  <2> QED BY <1>4, <2>1, OneResolve, OwnedFrame DEF RecordBegin, Running
<1>5. CASE RecordInherit(r)
  <2>1. /\ \A q \in Resolvers \ {r} : res'[q] = res[q]
        /\ res'[r].pc = res[r].pc /\ res[r].pc \in {"resolve", "late"}
        /\ res'[r].key = res[r].key
    BY <1>0, <1>5 DEF RecordInherit, EdgesOwned, ResolveState
  <2> QED BY <1>5, <2>1, OneResolve, OwnedFrame DEF RecordInherit, Running
<1>6. CASE RecordInsert(r)
  <2> DEFINE k == res[r].key
             c == res[r].rec.coord
  <2>1. res[r].pc \in {"resolve", "late"}
    BY <1>6 DEF RecordInsert, EdgesOwned
  <2>2. \A q \in Resolvers : /\ res'[q].pc = res[q].pc /\ res'[q].key = res[q].key
                             /\ res'[q].rec.step # "none" => res'[q].pc \in {"resolve", "late"}
    <3> DEFINE lost == res[r].rec.detached
               dropped == ~(~lost /\ k \in edges[c]) /\ Full
               window == (IF dropped THEN {"cap"} ELSE {})
                           \cup (IF lost /\ ~dropped THEN {"prune"} ELSE {})
               rec == IF res[r].recheck
                      THEN [NoRec EXCEPT !.coord = c, !.step = "recheck"]
                      ELSE NoRec
               done == [res EXCEPT ![r].rec = rec,
                                   ![r].ownDS = IF @ = "none" /\ ~dropped THEN "same" ELSE @,
                                   ![r].win = @ \cup window]
    <3>1. res' = done \/ res' = Detached(done, {c})
      BY <1>6 DEF RecordInsert
    <3>2. rec \in RecState /\ window \in SUBSET Windows
      BY <1>0, ConstantTypes DEF RecState, Windows
    <3>3. done \in [Resolvers -> ResolveState]
      <4> HIDE DEF rec, window, dropped
      <4> QED BY <1>0, <3>2 DEF TypeOK, ResolveState
    <3>4. \A q \in Resolvers :
             /\ done[q].pc = res[q].pc /\ done[q].key = res[q].key
             /\ q # r => done[q].rec = res[q].rec
      <4> HIDE DEF rec, window, dropped
      <4> QED BY <1>0 DEF TypeOK, ResolveState
    <3>5. \A q \in Resolvers :
             LET y == [done[q] EXCEPT !.rec.detached = TRUE]
             IN  y.pc = done[q].pc /\ y.key = done[q].key /\ y.rec.step = done[q].rec.step
      <4> HIDE DEF done
      <4> QED BY <3>3 DEF ResolveState, RecState
    <3>6. \A q \in Resolvers : /\ res'[q].pc = done[q].pc /\ res'[q].key = done[q].key
                               /\ res'[q].rec.step = done[q].rec.step
      <4>1. \A q \in Resolvers : \/ res'[q] = done[q]
                                 \/ res'[q] = [done[q] EXCEPT !.rec.detached = TRUE]
        <5>1. res' = done \/ res' = Detached(done, {c})
          BY <3>1
        <5> HIDE DEF done
        <5> QED BY <5>1 DEF Detached
      <4> HIDE DEF done
      <4> QED BY <3>5, <4>1
    <3> HIDE DEF done
    <3> QED BY <2>1, <3>4, <3>6 DEF EdgesOwned
  <2>3. /\ \A d \in Coords, j \in Keys : j \in edges'[d] => j \in edges[d] \/ (j = k /\ d = c)
        /\ \A j \in Keys : reverse[j] \subseteq reverse'[j]
        /\ \A j \in Keys \ {k} : reverse'[j] = reverse[j]
        /\ edges' # edges => c \in reverse'[k]
        /\ cell' = cell
    <3>1. /\ edges' = edges \/ edges' = [edges EXCEPT ![c] = @ \cup {k}]
          /\ reverse' = reverse \/ reverse' = [reverse EXCEPT ![k] = @ \cup {c}]
          /\ edges' # edges => reverse' = [reverse EXCEPT ![k] = @ \cup {c}]
          /\ cell' = cell
      BY <1>6 DEF RecordInsert
    <3> QED BY <1>0, <3>1 DEF TypeOK, DepTypeOK
  <2>4. \A j \in Keys, d \in Coords : j \in edges'[d] => d \in reverse'[j]
    BY <2>3 DEF EdgesOwned
  <2>5. \A j \in Keys : j = k => Active(r, j)'
    BY <2>1, <2>2 DEF Active
  <2>6. \A q \in Resolvers, j \in Keys : Active(q, j) => Active(q, j)'
    BY <2>2 DEF Active
  <2>7. \A j \in Keys : reverse'[j] # {} => Resident(j)' \/ \E q \in Resolvers : Active(q, j)'
    BY <2>3, <2>5, <2>6 DEF EdgesOwned, Resident
  <2> QED BY <2>2, <2>4, <2>7 DEF EdgesOwned
<1>7. CASE Recheck(r)
  <2>1. /\ \A q \in Resolvers \ {r} : res'[q] = res[q]
        /\ res'[r].pc = res[r].pc /\ res[r].pc \in {"resolve", "late"}
        /\ res'[r].key = res[r].key
    BY <1>0, <1>7 DEF Recheck, EdgesOwned, ResolveState
  <2> QED BY <1>7, <2>1, OneResolve, OwnedFrame DEF Recheck, Running
<1>8. CASE PutAccepted(r)
  <2> DEFINE k == res[r].key
  <2>1. PICK again \in SUBSET (res[r].own) : ReassertOwnEdges(r, again)
    BY <1>0, <1>8 DEF PutAccepted, Missing
  <2>2. /\ \A q \in Resolvers \ {r} : res'[q] = res[q]
        /\ res'[r].pc = "check" /\ res'[r].key = k /\ res'[r].rec.step = "none"
    BY <1>0, <1>8 DEF PutAccepted, ReadyToPut, ResolveState
  <2>3. RecInside' /\ \A q \in Resolvers, j \in Keys : Active(q, j) => Active(q, j)'
    BY <2>2, OneResolve DEF Running
  <2>4. \A j \in Keys : j = k => Active(r, j)'
    BY <2>2 DEF Active
  <2>5. \A j \in Keys \ {k} : reverse'[j] = reverse[j] /\ cell'[j] = cell[j]
    <3>1. cell' = [cell EXCEPT ![k] = res[r].body]
      BY <1>8 DEF PutAccepted
    <3>2. reverse' = [reverse EXCEPT ![k] = @ \cup again]
      BY <2>1 DEF ReassertOwnEdges
    <3> QED BY <1>0, <3>1, <3>2 DEF TypeOK, DepTypeOK, StoreTypeOK
  <2>6. \A j \in Keys, d \in Coords : j \in edges'[d] => d \in reverse'[j]
    BY <1>0, <2>1, <2>5 DEF ReassertOwnEdges, NewBucketStamp, TypeOK, DepTypeOK, EdgesOwned
  <2>7. \A j \in Keys : reverse'[j] # {} => Resident(j)' \/ \E q \in Resolvers : Active(q, j)'
    BY <2>3, <2>4, <2>5 DEF EdgesOwned, Resident
  <2> QED BY <2>3, <2>6, <2>7 DEF EdgesOwned, RecInside
<1>9. ASSUME \/ PutRefused(r) /\ ~Resident(res[r].key)
             \/ SelfGone(r) /\ RemoveL1Key(res[r].key)
                            /\ res' = [ResAfterRemove(res[r].key) EXCEPT ![r] = Ending(r)]
      PROVE  EdgesOwned'
  <2> DEFINE k == res[r].key
  <2>1. /\ RemoveL1Key(k) /\ res' = [ResAfterRemove(k) EXCEPT ![r] = Ending(r)]
        /\ \A j \in Keys \ {k} : cell'[j] = cell[j]
    BY <1>0, <1>9 DEF PutRefused, Unstored, SelfGone, RemoveCell, TypeOK, StoreTypeOK
  <2>2. /\ DOMAIN ResAfterRemove(k) = Resolvers
        /\ res'[r] = Ending(r)
        /\ \A q \in Resolvers \ {r} : res'[q] = ResAfterRemove(k)[q]
    BY <2>1 DEF ResAfterRemove, Detached
  <2>3. res[r].pc = "resolve"
    BY <1>9 DEF PutRefused, ReadyToPut, SelfGone
  <2>4. RecInside' /\ \A q \in Resolvers, j \in Keys : Active(q, j) => Active(q, j)'
    BY <1>0, <1>e, <2>2, <2>3, RemoveFrame DEF EdgesOwned, RecInside, Active
  <2> QED BY <1>0, <2>1, <2>4, OwnedStrip
<1>10. ASSUME UNCHANGED <<edges, reverse, cell>>, res[r].pc \in Running,
              res' = [res EXCEPT ![r] = Ending(r)]
       PROVE  EdgesOwned'
  BY <1>0, <1>10, <1>e, OneResolve, OwnedFrame DEF Running
<1>11. CASE PutRefused(r)
  BY <1>9, <1>10, <1>11 DEF PutRefused, Unstored, ReadyToPut, Running
<1>12. CASE CheckBegin(r)
  <2>1. /\ \A q \in Resolvers \ {r} : res'[q] = res[q]
        /\ res[r].pc = "check" /\ res'[r].pc = "scan" /\ res'[r].key = res[r].key
        /\ res'[r].rec = res[r].rec
    BY <1>0, <1>12 DEF CheckBegin, ResolveState
  <2>2. res'[r].rec.step = "none"
    BY <2>1 DEF EdgesOwned
  <2> QED BY <1>12, <2>1, <2>2, OneResolve, OwnedFrame DEF CheckBegin, Running
<1>13. CASE CheckScan(r)
  <2>1. CASE r \in Refreshers
    BY <1>10, <1>13, <2>1 DEF CheckScan, Running
  <2>2. CASE r \notin Refreshers
    <3>1. /\ \A q \in Resolvers \ {r} : res'[q] = res[q]
          /\ res'[r].pc = "late" /\ res'[r].key = res[r].key
      BY <1>0, <1>13, <2>2 DEF CheckScan, ResolveState
    <3> QED BY <1>13, <3>1, OneResolve, OwnedFrame DEF CheckScan, Running
  <2> QED BY <2>1, <2>2
<1>14. CASE LateDone(r)
  BY <1>10, <1>14 DEF LateDone, Running
<1>15. CASE Decline(r)
  BY <1>10, <1>15 DEF Decline, Running
<1>16. CASE SelfGone(r)
  BY <1>9, <1>10, <1>16 DEF SelfGone, RemoveCell, Running
<1>17. CASE Release(r)
  <2> DEFINE k == res[r].key
  <2>0. res[r].pc = "release" /\ cell' = cell
    BY <1>17 DEF Release, Unstored
  <2>1. CASE ~Resident(k)
    <3>1. RemoveL1Key(k) /\ res' = [ResAfterRemove(k) EXCEPT ![r] = Idle]
      BY <1>17, <2>1 DEF Release, Unstored
    <3>2. /\ DOMAIN ResAfterRemove(k) = Resolvers
          /\ res'[r] = Idle
          /\ \A q \in Resolvers \ {r} : res'[q] = ResAfterRemove(k)[q]
      BY <3>1 DEF ResAfterRemove, Detached
    <3>3. RecInside' /\ \A q \in Resolvers, j \in Keys \ {k} : Active(q, j) => Active(q, j)'
      BY <1>0, <1>i, <3>2, RemoveFrame DEF EdgesOwned, RecInside, Active
    <3> QED BY <1>0, <2>0, <3>1, <3>3, OwnedStrip
  <2>2. CASE Resident(k)
    <3>1. /\ UNCHANGED <<edges, reverse, cell>>
          /\ res'[r] = Idle
          /\ \A q \in Resolvers \ {r} : res'[q] = res[q]
      BY <1>0, <1>17, <2>2 DEF Release, Unstored
    <3>2. RecInside' /\ \A q \in Resolvers, j \in Keys \ {k} : Active(q, j) => Active(q, j)'
      BY <1>0, <1>i, <3>1 DEF EdgesOwned, RecInside, Active
    <3>3. \A j \in Keys : reverse'[j] # {} => Resident(j)' \/ \E q \in Resolvers : Active(q, j)'
      <4>1. ASSUME NEW j \in Keys \ {k}, reverse'[j] # {}
            PROVE  Resident(j)' \/ \E q \in Resolvers : Active(q, j)'
        BY <3>1, <3>2, <4>1 DEF EdgesOwned, Resident
      <4>2. \A j \in Keys : j = k => Resident(j)'
        BY <2>2, <3>1 DEF Resident
      <4> QED BY <4>1, <4>2
    <3> QED BY <3>1, <3>2, <3>3 DEF EdgesOwned, RecInside
  <2> QED BY <2>1, <2>2
<1> QED
  BY <1>1, <1>2, <1>3, <1>4, <1>5, <1>6, <1>7, <1>8, <1>11, <1>12, <1>13, <1>14, <1>15,
     <1>16, <1>17 DEF Resolve

\* Every step of the protocol leaves each edge with an owner.
LEMMA OwnedNext ==
    ASSUME TypeOK, TypeOK', EdgesOwned, [Next]_vars
    PROVE  EdgesOwned'
<1> USE DEF informerVars, depVars, markVars, storeVars
<1>0. ASSUME UNCHANGED <<edges, reverse, cell, res>> PROVE EdgesOwned'
  BY <1>0 DEF EdgesOwned, Active, Resident
<1>1. CASE Worker
  <2>1. ASSUME NEW k \in Keys, EvictOne(k) PROVE EdgesOwned'
    BY <1>0, <2>1, OwnedRemoveCell DEF EvictOne
  <2>2. CASE \/ \E o \in Objects : WorkerTake(o)
             \/ BumpAdd \/ BumpFloor \/ BumpStamp \/ Collect \/ WorkerDone
             \/ \E k \in Keys : MarkOne(k)
    BY <1>0, <2>2
    DEF WorkerTake, BumpAdd, BumpFloor, BumpStamp, Collect, WorkerDone, MarkOne
  <2> QED BY <1>1, <2>1, <2>2 DEF Worker
<1>2. ASSUME NEW r \in Callers, NEW k \in Keys, NEW kd \in CallerKinds, Enter(r, k, kd)
      PROVE  EdgesOwned'
  <2>1. /\ r \in Resolvers /\ res[r].pc = "idle"
        /\ \A q \in Resolvers \ {r} : res'[q] = res[q]
        /\ res'[r].rec.step = "none"
    BY <1>2 DEF Enter, Resolvers, TypeOK, Idle, NoRec
  <2> QED BY <1>2, <2>1, OneResolve, OwnedFrame DEF Enter, Running
<1>3. ASSUME NEW r \in Refreshers, NEW k \in Keys, Dequeue(r, k)
      PROVE  EdgesOwned'
  <2>1. CASE Resident(k)
    <3>1. /\ r \in Resolvers /\ res[r].pc = "idle"
          /\ \A q \in Resolvers \ {r} : res'[q] = res[q]
          /\ res'[r].rec.step = "none"
      BY <1>3, <2>1 DEF Dequeue, Resolvers, TypeOK, Idle, NoRec
    <3> QED BY <1>3, <3>1, OneResolve, OwnedFrame DEF Dequeue, Running
  <2>2. CASE ~Resident(k)
    BY <1>0, <1>3, <2>2 DEF Dequeue
  <2> QED BY <2>1, <2>2
<1>4. CASE \E k \in Keys : Evict(k)
  BY <1>4, OwnedRemoveCell DEF Evict
<1>5. CASE \/ \E o \in Objects : ObjectEvent(o)
           \/ \E k \in Keys : ExpireTombstone(k)
           \/ UNCHANGED vars
  BY <1>0, <1>5 DEF ObjectEvent, ExpireTombstone, vars
<1> QED BY <1>1, <1>2, <1>3, <1>4, <1>5, OwnedResolve DEF Next

\* An edge whose owners are all gone cannot exist, so a settled key without a
\* cell has none.
LEMMA OwnedImplies == TypeOK /\ EdgesOwned => NoOrphanEdges
<1> SUFFICES ASSUME TypeOK, EdgesOwned, NEW k \in Keys, Settled(k), ~Resident(k)
             PROVE  reverse[k] = {} /\ \A c \in Coords : k \notin edges[c]
  BY DEF NoOrphanEdges
<1>1. ~\E r \in Resolvers : Active(r, k)
  BY DEF Settled, Active
<1> QED BY <1>1 DEF EdgesOwned

\* Every dependency edge has an owner that will take it down, at every moment.
THEOREM EdgesAlwaysOwned == Spec => []EdgesOwned
  BY TypeInit, TypeNext, OwnedInit, OwnedNext, PTL DEF Spec

\* No dependency edge outlives its entry: the two removal paths and the
\* deferred release leave none behind, for any number of keys and goroutines.
THEOREM NoOrphans == Spec => []NoOrphanEdges
  BY TypeInit, TypeNext, OwnedInit, OwnedNext, OwnedImplies, PTL DEF Spec

=============================================================================
