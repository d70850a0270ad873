----------------------------- MODULE Coherence -----------------------------
(***************************************************************************)
(* The coherence protocol between the L1 resolved cache, the dependency     *)
(* tracker and the informer events (internal/cache/deps.go, resolved.go).   *)
(*                                                                          *)
(* A resolve of an L1 key reads objects from the informer store, records a  *)
(* dependency edge per coordinate it reads, and stores its body.  An object *)
(* change bumps the dep-event sequence of the coordinate's buckets and then *)
(* marks every key that has an edge, so that the refresher resolves it      *)
(* again.  A change that lands while a resolve is running finds no edge, or *)
(* no resident cell; the accepted Put therefore compares the buckets with   *)
(* the sequence at the resolve's entry and re-marks its own key.            *)
(*                                                                          *)
(* Atomicity.  A step is one access to shared state in the code: one atomic *)
(* or sync.Map operation of the lock-free tracker, or one critical section  *)
(* under the store's mutex.  The forward and the reverse insert of one edge *)
(* are one step.                                                            *)
(***************************************************************************)
EXTENDS Integers, FiniteSets

CONSTANTS
    Keys,        \* L1 keys
    Objects,     \* informer objects
    Gvrs,        \* resource types; a type also names its LIST coordinate
    GvrOf,       \* object -> its type
    SelfOf,      \* key -> the object (RESTAction / Widget CR) it represents
    InnerOf,     \* key -> the coordinates its inner calls may read
    Callers,     \* goroutines of customer requests and boot seeds
    CallerKinds, \* which of the two they are in this instance
    Refreshers,  \* the refresher's workers
    MaxRequeues, \* maxRefreshRequeues
    MaxRecords,  \* DEPS_MAX_RECORDS, the cap on dependency edges
    MaxVer,      \* bound: changes of one object
    MaxGen       \* bound: generation at which a key is no longer evicted

Coords == Objects \cup Gvrs
Resolvers == Callers \cup Refreshers

ASSUME ConstantsAssumption ==
    /\ Objects \cap Gvrs = {}
    /\ Keys # {} /\ Objects # {}
    /\ GvrOf \in [Objects -> Gvrs]
    /\ SelfOf \in [Keys -> Objects]
    /\ InnerOf \in [Keys -> SUBSET Coords]
    /\ \A k \in Keys : SelfOf[k] \notin InnerOf[k]
    /\ Callers \cap Refreshers = {}
    /\ CallerKinds \subseteq {"call", "seed"}
    /\ MaxRequeues \in Nat /\ MaxRecords \in Nat
    /\ MaxVer \in Nat /\ MaxGen \in Nat

VARIABLES
    ver,         \* coordinate -> how often its content changed
    alive,       \* the objects that exist
    eventQ,      \* dedup queue of changed objects
    worker,      \* the one dep-event worker
    seq,         \* depEventSeq
    floor,       \* type -> gvrLastBump
    bump,        \* coordinate -> keySet.lastBumpSeq, NoBucket when not in forward
    edges,       \* coordinate -> the keys in its forward bucket
    reverse,     \* key -> its depSet
    cell,        \* key -> the resident body, or NoCell
    gen,         \* key -> lruItem.gen
    tomb,        \* key -> the generation of its tombstone, or NoTomb
    refreshQ,    \* dirty keys waiting for a refresh
    mseq,        \* key -> depEventSeq at its latest mark
    tries,       \* key -> NumRequeues of its refresh
    knownStale,  \* keys whose last refresh ended without an accepted Put
    res,         \* resolver -> the state of its resolve
    exposed      \* history: the windows a key's stored body went through

informerVars == <<ver, alive, eventQ>>
depVars == <<seq, floor, bump, edges, reverse>>
markVars == <<refreshQ, mseq, tries>>
storeVars == <<cell, gen, tomb, knownStale, exposed>>
vars == <<informerVars, worker, depVars, markVars, storeVars, res>>

NoBucket == -1
Unread == -1
NoTomb == 0
NoBody == [c \in Coords |-> Unread]
NoCell == [c \in Coords |-> Unread - 1]

\* A Record between two of its accesses: the bucket it loaded (detached once it
\* is pruned), whether it published that bucket, and the next access.
NoRec == [coord |-> CHOOSE c \in Coords : TRUE, step |-> "none",
          made |-> FALSE, detached |-> FALSE]

\* Goroutine-local state of a resolve: its depGenSink and its body.
Idle == [pc |-> "idle", key |-> CHOOSE k \in Keys : TRUE, kind |-> "call",
         start |-> 0, gen |-> 0, sink |-> {}, own |-> {}, ownDS |-> "none",
         body |-> NoBody, rec |-> NoRec, recheck |-> FALSE,
         checked |-> 0, remarked |-> FALSE, win |-> {}]

IdleWorker == [pc |-> "idle", obj |-> CHOOSE o \in Objects : TRUE,
               state |-> "EXISTS", seq |-> 0, todo |-> {}, evict |-> {}, mark |-> {}]

\* The four windows in which the protocol can lose a change (history only).
Windows == {"torn", "cold", "prune", "cap"}

TypeOf(c) == IF c \in Gvrs THEN c ELSE GvrOf[c]
MaxOf(a, b) == IF a > b THEN a ELSE b

\* coordinateBuckets: the coordinates an event on o matches (exact and LIST).
Buckets(o) == {o, GvrOf[o]}

Resident(k) == cell[k] # NoCell
Records == Cardinality({e \in Coords \X Keys : e[2] \in edges[e[1]]})

\* currentGenLocked: a resident key's generation, else its tombstone's.
currentGen(k) == IF Resident(k) THEN gen[k] ELSE tomb[k]

\* Mutant: the first event after the resolve began does not count.
MutMovedLate(c, s) ==
    \/ bump[c] = NoBucket /\ floor[TypeOf(c)] > s + 1
    \/ bump[c] # NoBucket /\ bump[c] > s + 1

\* depMovedSince: the bucket's stamp, or the type's floor without a bucket.
depMovedSince(c, s) ==
    \/ bump[c] = NoBucket /\ floor[TypeOf(c)] > s
    \/ bump[c] # NoBucket /\ bump[c] > s

----------------------------------------------------------------------------
Init ==
    /\ ver = [c \in Coords |-> 0]
    /\ alive = Objects
    /\ eventQ = {}
    /\ worker = IdleWorker
    /\ seq = 0
    /\ floor = [g \in Gvrs |-> 0]
    /\ bump = [c \in Coords |-> NoBucket]
    /\ edges = [c \in Coords |-> {}]
    /\ reverse = [k \in Keys |-> {}]
    /\ cell = [k \in Keys |-> NoCell]
    /\ gen = [k \in Keys |-> 0]
    /\ tomb = [k \in Keys |-> NoTomb]
    /\ refreshQ = {}
    /\ mseq = [k \in Keys |-> 0]
    /\ tries = [k \in Keys |-> 0]
    /\ knownStale = {}
    /\ res = [r \in Resolvers |-> Idle]
    /\ exposed = [k \in Keys |-> {}]

----------------------------------------------------------------------------
\* The informer: a change is in the store before its handler queues the event.
ObjectEvent(o) ==
    /\ ver[o] < MaxVer
    /\ ver' = [c \in Coords |-> IF c \in Buckets(o) THEN ver[c] + 1 ELSE ver[c]]
    /\ alive' \in {alive \cup {o}, alive \ {o}}
    /\ o \in alive \cup alive'
    /\ eventQ' = eventQ \cup {o}
    /\ UNCHANGED <<worker, depVars, markVars, storeVars, res>>

----------------------------------------------------------------------------
\* Operators on the tracker and the store shared by several actions.

\* The resolves after buckets were pruned: a Record that loaded one of them and
\* has not inserted yet holds a bucket that is no longer in the forward map.
Detached(rs, pruned) ==
    [r \in Resolvers |->
       IF rs[r].rec.coord \in pruned /\ rs[r].rec.step \in {"inherit", "insert"}
       THEN [rs[r] EXCEPT !.rec.detached = TRUE] ELSE rs[r]]

\* Somebody published one of these buckets and has not raised it to the floor.
Uninherited(cs) ==
    \E q \in Resolvers : /\ res[q].rec.step = "inherit"
                         /\ res[q].rec.coord \in cs
                         /\ ~res[q].rec.detached

\* RemoveL1Key: drop the key's depSet and its forward edges; a bucket that
\* becomes empty is pruned and loses its stamp.
Emptied(k) == {c \in reverse[k] : edges[c] = {k}}

\* Mutant: the depSet goes, the forward edges stay.
MutForwardStays(k) == edges

ForwardWithout(k) ==
    [c \in Coords |-> IF c \in reverse[k] THEN edges[c] \ {k} ELSE edges[c]]

RemoveL1Key(k) ==
    /\ edges' = ForwardWithout(k)
    /\ bump' = [c \in Coords |-> IF c \in Emptied(k) THEN NoBucket ELSE bump[c]]
    /\ reverse' = [reverse EXCEPT ![k] = {}]
    /\ UNCHANGED <<seq, floor>>

\* ... and what the running resolves see of it: a resolve of k that recorded
\* into the dropped depSet finds another one later (depGenSink.ownStripped).
ResAfterRemove(k) ==
    Detached([r \in Resolvers |->
                IF res[r].key = k /\ res[r].ownDS = "same" /\ reverse[k] # {}
                THEN [res[r] EXCEPT !.ownDS = "changed"] ELSE res[r]],
             Emptied(k))

\* Mutant: the tombstone's generation runs backwards.
MutPrevGen(g) == g - 1

\* bumpGenTombstoneLocked.
NextGen(g) == g + 1

\* removeElementLocked / deleteForDep: tombstone, edges and dirty window go with
\* the cell, in one critical section.
RemoveCell(k) ==
    /\ RemoveL1Key(k)
    /\ cell' = [cell EXCEPT ![k] = NoCell]
    /\ tomb' = [tomb EXCEPT ![k] = NextGen(gen[k])]
    /\ knownStale' = knownStale \ {k}
    /\ exposed' = [exposed EXCEPT ![k] = {}]
    /\ gen' = [gen EXCEPT ![k] = 0]

\* Mutant: an unstored key keeps its edges.
MutNeverUnstored(k) == FALSE

\* releaseUnstoredLocked: only a key without a cell gives up its edges.
Unstored(k) == ~Resident(k)

\* onDirtyMark: a key that is not resident is dropped from the queue.
OnDirtyMark(k) ==
    IF Resident(k)
    THEN /\ refreshQ' = refreshQ \cup {k}
         /\ mseq' = [mseq EXCEPT ![k] = seq]
         /\ UNCHANGED tries
    ELSE UNCHANGED markVars

----------------------------------------------------------------------------
\* The dep-event worker: handleDepEvent, then onObjectEventMasked.

\* probeObjectState: the indexer's answer, or degraded once it gave none.
WorkerTake(o) ==
    /\ worker.pc = "idle"
    /\ o \in eventQ
    /\ eventQ' = eventQ \ {o}
    /\ \E s \in {IF o \in alive THEN "EXISTS" ELSE "ABSENT", "UNKNOWN_DEGRADED"} :
          worker' = [worker EXCEPT !.pc = "add", !.obj = o, !.state = s]
    /\ UNCHANGED <<ver, alive, depVars, markVars, storeVars, res>>

\* bumpCoordinateGen, in its three steps: sequence, type floor, bucket stamps.
BumpAdd ==
    /\ worker.pc = "add"
    /\ seq' = seq + 1
    /\ worker' = [worker EXCEPT !.pc = "floor", !.seq = seq + 1]
    /\ UNCHANGED <<informerVars, floor, bump, edges, reverse, markVars, storeVars, res>>

\* Mutant: the type's floor is not raised.
MutFloorStays(g, s) == floor

RaisedFloor(g, s) == [floor EXCEPT ![g] = MaxOf(@, s)]

BumpFloor ==
    /\ worker.pc = "floor"
    /\ floor' = RaisedFloor(GvrOf[worker.obj], worker.seq)
    /\ worker' = [worker EXCEPT !.pc = "stamp", !.todo = Buckets(worker.obj)]
    /\ UNCHANGED <<informerVars, seq, bump, edges, reverse, markVars, storeVars, res>>

BumpStamp ==
    LET c == IF worker.obj \in worker.todo THEN worker.obj ELSE GvrOf[worker.obj]
        left == worker.todo \ {c}
    IN
    /\ worker.pc = "stamp"
    /\ bump' = [bump EXCEPT ![c] = IF @ = NoBucket THEN @ ELSE MaxOf(@, worker.seq)]
    /\ worker' = [worker EXCEPT !.todo = left,
                                !.pc = IF left = {} THEN "collect" ELSE "stamp"]
    /\ UNCHANGED <<informerVars, seq, floor, edges, reverse, markVars, storeVars, res>>

\* collectMatchesForMark, and which of the matches represent the gone object.
Collect ==
    LET matched == UNION {edges[c] : c \in Buckets(worker.obj)}
        self == {k \in matched : /\ worker.state = "ABSENT"
                                 /\ Resident(k)
                                 /\ SelfOf[k] = worker.obj}
    IN
    /\ worker.pc = "collect"
    /\ worker' = [worker EXCEPT !.pc = "fanout", !.evict = self, !.mark = matched \ self]
    /\ UNCHANGED <<informerVars, depVars, markVars, storeVars, res>>

\* runEvictionBatch, one key: deleteForDep is a no-op on a key already gone.
EvictOne(k) ==
    /\ worker.pc = "fanout"
    /\ k \in worker.evict
    /\ worker' = [worker EXCEPT !.evict = @ \ {k}]
    /\ \/ Resident(k) /\ RemoveCell(k) /\ res' = ResAfterRemove(k)
       \/ ~Resident(k) /\ UNCHANGED <<depVars, storeVars, res>>
    /\ UNCHANGED <<informerVars, markVars>>

MarkOne(k) ==
    /\ worker.pc = "fanout"
    /\ worker.evict = {}
    /\ k \in worker.mark
    /\ worker' = [worker EXCEPT !.mark = @ \ {k}]
    /\ OnDirtyMark(k)
    /\ UNCHANGED <<informerVars, depVars, storeVars, res>>

WorkerDone ==
    /\ worker.pc = "fanout"
    /\ worker.evict = {} /\ worker.mark = {}
    /\ worker' = IdleWorker
    /\ UNCHANGED <<informerVars, depVars, markVars, storeVars, res>>

----------------------------------------------------------------------------
\* The resolves.  "call" is a customer dispatch (restactions.go), "seed" a boot
\* seed (phase1_pip_seed.go), "refresh" the refresher (resolve_populate.go).

Self(r) == SelfOf[res[r].key]

\* A resolve with nothing left but its deferred ReleaseUnstored.
Ending(r) == [Idle EXCEPT !.pc = "release", !.key = res[r].key, !.kind = res[r].kind]

\* WithL1KeyContextFromEpoch: the CR's own coordinate is in the sink before
\* anything is read.
Predeclared(k) == {SelfOf[k]}

\* Handler entry: the epoch is read before the CR.
Enter(r, k, kd) ==
    /\ r \in Callers /\ kd \in CallerKinds
    /\ res[r].pc = "idle"
    /\ res' = [res EXCEPT ![r] = [Idle EXCEPT !.pc = "entry", !.key = k, !.kind = kd,
                                              !.start = seq, !.sink = Predeclared(k)]]
    /\ UNCHANGED <<informerVars, worker, depVars, markVars, storeVars>>

\* The dispatch and the seed read their CR first; without one there is nothing
\* to resolve.
FetchSelf(r) ==
    /\ res[r].pc = "entry"
    /\ res' = [res EXCEPT ![r] =
                 IF Self(r) \notin alive THEN Idle
                 ELSE [@ EXCEPT !.body[Self(r)] = ver[Self(r)],
                                !.pc = "capture"]]
    /\ UNCHANGED <<informerVars, worker, depVars, markVars, storeVars>>

\* processNext: take a dirty key no other worker is refreshing.  A key without
\* an entry is skipped, not retried.
Dequeue(r, k) ==
    /\ r \in Refreshers
    /\ res[r].pc = "idle"
    /\ k \in refreshQ
    /\ \A q \in Refreshers : res[q].pc # "idle" => res[q].key # k
    /\ refreshQ' = refreshQ \ {k}
    /\ tries' = IF Resident(k) THEN tries ELSE [tries EXCEPT ![k] = 0]
    /\ res' = IF Resident(k)
              THEN [res EXCEPT ![r] = [Idle EXCEPT !.pc = "capture", !.key = k,
                                                   !.kind = "refresh"]]
              ELSE res
    /\ UNCHANGED <<informerVars, worker, depVars, mseq, storeVars>>

\* The generation the Put will be gated on.  The refresher reads its epoch next
\* (WithL1KeyContext) and pre-declares nothing.
CaptureGen(r) ==
    /\ res[r].pc = "capture"
    /\ res' = [res EXCEPT ![r].gen = currentGen(res[r].key), ![r].pc = "resolve",
                          ![r].start = IF res[r].kind = "refresh" THEN seq ELSE @]
    /\ UNCHANGED <<informerVars, worker, depVars, markVars, storeVars>>

\* The reads of a resolve: an inner call's edge is recorded before its read,
\* the refresher's own CR is recorded after it.
Read(r, c) ==
    /\ res[r].pc = "resolve"
    /\ res[r].rec.step = "none"
    /\ res[r].body[c] = Unread
    /\ \/ c \in InnerOf[res[r].key] /\ c \in res[r].own
       \/ c = Self(r) /\ c \in alive
    /\ res' = [res EXCEPT ![r].body[c] = ver[c]]
    /\ UNCHANGED <<informerVars, worker, depVars, markVars, storeVars>>

----------------------------------------------------------------------------
\* Record / RecordList, one step per access to the forward map.

\* What a resolve records next: its inner coordinates, its own CR once it is
\* read (refresher), its own CR after the accepted Put (dispatch and seed).
MayRecord(r, c) ==
    /\ c \notin res[r].own
    /\ \/ res[r].pc = "resolve" /\ c \in InnerOf[res[r].key]
       \/ /\ res[r].pc = "resolve" /\ res[r].kind = "refresh"
          /\ c = Self(r) /\ res[r].body[c] # Unread
       \/ res[r].pc = "late" /\ c = Self(r)

\* Mutant: no re-check of an edge recorded after the Put.
MutNoRecheck(r) == FALSE

NeedsRecheck(r) == res[r].pc = "late" /\ ~res[r].remarked

\* The sink and own lists, then forward.LoadOrStore: a new bucket is published
\* with stamp 0.
RecordBegin(r, c) ==
    LET cold == bump[c] = NoBucket
    IN
    /\ res[r].rec.step = "none"
    /\ MayRecord(r, c)
    /\ bump' = IF cold THEN [bump EXCEPT ![c] = 0] ELSE bump
    /\ res' = [res EXCEPT ![r].sink = @ \cup {c},
                          ![r].own = @ \cup {c},
                          ![r].recheck = NeedsRecheck(r),
                          ![r].rec = [coord |-> c, made |-> cold, detached |-> FALSE,
                                      step |-> IF cold THEN "inherit" ELSE "insert"]]
    /\ UNCHANGED <<informerVars, worker, seq, floor, edges, reverse, markVars, storeVars>>

\* storeMaxSeq(&ks.lastBumpSeq, gvrLastBumpSeq) by the publisher of the bucket.
RecordInherit(r) ==
    LET c == res[r].rec.coord
    IN
    /\ res[r].rec.step = "inherit"
    /\ bump' = IF res[r].rec.detached THEN bump
               ELSE [bump EXCEPT ![c] = MaxOf(@, floor[TypeOf(c)])]
    /\ res' = [res EXCEPT ![r].rec.step = "insert"]
    /\ UNCHANGED <<informerVars, worker, seq, floor, edges, reverse, markVars, storeVars>>

\* The edge: a no-op when it is already there, dropped at the cap (the
\* publisher of a bucket that stays empty takes it out again), invisible to
\* the events when the bucket was pruned since it was loaded.
Full == Records >= MaxRecords

RecordInsert(r) ==
    LET k == res[r].key
        c == res[r].rec.coord
        lost == res[r].rec.detached
        known == ~lost /\ k \in edges[c]
        dropped == ~known /\ Full
        unpublish == dropped /\ ~lost /\ res[r].rec.made /\ edges[c] = {}
        window == (IF dropped THEN {"cap"} ELSE {})
                    \cup (IF lost /\ ~dropped THEN {"prune"} ELSE {})
        done == [res EXCEPT ![r].rec = IF res[r].recheck
                                       THEN [NoRec EXCEPT !.coord = c, !.step = "recheck"]
                                       ELSE NoRec,
                            ![r].ownDS = IF @ = "none" /\ ~dropped THEN "same" ELSE @,
                            ![r].win = @ \cup window]
    IN
    /\ res[r].rec.step = "insert"
    /\ edges' = IF lost \/ dropped THEN edges ELSE [edges EXCEPT ![c] = @ \cup {k}]
    /\ reverse' = IF dropped THEN reverse ELSE [reverse EXCEPT ![k] = @ \cup {c}]
    /\ bump' = IF unpublish THEN [bump EXCEPT ![c] = NoBucket] ELSE bump
    /\ res' = IF unpublish THEN Detached(done, {c}) ELSE done
    /\ exposed' = IF res[r].pc = "late" /\ Resident(k)
                  THEN [exposed EXCEPT ![k] = @ \cup window] ELSE exposed
    /\ UNCHANGED <<informerVars, worker, seq, floor, markVars, cell, gen, tomb, knownStale>>

\* recheckAfterPutRecord: a late edge whose bucket moved since the Put's check.
\* A bucket its publisher has not raised to the floor yet answers "not moved".
Recheck(r) ==
    LET k == res[r].key
        c == res[r].rec.coord
        moved == depMovedSince(c, res[r].checked)
    IN
    /\ res[r].rec.step = "recheck"
    /\ IF moved THEN OnDirtyMark(k) ELSE UNCHANGED markVars
    /\ res' = [res EXCEPT ![r].rec = NoRec, ![r].remarked = moved]
    /\ exposed' = IF ~moved /\ Resident(k) /\ Uninherited({c})
                  THEN [exposed EXCEPT ![k] = @ \cup {"cold"}] ELSE exposed
    /\ UNCHANGED <<informerVars, worker, depVars, cell, gen, tomb, knownStale>>

----------------------------------------------------------------------------
\* The Put: putIfGen (dispatch), replaceIfGenRefresh (refresher), and for a seed
\* (seedTerminalPut) putIfGen once /readyz has flipped, the plain putThenRemark
\* before.

ReadyToPut(r) ==
    /\ res[r].pc = "resolve"
    /\ res[r].rec.step = "none"
    /\ \A c \in InnerOf[res[r].key] \cup {Self(r)} : res[r].body[c] # Unread
    /\ InnerOf[res[r].key] \subseteq res[r].own
    /\ res[r].kind = "refresh" => Self(r) \in res[r].own

\* The generation gate.  When /readyz flips is not modelled: a seed whose
\* generation moved may be refused and may be stored.
GenAccepts(r) ==
    CASE res[r].kind = "call"    -> currentGen(res[r].key) = res[r].gen
      [] res[r].kind = "refresh" -> Resident(res[r].key) /\ gen[res[r].key] = res[r].gen
      [] res[r].kind = "seed"    -> TRUE

GenRefuses(r) ==
    \/ res[r].kind # "seed" /\ ~GenAccepts(r)
    \/ res[r].kind = "seed" /\ currentGen(res[r].key) # res[r].gen

\* reassertOwnEdges: when the key's depSet is no longer the one this resolve
\* recorded into, its own edges are recorded again, up to the cap.
Missing(r) == {c \in res[r].own : ~(c \in reverse[res[r].key] /\ res[r].key \in edges[c])}

\* Mutant: a stripped edge is not recorded again.
MutNeverReasserts(r) == FALSE

Reasserts(r) == res[r].ownDS # "same"

\* Mutant: the bucket of a re-recorded edge starts at zero.
MutStampZero(c) == 0

NewBucketStamp(c) == floor[TypeOf(c)]

ReassertOwnEdges(r, again) ==
    /\ edges' = [c \in Coords |-> IF c \in again THEN edges[c] \cup {res[r].key} ELSE edges[c]]
    /\ reverse' = [reverse EXCEPT ![res[r].key] = @ \cup again]
    /\ bump' = [c \in Coords |-> IF c \in again /\ bump[c] = NoBucket
                                 THEN NewBucketStamp(c) ELSE bump[c]]
    /\ UNCHANGED <<seq, floor>>

\* Accepted, in one critical section: the cell, its generation, the tombstone,
\* the edges and the end of a known-stale state.  A body that began before the
\* latest mark reopens the key's window and enqueues it.
PutAccepted(r) ==
    LET k == res[r].key
        need == IF Reasserts(r) THEN Missing(r) ELSE {}
        room == MaxOf(MaxRecords - Records, 0)
        keep == IF Reasserts(r) THEN res[r].win \ {"prune", "cap"} ELSE res[r].win
        inFlight == \E q \in Refreshers : res[q].pc # "idle" /\ res[q].key = k
        reopened == k \in knownStale /\ ~inFlight /\ res[r].start < mseq[k]
    IN
    /\ ReadyToPut(r)
    /\ GenAccepts(r)
    /\ \E again \in SUBSET need :
          /\ Cardinality(again) = IF room < Cardinality(need) THEN room ELSE Cardinality(need)
          /\ ReassertOwnEdges(r, again)
          /\ exposed' = [exposed EXCEPT ![k] = keep \cup IF again = need THEN {} ELSE {"cap"}]
    /\ cell' = [cell EXCEPT ![k] = res[r].body]
    /\ gen' = [gen EXCEPT ![k] = currentGen(k)]
    /\ tomb' = [tomb EXCEPT ![k] = NoTomb]
    /\ knownStale' = knownStale \ {k}
    /\ refreshQ' = IF reopened THEN refreshQ \cup {k} ELSE refreshQ
    /\ mseq' = IF reopened THEN [mseq EXCEPT ![k] = seq] ELSE mseq
    /\ tries' = IF r \in Refreshers THEN [tries EXCEPT ![k] = 0] ELSE tries
    /\ res' = [res EXCEPT ![r].pc = "check", ![r].body = NoBody, ![r].gen = 0,
                          ![r].win = {}]
    /\ UNCHANGED <<informerVars, worker>>

\* Refused: the generation moved while the resolve ran, so its body is not
\* stored, and a key that is not resident gives up its edges.
PutRefused(r) ==
    LET k == res[r].key
    IN
    /\ ReadyToPut(r)
    /\ GenRefuses(r)
    /\ \/ /\ Unstored(k)
          /\ RemoveL1Key(k)
          /\ res' = [ResAfterRemove(k) EXCEPT ![r] = Ending(r)]
       \/ /\ ~Unstored(k)
          /\ UNCHANGED depVars
          /\ res' = [res EXCEPT ![r] = Ending(r)]
    /\ tries' = IF r \in Refreshers THEN [tries EXCEPT ![k] = 0] ELSE tries
    /\ UNCHANGED <<informerVars, worker, refreshQ, mseq, storeVars>>

\* remarkIfDepsMovedFrom, its first half: the sink is told which key was Put
\* and up to which sequence the scan will have looked.
CheckBegin(r) ==
    LET k == res[r].key
        torn == /\ worker.pc \in {"floor", "stamp"}
                /\ worker.obj = Self(r)
                /\ Self(r) \notin res[r].own
    IN
    /\ res[r].pc = "check"
    /\ res' = [res EXCEPT ![r].pc = "scan", ![r].checked = seq]
    /\ exposed' = IF torn /\ Resident(k)
                  THEN [exposed EXCEPT ![k] = @ \cup {"torn"}] ELSE exposed
    /\ UNCHANGED <<informerVars, worker, depVars, markVars, cell, gen, tomb, knownStale>>

\* ... its scan: any dependency that moved since the resolve began re-marks.
CheckScan(r) ==
    LET k == res[r].key
        moved == \E c \in res[r].sink : depMovedSince(c, res[r].start)
    IN
    /\ res[r].pc = "scan"
    /\ IF moved THEN OnDirtyMark(k) ELSE UNCHANGED markVars
    /\ res' = [res EXCEPT ![r] = IF r \in Refreshers THEN Ending(r)
                                 ELSE [@ EXCEPT !.remarked = moved, !.pc = "late",
                                                !.start = 0]]
    /\ exposed' = IF ~moved /\ Resident(k) /\ Uninherited(res[r].sink)
                  THEN [exposed EXCEPT ![k] = @ \cup {"cold"}] ELSE exposed
    /\ UNCHANGED <<informerVars, worker, depVars, cell, gen, tomb, knownStale>>

\* A dispatch or a seed that recorded its own CR has finished its writes.
LateDone(r) ==
    /\ res[r].pc = "late"
    /\ res[r].rec.step = "none"
    /\ Self(r) \in res[r].own
    /\ res' = [res EXCEPT ![r] = Ending(r)]
    /\ UNCHANGED <<informerVars, worker, depVars, markVars, storeVars>>

----------------------------------------------------------------------------
\* A resolve that does not reach its Put, and its deferred ReleaseUnstored.

\* Mutant: a failed refresh is not queued again.
MutNotRequeued(k) == refreshQ

\* AddRateLimited, within the budget.
Requeued(k) == refreshQ \cup {k}

\* An inner call failed or the Put gate declined the body.  A failed refresh
\* is retried up to the budget; a declined or dropped one leaves the resident
\* cell known-stale.
Decline(r) ==
    LET k == res[r].key
        refresh == res[r].kind = "refresh"
    IN
    /\ res[r].pc = "resolve"
    /\ res[r].rec.step = "none"
    /\ res' = [res EXCEPT ![r] = Ending(r)]
    /\ \/ /\ refresh /\ tries[k] < MaxRequeues
          /\ tries' = [tries EXCEPT ![k] = @ + 1]
          /\ refreshQ' = Requeued(k)
          /\ UNCHANGED <<mseq, knownStale>>
       \/ /\ refresh
          /\ tries' = [tries EXCEPT ![k] = 0]
          /\ knownStale' = IF Resident(k) THEN knownStale \cup {k} ELSE knownStale
          /\ UNCHANGED <<refreshQ, mseq>>
       \/ ~refresh /\ UNCHANGED <<markVars, knownStale>>
    /\ UNCHANGED <<informerVars, worker, depVars, cell, gen, tomb, exposed>>

\* ErrSelfObjectGone on every attempt of the budget: EvictSelfGone.
SelfGone(r) ==
    LET k == res[r].key
    IN
    /\ res[r].pc = "resolve" /\ res[r].kind = "refresh"
    /\ res[r].rec.step = "none"
    /\ Self(r) \notin alive
    /\ res[r].body[Self(r)] = Unread
    /\ \/ /\ tries[k] < MaxRequeues
          /\ tries' = [tries EXCEPT ![k] = @ + 1]
          /\ refreshQ' = Requeued(k)
          /\ res' = [res EXCEPT ![r] = Ending(r)]
          /\ UNCHANGED <<depVars, storeVars>>
       \/ /\ tries[k] >= MaxRequeues
          /\ tries' = [tries EXCEPT ![k] = 0]
          /\ \/ /\ Resident(k)
                /\ RemoveCell(k)
                /\ res' = [ResAfterRemove(k) EXCEPT ![r] = Ending(r)]
             \/ /\ ~Resident(k)
                /\ res' = [res EXCEPT ![r] = Ending(r)]
                /\ UNCHANGED <<depVars, storeVars>>
          /\ UNCHANGED refreshQ
    /\ UNCHANGED <<informerVars, worker, mseq>>

\* The deferred ReleaseUnstored: a key that is not resident keeps no edges.
Release(r) ==
    LET k == res[r].key
    IN
    /\ res[r].pc = "release"
    /\ \/ /\ Unstored(k)
          /\ RemoveL1Key(k)
          /\ res' = [ResAfterRemove(k) EXCEPT ![r] = Idle]
       \/ /\ ~Unstored(k)
          /\ UNCHANGED depVars
          /\ res' = [res EXCEPT ![r] = Idle]
    /\ UNCHANGED <<informerVars, worker, markVars, storeVars>>

----------------------------------------------------------------------------
\* The store on its own: LRU, TTL and age evictions, and tombstone expiry.
Evict(k) ==
    /\ Resident(k)
    /\ gen[k] < MaxGen
    /\ RemoveCell(k)
    /\ res' = ResAfterRemove(k)
    /\ UNCHANGED <<informerVars, worker, markVars>>

ExpireTombstone(k) ==
    /\ tomb[k] # NoTomb
    /\ tomb' = [tomb EXCEPT ![k] = NoTomb]
    /\ UNCHANGED <<informerVars, worker, depVars, markVars, cell, gen, knownStale, exposed, res>>

----------------------------------------------------------------------------
Worker ==
    \/ \E o \in Objects : WorkerTake(o)
    \/ BumpAdd \/ BumpFloor \/ BumpStamp \/ Collect
    \/ \E k \in Keys : EvictOne(k) \/ MarkOne(k)
    \/ WorkerDone

\* The steps of a resolve that has begun.
Resolve(r) ==
    \/ FetchSelf(r) \/ CaptureGen(r)
    \/ \E c \in Coords : Read(r, c) \/ RecordBegin(r, c)
    \/ RecordInherit(r) \/ RecordInsert(r) \/ Recheck(r)
    \/ PutAccepted(r) \/ PutRefused(r)
    \/ CheckBegin(r) \/ CheckScan(r) \/ LateDone(r)
    \/ Decline(r) \/ SelfGone(r) \/ Release(r)

Next ==
    \/ \E o \in Objects : ObjectEvent(o)
    \/ Worker
    \/ \E r \in Callers, k \in Keys, kd \in CallerKinds : Enter(r, k, kd)
    \/ \E r \in Refreshers, k \in Keys : Dequeue(r, k)
    \/ \E r \in Resolvers : Resolve(r)
    \/ \E k \in Keys : Evict(k) \/ ExpireTombstone(k)

Spec == Init /\ [][Next]_vars

----------------------------------------------------------------------------
\* Properties.

Body == [Coords -> Int]

WorkerState ==
    [pc : {"idle", "add", "floor", "stamp", "collect", "fanout"},
     obj : Objects, state : {"EXISTS", "ABSENT", "UNKNOWN_DEGRADED"},
     seq : Nat, todo : SUBSET Coords, evict : SUBSET Keys, mark : SUBSET Keys]

RecState ==
    [coord : Coords, step : {"none", "inherit", "insert", "recheck"},
     made : BOOLEAN, detached : BOOLEAN]

ResolveState ==
    [pc : {"idle", "entry", "capture", "resolve", "check", "scan", "late", "release"},
     key : Keys, kind : {"call", "seed", "refresh"}, start : Nat, gen : Nat,
     sink : SUBSET Coords, own : SUBSET Coords, ownDS : {"none", "same", "changed"},
     body : Body, rec : RecState, recheck : BOOLEAN, checked : Nat,
     remarked : BOOLEAN, win : SUBSET Windows]

InformerTypeOK ==
    ver \in [Coords -> Nat] /\ alive \subseteq Objects /\ eventQ \subseteq Objects

DepTypeOK ==
    /\ seq \in Nat
    /\ floor \in [Gvrs -> Nat]
    /\ bump \in [Coords -> Nat \cup {NoBucket}]
    /\ edges \in [Coords -> SUBSET Keys]
    /\ reverse \in [Keys -> SUBSET Coords]

MarkTypeOK ==
    refreshQ \subseteq Keys /\ mseq \in [Keys -> Nat] /\ tries \in [Keys -> Nat]

StoreTypeOK ==
    /\ cell \in [Keys -> Body]
    /\ gen \in [Keys -> Nat]
    /\ tomb \in [Keys -> Nat]
    /\ knownStale \subseteq Keys
    /\ exposed \in [Keys -> SUBSET Windows]

\* Every variable of the tracker, the store, the worker and the resolves keeps
\* its type.
TypeOK ==
    /\ InformerTypeOK /\ DepTypeOK /\ MarkTypeOK /\ StoreTypeOK
    /\ worker \in WorkerState
    /\ res \in [Resolvers -> ResolveState]

\* A stored body that no longer agrees with the informer store.
Stale(k) ==
    /\ Resident(k)
    /\ \E c \in Coords : cell[k][c] # Unread /\ cell[k][c] # ver[c]

\* No event is on its way to k and no resolve of k is still running.
Settled(k) ==
    /\ eventQ = {} /\ worker.pc = "idle"
    /\ \A r \in Resolvers : res[r].pc # "idle" => res[r].key # k

FreshExcept(ws) ==
    \A k \in Keys :
        Settled(k) /\ Stale(k) => k \in refreshQ \cup knownStale \/ exposed[k] \cap ws # {}

\* No invalidation is lost: once everything a change set in motion has run, a
\* stored body that disagrees with the informer store is queued for a refresh
\* or is known-stale (remarkIfDepsMovedFrom, recheckAfterPutRecord and the
\* event fan-out together), outside the four windows.
NoLostInvalidation == FreshExcept(Windows)

\* deps.go:1603-1605: "an event racing the scan is seen by the scan or by the
\* re-check, never by neither" (bumpCoordinateGen's add and stamps are apart).
NeverByNeither == FreshExcept(Windows \ {"torn"})

\* deps.go:1639-1641: "The new bucket inherits the GVR floor (fix ii), so dk
\* reads as moved since checkedSeq exactly when such an event happened"; also
\* for a reader that is not the bucket's publisher.
ColdBucketInherits == FreshExcept(Windows \ {"cold"})

\* Dependency edges do not outlive their entry (RemoveL1Key on every removal,
\* ReleaseUnstored on every resolve that did not store): a key that is not
\* resident and is not being resolved has none.
NoOrphanEdges ==
    \A k \in Keys : Settled(k) /\ ~Resident(k) =>
        reverse[k] = {} /\ \A c \in Coords : k \notin edges[c]

Reachable(k) == \A c \in Coords : cell[k][c] # Unread => k \in edges[c]

\* A resident body is reachable by the events of everything it read: outside
\* the windows its key is in the bucket of each such coordinate
\* (reassertOwnEdges after a concurrent strip).
EdgesCoverBody ==
    \A k \in Keys : Settled(k) /\ Resident(k) => Reachable(k) \/ exposed[k] # {}

\* deps.go:2704-2708: the check-then-delete of an emptied bucket in RemoveL1Key
\* "is benign: a concurrent Record that hits the deleted bucket simply
\* LoadOrStores a fresh keySet", so the recorded edge is there.
PruneIsBenign ==
    \A k \in Keys : Settled(k) /\ Resident(k) =>
        Reachable(k) \/ exposed[k] \cap (Windows \ {"prune"}) # {}

\* No step turns "moved since s" into "not moved", apart from a bucket whose
\* publisher has not raised it to the floor yet.
MovedStays ==
    \A c \in Coords, s \in 0 .. seq :
        depMovedSince(c, s) => depMovedSince(c, s)' \/ Uninherited({c})'

\* Once a coordinate has moved past a sequence, depMovedSince never says again
\* that it has not: the floor stands in for a pruned bucket, and a new bucket
\* inherits it (recordInternalMode, RemoveL1Key).
MovedIsStable == [][MovedStays]_vars

----------------------------------------------------------------------------
\* The strengthenings that make the properties above inductive.

\* A resolve of k that has passed its deferred ReleaseUnstored registration.
Active(r, k) ==
    res[r].key = k /\ res[r].pc \in {"resolve", "check", "scan", "late", "release"}

\* Every edge has an owner that will take it down: its resident cell, or a
\* resolve whose deferred ReleaseUnstored is still to come; the two directions
\* of an edge never disagree so that RemoveL1Key misses none (RemoveL1Key walks
\* the key's depSet only), and a Record runs inside its resolve.
EdgesOwned ==
    /\ \A k \in Keys, c \in Coords : k \in edges[c] => c \in reverse[k]
    /\ \A k \in Keys : reverse[k] # {} => Resident(k) \/ \E r \in Resolvers : Active(r, k)
    /\ \A r \in Resolvers : res[r].rec.step # "none" => res[r].pc \in {"resolve", "late"}

\* No bucket is ahead of its type's floor, which is why the floor may stand in
\* for a bucket that was pruned (depMovedSince, RemoveL1Key).
FloorCoversBuckets ==
    /\ \A c \in Coords : bump[c] <= floor[TypeOf(c)]
    /\ worker.pc = "stamp" => worker.seq <= floor[GvrOf[worker.obj]]

----------------------------------------------------------------------------
\* Liveness.  The dep-event worker, the refresher's workers and every resolve
\* that has begun are goroutines nothing blocks for ever.
Fairness ==
    /\ WF_vars(Worker)
    /\ \A r \in Resolvers : WF_vars(Resolve(r))
    /\ \A r \in Refreshers : WF_vars(\E k \in Keys : Dequeue(r, k))

LiveSpec == Spec /\ Fairness

\* Stale-while-revalidate: a stale body is eventually refreshed, removed, or
\* handed over to the known-stale path (processNext's bounded requeues),
\* outside the windows.
EventuallyFresh ==
    \A k \in Keys : Stale(k) ~> ~Stale(k) \/ k \in knownStale \/ exposed[k] # {}

=============================================================================
