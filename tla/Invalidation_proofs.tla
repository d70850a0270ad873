----------------------- MODULE Invalidation_proofs -----------------------
(***************************************************************************)
(* No invalidation is lost: the proofs of EdgesCoverBody and                *)
(* NoLostInvalidation of Coherence.                                         *)
(*                                                                          *)
(* A body that disagrees with the informer store was read before the        *)
(* change.  The change is then still on its way, is being stamped under a   *)
(* sequence after the resolve began, or its stamps are visible to           *)
(* depMovedSince (Missed).  When the body is stored, each coordinate it     *)
(* read either has its edge, so that the event's fan-out will find the key, *)
(* or is the key's own CR, which the resolve has yet to record and re-check *)
(* (Covered); what the stamps already show is found by the Put's own check. *)
(***************************************************************************)
EXTENDS Coherence_proofs

----------------------------------------------------------------------------
\* The inductive invariant.

\* An event that will be stamped for c is queued, or was taken and has no
\* sequence yet.
Coming(c) ==
    \E o \in Objects : /\ c \in Buckets(o)
                       /\ o \in eventQ \/ (worker.pc = "add" /\ worker.obj = o)

\* The worker has a sequence after s and has yet to stamp c with it.
Stamping(c, s) ==
    /\ c \in Buckets(worker.obj) /\ worker.seq > s
    /\ worker.pc = "floor" \/ (worker.pc = "stamp" /\ c \in worker.todo)

\* The stamps say that c moved after s, or will once its publisher has raised
\* its bucket to the floor.
Past(c, s) == floor[TypeOf(c)] > s /\ (depMovedSince(c, s) \/ Uninherited({c}))

\* c changed, and nobody who compares its stamps with s overlooks it for good.
Missed(c, s) == Coming(c) \/ Stamping(c, s) \/ Past(c, s)

\* The worker works on an event that matches c and has not collected its keys.
Ahead(c) == c \in Buckets(worker.obj) /\ worker.pc \in {"floor", "stamp", "collect"}

\* r loaded the bucket of c and has not inserted its edge yet.
Inserting(r, c) == res[r].rec.step \in {"inherit", "insert"} /\ res[r].rec.coord = c

\* A refresher has taken k and its Put will not be refused.
Refreshing(k) ==
    \E q \in Refreshers : /\ res[q].key = k
                          /\ \/ res[q].pc = "capture"
                             \/ res[q].pc = "resolve" /\ res[q].gen = gen[k]

\* k will be resolved again, or its stored body is known to be stale or exposed.
Owes(k) == k \in refreshQ \/ k \in knownStale \/ exposed[k] # {} \/ Refreshing(k)

\* r stored a body of k and has yet to record its own CR.
LateOwed(r, k) ==
    /\ res[r].key = k /\ res[r].pc \in {"check", "scan", "late"}
    /\ SelfOf[k] \notin res[r].own \/ Inserting(r, SelfOf[k])

\* What the steps of one resolve establish for the next ones: who refreshes; its
\* sequences; what it has before its first read; what its body, its sink and its
\* own list hold; how a late Record goes; and the depSet it recorded into.
Kinds(r) ==
    /\ res[r].pc # "idle" => (res[r].kind = "refresh" <=> r \in Refreshers)
    /\ res[r].pc \in {"entry", "late"} => res[r].kind # "refresh"

Times(r) == res[r].start <= seq /\ res[r].checked <= seq

Begun(r) ==
    /\ res[r].pc \in {"entry", "capture"} => res[r].own = {} /\ res[r].ownDS = "none"
    /\ res[r].pc \notin {"capture", "resolve"} => res[r].body = NoBody
    /\ res[r].pc = "capture" /\ res[r].kind = "refresh" => res[r].body = NoBody

Bodies(r) == \A c \in Coords : res[r].body[c] # Unread => c \in InnerOf[res[r].key] \cup {Self(r)}

Lists(r) ==
    /\ res[r].own \subseteq res[r].sink
    /\ res[r].kind # "refresh" /\ res[r].pc \in {"entry", "capture", "resolve", "check", "scan"}
         => Self(r) \in res[r].sink
    /\ res[r].kind = "refresh" /\ res[r].pc \in {"check", "scan"} => Self(r) \in res[r].own

Lates(r) ==
    /\ res[r].pc # "late" => ~res[r].remarked /\ res[r].rec.step # "recheck"
    /\ res[r].pc \in {"entry", "capture", "resolve"} => ~res[r].recheck
    /\ res[r].pc = "late" /\ res[r].rec.step # "none" =>
         res[r].rec.coord = Self(r) /\ Self(r) \in res[r].own
    /\ res[r].pc = "late" /\ res[r].rec.step \in {"inherit", "insert"} =>
         (res[r].recheck <=> ~res[r].remarked)

DepSet(r) == res[r].ownDS = "same" => reverse[res[r].key] # {}

Shape(r) == Kinds(r) /\ Times(r) /\ Begun(r) /\ Bodies(r) /\ Lists(r) /\ Lates(r) /\ DepSet(r)

\* While r's depSet is the one it recorded into, its edges are there; as long as
\* it recorded into none, every edge was dropped.
OwnKept(r) ==
    res[r].pc = "resolve" /\ res[r].ownDS # "changed" =>
        \A c \in res[r].own : \/ res[r].ownDS = "same" /\ res[r].key \in edges[c]
                             \/ Inserting(r, c) \/ res[r].win # {}

\* What r has read and is no longer so happened after r began.
ReadKnown(r) ==
    \A c \in Coords : res[r].body[c] # Unread /\ res[r].body[c] # ver[c] => Missed(c, res[r].start)

\* Everything the stored body read has its edge, or is the CR that its resolve
\* still has to record.
Covered(k, c) ==
    \/ k \in edges[c] \/ exposed[k] # {}
    \/ /\ c = SelfOf[k]
       /\ \E r \in Resolvers : LateOwed(r, k) /\ (res[r].remarked => Owes(k))

\* r will notice that c moved: by the Put's scan, or by the re-check of its late
\* edge.
WillCheck(r, c) ==
    \/ res[r].pc \in {"check", "scan"} /\ c \in res[r].sink /\ Past(c, res[r].start)
    \/ /\ c = Self(r) /\ Self(r) \notin res[r].own
       /\ \/ res[r].pc = "check" /\ (Coming(c) \/ Stamping(c, res[r].start))
          \/ res[r].pc = "scan" /\ Missed(c, res[r].checked)
    \/ /\ c = Self(r) /\ res[r].pc = "late" /\ ~res[r].remarked
       /\ \/ Self(r) \notin res[r].own \/ Inserting(r, c)
          \/ res[r].rec.step = "recheck" /\ res[r].key \in edges[c]
       /\ Missed(c, res[r].checked)

\* Somebody will see to it that the change of c reaches k.
Answered(k, c) ==
    \/ Owes(k)
    \/ k \in edges[c] /\ (Coming(c) \/ Ahead(c))
    \/ worker.pc = "fanout" /\ k \in worker.evict \cup worker.mark
    \/ \E r \in Resolvers : res[r].key = k /\ WillCheck(r, c)

CellCovered(k) == Resident(k) => \A c \in Coords : cell[k][c] # Unread => Covered(k, c)

CellAnswered(k) ==
    Resident(k) => \A c \in Coords : cell[k][c] # Unread /\ cell[k][c] # ver[c] => Answered(k, c)

Resolves == \A r \in Resolvers : Shape(r) /\ OwnKept(r) /\ ReadKnown(r)
Cells == \A k \in Keys : CellCovered(k) /\ CellAnswered(k)

Base == TypeOK /\ FloorCoversBuckets /\ EdgesOwned
InvalInv == Base /\ Resolves /\ Cells

----------------------------------------------------------------------------
\* What a step may do to the resolves and to a key.

Alike(x, y) ==
    /\ y.pc = x.pc /\ y.key = x.key /\ y.kind = x.kind /\ y.start = x.start /\ y.gen = x.gen
    /\ y.sink = x.sink /\ y.own = x.own /\ y.body = x.body /\ y.recheck = x.recheck
    /\ y.checked = x.checked /\ y.remarked = x.remarked /\ y.win = x.win
    /\ y.rec.step = x.rec.step /\ y.rec.coord = x.rec.coord

\* A resolve that does not act only learns that a bucket was pruned or that its
\* depSet was dropped.
Mate(q) ==
    /\ Alike(res[q], res'[q])
    /\ res'[q].rec.detached => res[q].rec.detached \/ bump'[res[q].rec.coord] = NoBucket
    /\ res'[q].ownDS = res[q].ownDS \/ (res[q].ownDS = "same" /\ res'[q].ownDS = "changed")

\* The steps of resolve r, and those that are no resolve's.
Acts(r) ==
    \/ Resolve(r)
    \/ r \in Callers /\ \E k \in Keys, kd \in CallerKinds : Enter(r, k, kd)
    \/ r \in Refreshers /\ \E k \in Keys : Dequeue(r, k)

World ==
    \/ \E o \in Objects : ObjectEvent(o)
    \/ Worker
    \/ \E k \in Keys : Evict(k) \/ ExpireTombstone(k)

\* k keeps its edges.
Keeps(k) == reverse[k] \subseteq reverse'[k] /\ \A c \in Coords : k \in edges[c] => k \in edges'[c]

\* k loses its edges, has no cell, and its resolves notice.
Strips(k) ==
    /\ ~Resident(k)'
    /\ reverse[k] # {} =>
         \A q \in Resolvers : res[q].key = k /\ res[q].ownDS = "same" => res'[q].ownDS # "same"

\* k's cell is left alone.
Stays(k) ==
    /\ Keeps(k)
    /\ cell'[k] = cell[k] /\ gen'[k] = gen[k] /\ exposed[k] \subseteq exposed'[k]

\* A step is a resolve's or nobody's.
LEMMA WhoActs == Next <=> World \/ \E r \in Resolvers : Acts(r)
  BY DEF Next, World, Acts, Resolvers

\* Detaching changes one field only.
LEMMA DetachedFields ==
    ASSUME NEW rs \in [Resolvers -> ResolveState], NEW pruned, NEW q \in Resolvers
    PROVE  /\ Alike(rs[q], Detached(rs, pruned)[q])
           /\ Detached(rs, pruned)[q].ownDS = rs[q].ownDS
           /\ Detached(rs, pruned)[q].rec.detached =>
                rs[q].rec.detached \/ rs[q].rec.coord \in pruned
<1> DEFINE x == rs[q]
           y == [x EXCEPT !.rec.detached = TRUE]
<1>1. x \in ResolveState /\ x.rec \in RecState
  BY DEF ResolveState
<1>2. Alike(x, x)
  BY DEF Alike
<1>3. Alike(x, y) /\ y.ownDS = x.ownDS
  <2> HIDE DEF x
  <2> QED BY <1>1 DEF Alike, ResolveState, RecState
<1>4. \/ Detached(rs, pruned)[q] = x
      \/ Detached(rs, pruned)[q] = y /\ x.rec.coord \in pruned
  BY DEF Detached
<1> HIDE DEF x, y
<1>5. QED BY <1>2, <1>3, <1>4 DEF x

\* A resolve that a step does not touch.
LEMMA MateSame ==
    ASSUME NEW q \in Resolvers, res'[q] = res[q]
    PROVE  Mate(q)
  BY DEF Mate, Alike

\* What a resolve notices of RemoveL1Key.
LEMMA MateRemove ==
    ASSUME TypeOK, NEW k \in Keys, RemoveL1Key(k), NEW q \in Resolvers,
           res'[q] = ResAfterRemove(k)[q]
    PROVE  /\ Mate(q)
           /\ res[q].key = k /\ res[q].ownDS = "same" /\ reverse[k] # {} => res'[q].ownDS = "changed"
<1> DEFINE rs == [r \in Resolvers |->
                    IF res[r].key = k /\ res[r].ownDS = "same" /\ reverse[k] # {}
                    THEN [res[r] EXCEPT !.ownDS = "changed"] ELSE res[r]]
<1>1. rs \in [Resolvers -> ResolveState]
  BY DEF TypeOK, ResolveState
<1>2. res'[q] = Detached(rs, Emptied(k))[q]
  BY DEF ResAfterRemove
<1>3. /\ Alike(res[q], rs[q]) /\ rs[q].rec = res[q].rec
      /\ rs[q].ownDS = res[q].ownDS \/ (res[q].ownDS = "same" /\ rs[q].ownDS = "changed")
      /\ res[q].key = k /\ res[q].ownDS = "same" /\ reverse[k] # {} => rs[q].ownDS = "changed"
  BY DEF TypeOK, ResolveState, Alike
<1>4. \A c \in Emptied(k) : bump'[c] = NoBucket
  BY DEF RemoveL1Key, Emptied, TypeOK, DepTypeOK
<1> HIDE DEF rs
<1>5. /\ Alike(rs[q], res'[q]) /\ res'[q].ownDS = rs[q].ownDS
      /\ res'[q].rec.detached => rs[q].rec.detached \/ rs[q].rec.coord \in Emptied(k)
  BY <1>1, <1>2, DetachedFields
<1>6. Alike(res[q], res'[q])
  BY <1>3, <1>5 DEF Alike
<1> QED BY <1>3, <1>4, <1>5, <1>6 DEF Mate

\* Taking a key's edges down leaves those of the others.
LEMMA KeepsOthers ==
    ASSUME TypeOK, NEW k \in Keys, RemoveL1Key(k), NEW j \in Keys \ {k}
    PROVE  Keeps(j)
  BY DEF TypeOK, DepTypeOK, RemoveL1Key, ForwardWithout, Keeps

\* Removing a cell leaves those of the others.
LEMMA StaysOthers ==
    ASSUME TypeOK, NEW k \in Keys, RemoveCell(k), NEW j \in Keys \ {k}
    PROVE  Stays(j)
<1>1. Keeps(j)
  BY KeepsOthers DEF RemoveCell
<1> QED BY <1>1 DEF TypeOK, StoreTypeOK, RemoveCell, Stays

\* A step that leaves the edges and the store alone.
LEMMA StaysFrame ==
    ASSUME TypeOK, UNCHANGED <<edges, reverse, cell, gen>>, NEW j \in Keys,
           exposed[j] \subseteq exposed'[j]
    PROVE  Stays(j)
  BY DEF Stays, Keeps

\* What the resolves learn of a step that is no resolve's, and what becomes of a key.
LEMMA WorldFate ==
    ASSUME TypeOK, World
    PROVE  /\ \A q \in Resolvers : Mate(q)
           /\ \A j \in Keys : Stays(j) \/ Strips(j)
<1> USE DEF informerVars, depVars, markVars, storeVars
<1>1. ASSUME NEW k \in Keys, RemoveCell(k), res' = ResAfterRemove(k)
      PROVE  /\ \A q \in Resolvers : Mate(q)
             /\ \A j \in Keys : Stays(j) \/ Strips(j)
  <2>1. RemoveL1Key(k) /\ cell'[k] = NoCell
    BY <1>1 DEF RemoveCell, TypeOK, StoreTypeOK
  <2>2. Strips(k)
    BY <1>1, <2>1, MateRemove DEF Strips, Resident
  <2> QED BY <1>1, <2>1, <2>2, MateRemove, StaysOthers
<1>2. ASSUME UNCHANGED <<edges, reverse, cell, gen, exposed, res>>
      PROVE  /\ \A q \in Resolvers : Mate(q)
             /\ \A j \in Keys : Stays(j) \/ Strips(j)
  BY <1>2, MateSame, StaysFrame
<1>3. ASSUME NEW k \in Keys, EvictOne(k) \/ Evict(k)
      PROVE  /\ \A q \in Resolvers : Mate(q)
             /\ \A j \in Keys : Stays(j) \/ Strips(j)
  BY <1>1, <1>2, <1>3 DEF EvictOne, Evict
<1>4. CASE \/ \E o \in Objects : ObjectEvent(o) \/ WorkerTake(o)
           \/ BumpAdd \/ BumpFloor \/ BumpStamp \/ Collect \/ WorkerDone
           \/ \E k \in Keys : MarkOne(k) \/ ExpireTombstone(k)
  BY <1>2, <1>4 DEF ObjectEvent, WorkerTake, BumpAdd, BumpFloor, BumpStamp, Collect, WorkerDone,
     MarkOne, ExpireTombstone
<1> QED BY <1>3, <1>4 DEF World, Worker

----------------------------------------------------------------------------
\* What each step of a resolve does to it.

\* A resolve that has read, recorded and stored nothing.
Blank(y) ==
    /\ y.start = 0 /\ y.gen = 0 /\ y.sink = {} /\ y.own = {} /\ y.ownDS = "none" /\ y.body = NoBody
    /\ y.rec.step = "none" /\ ~y.recheck /\ y.checked = 0 /\ ~y.remarked /\ y.win = {}

\* Only resolve r changes.
Alone(r) == \A q \in Resolvers \ {r} : res'[q] = res[q]

\* An idle resolve and an ending one are blank.
LEMMA Blanks ==
    ASSUME TypeOK, NEW r \in Resolvers
    PROVE  /\ Blank(Idle) /\ Idle.pc = "idle"
           /\ Blank(Ending(r)) /\ Ending(r).pc = "release"
           /\ Ending(r).key = res[r].key /\ Ending(r).kind = res[r].kind
  BY DEF Idle, Ending, Blank, NoRec

\* The types of a resolve's fields.
LEMMA ResolveTypes ==
    ASSUME TypeOK, NEW r \in Resolvers
    PROVE  /\ DOMAIN res = Resolvers /\ res[r] \in ResolveState /\ res[r].key \in Keys
           /\ res[r].rec \in RecState /\ res[r].rec.coord \in Coords
           /\ res[r].body \in [Coords -> Int] /\ res[r].own \subseteq Coords
           /\ Self(r) \in Coords /\ Self(r) \in Objects
  BY ConstantsAssumption DEF TypeOK, ResolveState, RecState, Body, Self, Coords

\* A request begins with nothing but its own coordinate in the sink.
LEMMA EnterEffect ==
    ASSUME TypeOK, NEW r \in Resolvers, NEW k \in Keys, NEW kd \in CallerKinds, Enter(r, k, kd)
    PROVE  /\ Alone(r) /\ r \in Callers /\ res[r].pc = "idle"
           /\ res'[r].pc = "entry" /\ res'[r].key = k /\ res'[r].kind = kd /\ res'[r].start = seq
           /\ res'[r].sink = {SelfOf[k]} /\ res'[r].own = {} /\ res'[r].ownDS = "none"
           /\ res'[r].body = NoBody /\ res'[r].rec.step = "none" /\ ~res'[r].recheck
           /\ res'[r].checked = 0 /\ ~res'[r].remarked /\ res'[r].win = {}
<1>1. /\ res' = [res EXCEPT ![r] = [Idle EXCEPT !.pc = "entry", !.key = k, !.kind = kd,
                                              !.start = seq, !.sink = Predeclared(k)]]
      /\ r \in Callers /\ res[r].pc = "idle"
  BY DEF Enter
<1> QED BY <1>1, ResolveTypes DEF Alone, Idle, NoRec, Predeclared

\* A refresh begins blank, or the key is not resident and is skipped.
LEMMA DequeueEffect ==
    ASSUME TypeOK, NEW r \in Resolvers, NEW k \in Keys, Dequeue(r, k)
    PROVE  /\ Alone(r) /\ r \in Refreshers /\ res[r].pc = "idle"
           /\ refreshQ' = refreshQ \ {k}
           /\ ~Resident(k) => res' = res
           /\ Resident(k) => /\ res'[r].pc = "capture" /\ res'[r].key = k /\ res'[r].kind = "refresh"
                             /\ Blank(res'[r])
<1>1. /\ r \in Refreshers /\ res[r].pc = "idle" /\ refreshQ' = refreshQ \ {k}
      /\ ~Resident(k) => res' = res
      /\ Resident(k) => res' = [res EXCEPT ![r] = [Idle EXCEPT !.pc = "capture", !.key = k,
                                                               !.kind = "refresh"]]
  BY DEF Dequeue
<1>2. CASE Resident(k)
  <2> DEFINE y == [Idle EXCEPT !.pc = "capture", !.key = k, !.kind = "refresh"]
  <2>1. Blank(y) /\ y.pc = "capture" /\ y.key = k /\ y.kind = "refresh"
    BY DEF Idle, NoRec, Blank
  <2> HIDE DEF y
  <2>2. res' = [res EXCEPT ![r] = y]
    BY <1>1, <1>2 DEF y
  <2>3. res'[r] = y /\ Alone(r)
    BY <2>2, ResolveTypes DEF Alone
  <2> QED BY <1>1, <1>2, <2>1, <2>3
<1>3. CASE ~Resident(k)
  BY <1>1, <1>3 DEF Alone
<1> QED BY <1>2, <1>3

\* The dispatch and the seed read their CR, or find none and stop.
LEMMA FetchSelfEffect ==
    ASSUME TypeOK, NEW r \in Resolvers, FetchSelf(r)
    PROVE  /\ Alone(r) /\ res[r].pc = "entry"
           /\ \/ res'[r] = Idle
              \/ /\ res'[r].pc = "capture"
                 /\ res'[r].body = [res[r].body EXCEPT ![Self(r)] = ver[Self(r)]]
                 /\ res'[r].key = res[r].key /\ res'[r].kind = res[r].kind
                 /\ res'[r].start = res[r].start /\ res'[r].gen = res[r].gen
                 /\ res'[r].sink = res[r].sink /\ res'[r].own = res[r].own
                 /\ res'[r].ownDS = res[r].ownDS /\ res'[r].rec = res[r].rec
                 /\ res'[r].recheck = res[r].recheck /\ res'[r].checked = res[r].checked
                 /\ res'[r].remarked = res[r].remarked /\ res'[r].win = res[r].win
  BY ResolveTypes DEF FetchSelf, Alone, ResolveState

\* The generation is captured; a refresh reads its epoch now.
LEMMA CaptureGenEffect ==
    ASSUME TypeOK, NEW r \in Resolvers, CaptureGen(r)
    PROVE  /\ Alone(r) /\ res[r].pc = "capture" /\ res'[r].pc = "resolve"
           /\ res'[r].gen = currentGen(res[r].key)
           /\ res[r].kind = "refresh" => res'[r].start = seq
           /\ res[r].kind # "refresh" => res'[r].start = res[r].start
           /\ res'[r].key = res[r].key /\ res'[r].kind = res[r].kind
           /\ res'[r].sink = res[r].sink /\ res'[r].own = res[r].own
           /\ res'[r].ownDS = res[r].ownDS /\ res'[r].rec = res[r].rec /\ res'[r].body = res[r].body
           /\ res'[r].recheck = res[r].recheck /\ res'[r].checked = res[r].checked
           /\ res'[r].remarked = res[r].remarked /\ res'[r].win = res[r].win
  BY ResolveTypes DEF CaptureGen, Alone, ResolveState

\* A read puts one version into the body.
LEMMA ReadEffect ==
    ASSUME TypeOK, NEW r \in Resolvers, NEW c \in Coords, Read(r, c)
    PROVE  /\ Alone(r) /\ res[r].pc = "resolve" /\ res[r].rec.step = "none"
           /\ c \in InnerOf[res[r].key] \cup {Self(r)}
           /\ res'[r].body = [res[r].body EXCEPT ![c] = ver[c]]
           /\ res'[r].pc = res[r].pc /\ res'[r].key = res[r].key /\ res'[r].kind = res[r].kind
           /\ res'[r].start = res[r].start /\ res'[r].gen = res[r].gen
           /\ res'[r].sink = res[r].sink /\ res'[r].own = res[r].own
           /\ res'[r].ownDS = res[r].ownDS /\ res'[r].rec = res[r].rec
           /\ res'[r].recheck = res[r].recheck /\ res'[r].checked = res[r].checked
           /\ res'[r].remarked = res[r].remarked /\ res'[r].win = res[r].win
  BY ResolveTypes DEF Read, Alone, ResolveState

\* A Record begins: the sink and own lists, and the bucket it will insert into.
LEMMA RecordBeginEffect ==
    ASSUME TypeOK, NEW r \in Resolvers, NEW c \in Coords, RecordBegin(r, c)
    PROVE  /\ Alone(r) /\ res[r].rec.step = "none" /\ MayRecord(r, c)
           /\ res'[r].sink = res[r].sink \cup {c} /\ res'[r].own = res[r].own \cup {c}
           /\ res'[r].rec.step \in {"inherit", "insert"} /\ res'[r].rec.coord = c
           /\ ~res'[r].rec.detached
           /\ bump[c] = NoBucket => res'[r].rec.step = "inherit"
           /\ res'[r].recheck = NeedsRecheck(r)
           /\ res'[r].pc = res[r].pc /\ res'[r].key = res[r].key /\ res'[r].kind = res[r].kind
           /\ res'[r].start = res[r].start /\ res'[r].gen = res[r].gen
           /\ res'[r].ownDS = res[r].ownDS /\ res'[r].body = res[r].body
           /\ res'[r].checked = res[r].checked
           /\ res'[r].remarked = res[r].remarked /\ res'[r].win = res[r].win
<1>1. /\ res[r].rec.step = "none" /\ MayRecord(r, c)
      /\ res' = [res EXCEPT ![r].sink = @ \cup {c},
                            ![r].own = @ \cup {c},
                            ![r].recheck = NeedsRecheck(r),
                            ![r].rec = [coord |-> c, made |-> (bump[c] = NoBucket), detached |-> FALSE,
                                        step |-> IF bump[c] = NoBucket THEN "inherit" ELSE "insert"]]
  BY DEF RecordBegin
<1> QED BY <1>1, ResolveTypes DEF Alone, ResolveState

\* The publisher raises its bucket to the floor.
LEMMA RecordInheritEffect ==
    ASSUME TypeOK, NEW r \in Resolvers, RecordInherit(r)
    PROVE  /\ Alone(r) /\ res[r].rec.step = "inherit"
           /\ res'[r].rec.step = "insert" /\ res'[r].rec.coord = res[r].rec.coord
           /\ res'[r].pc = res[r].pc /\ res'[r].key = res[r].key /\ res'[r].kind = res[r].kind
           /\ res'[r].start = res[r].start /\ res'[r].gen = res[r].gen
           /\ res'[r].sink = res[r].sink /\ res'[r].own = res[r].own
           /\ res'[r].ownDS = res[r].ownDS /\ res'[r].body = res[r].body
           /\ res'[r].recheck = res[r].recheck /\ res'[r].checked = res[r].checked
           /\ res'[r].remarked = res[r].remarked /\ res'[r].win = res[r].win
<1>1. res' = [res EXCEPT ![r].rec.step = "insert"] /\ res[r].rec.step = "inherit"
  BY DEF RecordInherit
<1> QED BY <1>1, ResolveTypes DEF Alone, ResolveState, RecState

\* A Record ends: its edge is there, or the window it went through is noted.
LEMMA RecordInsertEffect ==
    ASSUME TypeOK, TypeOK', NEW r \in Resolvers, RecordInsert(r)
    PROVE  /\ \A q \in Resolvers \ {r} : Mate(q)
           /\ \A j \in Keys : Stays(j)
           /\ res[r].rec.step = "insert"
           /\ res'[r].rec.step = IF res[r].recheck THEN "recheck" ELSE "none"
           /\ res[r].recheck => res'[r].rec.coord = res[r].rec.coord
           /\ res[r].key \in edges'[res[r].rec.coord] \/ res'[r].win # {}
           /\ res[r].win \subseteq res'[r].win
           /\ res[r].pc = "late" /\ Resident(res[r].key) =>
                res[r].key \in edges'[res[r].rec.coord] \/ exposed'[res[r].key] # {}
           /\ \/ res'[r].ownDS = res[r].ownDS
              \/ res[r].ownDS = "none" /\ res'[r].ownDS = "same" /\ reverse'[res[r].key] # {}
           /\ res'[r].win = {} => res'[r].ownDS # "none"
           /\ res'[r].pc = res[r].pc /\ res'[r].key = res[r].key /\ res'[r].kind = res[r].kind
           /\ res'[r].start = res[r].start /\ res'[r].gen = res[r].gen
           /\ res'[r].sink = res[r].sink /\ res'[r].own = res[r].own /\ res'[r].body = res[r].body
           /\ res'[r].recheck = res[r].recheck /\ res'[r].checked = res[r].checked
           /\ res'[r].remarked = res[r].remarked
<1> DEFINE k == res[r].key
           c == res[r].rec.coord
           lost == res[r].rec.detached
           dropped == ~(~lost /\ k \in edges[c]) /\ Full
           unpublish == dropped /\ ~lost /\ res[r].rec.made /\ edges[c] = {}
           window == (IF dropped THEN {"cap"} ELSE {})
                       \cup (IF lost /\ ~dropped THEN {"prune"} ELSE {})
           rec2 == IF res[r].recheck THEN [NoRec EXCEPT !.coord = c, !.step = "recheck"] ELSE NoRec
           done == [res EXCEPT ![r].rec = rec2,
                               ![r].ownDS = IF @ = "none" /\ ~dropped THEN "same" ELSE @,
                               ![r].win = @ \cup window]
<1>1. /\ res[r].rec.step = "insert"
      /\ edges' = IF lost \/ dropped THEN edges ELSE [edges EXCEPT ![c] = @ \cup {k}]
      /\ reverse' = IF dropped THEN reverse ELSE [reverse EXCEPT ![k] = @ \cup {c}]
      /\ bump' = IF unpublish THEN [bump EXCEPT ![c] = NoBucket] ELSE bump
      /\ res' = IF unpublish THEN Detached(done, {c}) ELSE done
      /\ exposed' = IF res[r].pc = "late" /\ Resident(k)
                    THEN [exposed EXCEPT ![k] = @ \cup window] ELSE exposed
      /\ UNCHANGED <<cell, gen>>
  BY DEF RecordInsert
<1>2. k \in Keys /\ c \in Coords /\ res[r] \in ResolveState /\ DOMAIN res = Resolvers
  BY ResolveTypes
<1>3. /\ edges \in [Coords -> SUBSET Keys] /\ reverse \in [Keys -> SUBSET Coords]
      /\ exposed \in [Keys -> SUBSET Windows] /\ bump \in [Coords -> Nat \cup {NoBucket}]
  BY DEF TypeOK, DepTypeOK, StoreTypeOK
<1>4. /\ rec2.step = IF res[r].recheck THEN "recheck" ELSE "none"
      /\ res[r].recheck => rec2.coord = c
      /\ rec2 \in RecState
  BY <1>2, ConstantTypes DEF NoRec, RecState
<1>5. window \subseteq Windows /\ (lost \/ dropped => window # {})
  BY DEF Windows
<1> HIDE DEF window, rec2, dropped, unpublish, lost
<1>6. /\ \A q \in Resolvers \ {r} : done[q] = res[q]
      /\ done[r].rec = rec2 /\ done[r].win = res[r].win \cup window
      /\ done[r].ownDS = IF res[r].ownDS = "none" /\ ~dropped THEN "same" ELSE res[r].ownDS
      /\ done[r].pc = res[r].pc /\ done[r].key = res[r].key /\ done[r].kind = res[r].kind
      /\ done[r].start = res[r].start /\ done[r].gen = res[r].gen
      /\ done[r].sink = res[r].sink /\ done[r].own = res[r].own /\ done[r].body = res[r].body
      /\ done[r].recheck = res[r].recheck /\ done[r].checked = res[r].checked
      /\ done[r].remarked = res[r].remarked
  BY <1>2 DEF ResolveState
<1>7. done \in [Resolvers -> ResolveState]
  BY <1>2, <1>4, <1>5 DEF ResolveState, TypeOK
<1>8. \A q \in Resolvers : /\ Alike(done[q], res'[q]) /\ res'[q].ownDS = done[q].ownDS
                           /\ res'[q].rec.detached => done[q].rec.detached \/ (unpublish /\ done[q].rec.coord = c)
  <2> HIDE DEF done
  <2>1. CASE unpublish
    BY <1>1, <1>7, <2>1, DetachedFields
  <2>2. CASE ~unpublish
    BY <1>1, <2>2 DEF Alike
  <2> QED BY <2>1, <2>2
<1>9. \A q \in Resolvers \ {r} : Mate(q)
  <2>1. unpublish => bump'[c] = NoBucket
    BY <1>1, <1>2, <1>3
  <2> HIDE DEF done
  <2> QED BY <1>6, <1>8, <2>1 DEF Mate
<1>10. \A j \in Keys : exposed[j] \subseteq exposed'[j] /\ Keeps(j)
  BY <1>1, <1>2, <1>3 DEF Keeps
<1>11. \A j \in Keys : Stays(j)
  BY <1>1, <1>10 DEF Stays
<1>12. k \in edges'[c] \/ lost \/ dropped
  BY <1>1, <1>2, <1>3
<1>13. dropped \/ c \in reverse'[k]
  BY <1>1, <1>2, <1>3
<1>14. res[r].pc = "late" /\ Resident(k) => exposed'[k] = exposed[k] \cup window
  BY <1>1, <1>2, <1>3
<1> HIDE DEF done
<1> QED BY <1>1, <1>4, <1>5, <1>6, <1>8, <1>9, <1>11, <1>12, <1>13, <1>14 DEF Alike

\* The re-check of a late edge.
LEMMA RecheckEffect ==
    ASSUME TypeOK, NEW r \in Resolvers, Recheck(r)
    PROVE  /\ Alone(r) /\ res[r].rec.step = "recheck" /\ res'[r].rec.step = "none"
           /\ res'[r].remarked = depMovedSince(res[r].rec.coord, res[r].checked)
           /\ res'[r].remarked /\ Resident(res[r].key) => res[r].key \in refreshQ'
           /\ ~res'[r].remarked /\ Resident(res[r].key) /\ Uninherited({res[r].rec.coord}) =>
                exposed'[res[r].key] # {}
           /\ \A j \in Keys : exposed[j] \subseteq exposed'[j]
           /\ refreshQ \subseteq refreshQ'
           /\ res'[r].pc = res[r].pc /\ res'[r].key = res[r].key /\ res'[r].kind = res[r].kind
           /\ res'[r].start = res[r].start /\ res'[r].gen = res[r].gen
           /\ res'[r].sink = res[r].sink /\ res'[r].own = res[r].own
           /\ res'[r].ownDS = res[r].ownDS /\ res'[r].body = res[r].body
           /\ res'[r].recheck = res[r].recheck /\ res'[r].checked = res[r].checked
           /\ res'[r].win = res[r].win
<1> DEFINE moved == depMovedSince(res[r].rec.coord, res[r].checked)
<1>1. /\ res[r].rec.step = "recheck"
      /\ IF moved THEN OnDirtyMark(res[r].key) ELSE UNCHANGED markVars
      /\ res' = [res EXCEPT ![r].rec = NoRec, ![r].remarked = moved]
      /\ exposed' = IF ~moved /\ Resident(res[r].key) /\ Uninherited({res[r].rec.coord})
                    THEN [exposed EXCEPT ![res[r].key] = @ \cup {"cold"}] ELSE exposed
  BY DEF Recheck
<1> HIDE DEF moved
<1>2. refreshQ \subseteq refreshQ' /\ (moved /\ Resident(res[r].key) => res[r].key \in refreshQ')
  BY <1>1 DEF OnDirtyMark, markVars
<1>3. exposed \in [Keys -> SUBSET Windows] /\ res[r].key \in Keys
  BY ResolveTypes DEF TypeOK, StoreTypeOK
<1>4. /\ \A j \in Keys : exposed[j] \subseteq exposed'[j]
      /\ ~moved /\ Resident(res[r].key) /\ Uninherited({res[r].rec.coord}) => exposed'[res[r].key] # {}
  BY <1>1, <1>3
<1>5. NoRec.step = "none"
  BY DEF NoRec
<1> QED BY <1>1, <1>2, <1>4, <1>5, ResolveTypes DEF Alone, ResolveState, moved

\* The Put is accepted: the body is stored, each own edge is there or the window
\* is noted.
LEMMA PutAcceptedEffect ==
    ASSUME TypeOK, NEW r \in Resolvers, PutAccepted(r)
    PROVE  /\ Alone(r) /\ ReadyToPut(r) /\ GenAccepts(r)
           /\ \A j \in Keys : Keeps(j)
           /\ \A j \in Keys \ {res[r].key} : Stays(j)
           /\ cell'[res[r].key] = res[r].body
           /\ res[r].ownDS = "same" => exposed'[res[r].key] = res[r].win
           /\ res[r].ownDS # "same" =>
                exposed'[res[r].key] # {} \/ \A c \in res[r].own : res[r].key \in edges'[c]
           /\ refreshQ \subseteq refreshQ'
           /\ res'[r].pc = "check" /\ res'[r].body = NoBody /\ res'[r].win = {}
           /\ res'[r].key = res[r].key /\ res'[r].kind = res[r].kind /\ res'[r].start = res[r].start
           /\ res'[r].sink = res[r].sink /\ res'[r].own = res[r].own
           /\ res'[r].ownDS = res[r].ownDS /\ res'[r].rec = res[r].rec
           /\ res'[r].recheck = res[r].recheck /\ res'[r].checked = res[r].checked
           /\ res'[r].remarked = res[r].remarked
<1> DEFINE k == res[r].key
           need == IF Reasserts(r) THEN Missing(r) ELSE {}
           keep == IF Reasserts(r) THEN res[r].win \ {"prune", "cap"} ELSE res[r].win
<1>1. PICK again \in SUBSET need :
        /\ ReassertOwnEdges(r, again)
        /\ exposed' = [exposed EXCEPT ![k] = keep \cup IF again = need THEN {} ELSE {"cap"}]
  BY DEF PutAccepted
<1>2. /\ ReadyToPut(r) /\ GenAccepts(r)
      /\ cell' = [cell EXCEPT ![k] = res[r].body]
      /\ gen' = [gen EXCEPT ![k] = currentGen(k)]
      /\ refreshQ' = refreshQ \cup {k} \/ refreshQ' = refreshQ
      /\ res' = [res EXCEPT ![r].pc = "check", ![r].body = NoBody, ![r].gen = 0, ![r].win = {}]
  BY DEF PutAccepted
<1>3. /\ edges \in [Coords -> SUBSET Keys] /\ reverse \in [Keys -> SUBSET Coords]
      /\ exposed \in [Keys -> SUBSET Windows] /\ cell \in [Keys -> Body] /\ gen \in [Keys -> Nat]
      /\ k \in Keys /\ res[r].own \subseteq Coords
  BY ResolveTypes DEF TypeOK, DepTypeOK, StoreTypeOK
<1>4. /\ edges' = [c \in Coords |-> IF c \in again THEN edges[c] \cup {k} ELSE edges[c]]
      /\ reverse' = [reverse EXCEPT ![k] = @ \cup again]
  BY <1>1 DEF ReassertOwnEdges
<1> HIDE DEF need, keep
<1>5. \A j \in Keys : Keeps(j)
  BY <1>3, <1>4 DEF Keeps
<1>6. \A j \in Keys \ {k} : Stays(j)
  BY <1>1, <1>2, <1>3, <1>5 DEF Stays
<1>7. ASSUME res[r].ownDS = "same" PROVE exposed'[k] = res[r].win
  <2>1. need = {} /\ keep = res[r].win
    BY <1>7 DEF need, keep, Reasserts
  <2> QED BY <1>1, <1>3, <2>1
<1>8. ASSUME res[r].ownDS # "same", exposed'[k] = {}, NEW c \in res[r].own PROVE k \in edges'[c]
  <2>1. need = {d \in res[r].own : ~(d \in reverse[k] /\ k \in edges[d])}
    BY <1>8 DEF need, Reasserts, Missing
  <2>2. again = need
    BY <1>1, <1>3, <1>8
  <2> QED BY <1>3, <1>4, <1>8, <2>1, <2>2
<1>9. /\ Alone(r) /\ res'[r].pc = "check" /\ res'[r].body = NoBody /\ res'[r].win = {}
      /\ res'[r].key = res[r].key /\ res'[r].kind = res[r].kind /\ res'[r].start = res[r].start
      /\ res'[r].sink = res[r].sink /\ res'[r].own = res[r].own
      /\ res'[r].ownDS = res[r].ownDS /\ res'[r].rec = res[r].rec
      /\ res'[r].recheck = res[r].recheck /\ res'[r].checked = res[r].checked
      /\ res'[r].remarked = res[r].remarked
  BY <1>2, ResolveTypes DEF Alone, ResolveState
<1>10. cell'[k] = res[r].body /\ refreshQ \subseteq refreshQ'
  BY <1>2, <1>3
<1> QED BY <1>2, <1>5, <1>6, <1>7, <1>8, <1>9, <1>10

\* The Put's check notes how far its scan will have looked.
LEMMA CheckBeginEffect ==
    ASSUME TypeOK, NEW r \in Resolvers, CheckBegin(r)
    PROVE  /\ Alone(r) /\ res[r].pc = "check" /\ res'[r].pc = "scan" /\ res'[r].checked = seq
           /\ worker.pc \in {"floor", "stamp"} /\ worker.obj = Self(r) /\ Self(r) \notin res[r].own
                /\ Resident(res[r].key) => exposed'[res[r].key] # {}
           /\ \A j \in Keys : exposed[j] \subseteq exposed'[j]
           /\ res'[r].key = res[r].key /\ res'[r].kind = res[r].kind /\ res'[r].start = res[r].start
           /\ res'[r].gen = res[r].gen /\ res'[r].sink = res[r].sink /\ res'[r].own = res[r].own
           /\ res'[r].ownDS = res[r].ownDS /\ res'[r].rec = res[r].rec /\ res'[r].body = res[r].body
           /\ res'[r].recheck = res[r].recheck /\ res'[r].remarked = res[r].remarked
           /\ res'[r].win = res[r].win
<1> DEFINE torn == /\ worker.pc \in {"floor", "stamp"}
                   /\ worker.obj = Self(r)
                   /\ Self(r) \notin res[r].own
<1>1. /\ res[r].pc = "check"
      /\ res' = [res EXCEPT ![r].pc = "scan", ![r].checked = seq]
      /\ exposed' = IF torn /\ Resident(res[r].key)
                    THEN [exposed EXCEPT ![res[r].key] = @ \cup {"torn"}] ELSE exposed
  BY DEF CheckBegin
<1>2. exposed \in [Keys -> SUBSET Windows] /\ res[r].key \in Keys
  BY ResolveTypes DEF TypeOK, StoreTypeOK
<1> HIDE DEF torn
<1>3. /\ \A j \in Keys : exposed[j] \subseteq exposed'[j]
      /\ torn /\ Resident(res[r].key) => exposed'[res[r].key] # {}
  BY <1>1, <1>2
<1>4. /\ Alone(r) /\ res'[r].pc = "scan" /\ res'[r].checked = seq
      /\ res'[r].key = res[r].key /\ res'[r].kind = res[r].kind /\ res'[r].start = res[r].start
      /\ res'[r].gen = res[r].gen /\ res'[r].sink = res[r].sink /\ res'[r].own = res[r].own
      /\ res'[r].ownDS = res[r].ownDS /\ res'[r].rec = res[r].rec /\ res'[r].body = res[r].body
      /\ res'[r].recheck = res[r].recheck /\ res'[r].remarked = res[r].remarked
      /\ res'[r].win = res[r].win
  BY <1>1, ResolveTypes DEF Alone, ResolveState
<1> QED BY <1>1, <1>3, <1>4 DEF torn

\* The scan re-marks the key when something it read moved.
LEMMA CheckScanEffect ==
    ASSUME TypeOK, NEW r \in Resolvers, CheckScan(r)
    PROVE  /\ Alone(r) /\ res[r].pc = "scan"
           /\ Resident(res[r].key) =>
                \/ res[r].key \in refreshQ' \/ exposed'[res[r].key] # {}
                \/ \A c \in res[r].sink : ~depMovedSince(c, res[r].start) /\ ~Uninherited({c})
           /\ \A j \in Keys : exposed[j] \subseteq exposed'[j]
           /\ refreshQ \subseteq refreshQ'
           /\ r \in Refreshers => res'[r] = Ending(r)
           /\ r \notin Refreshers =>
                /\ res'[r].pc = "late" /\ res'[r].start = 0
                /\ res'[r].remarked /\ Resident(res[r].key) => res[r].key \in refreshQ'
                /\ res'[r].key = res[r].key /\ res'[r].kind = res[r].kind /\ res'[r].gen = res[r].gen
                /\ res'[r].sink = res[r].sink /\ res'[r].own = res[r].own
                /\ res'[r].ownDS = res[r].ownDS /\ res'[r].rec = res[r].rec /\ res'[r].body = res[r].body
                /\ res'[r].recheck = res[r].recheck /\ res'[r].checked = res[r].checked
                /\ res'[r].win = res[r].win
<1> DEFINE k == res[r].key
           moved == \E c \in res[r].sink : depMovedSince(c, res[r].start)
<1>1. /\ res[r].pc = "scan"
      /\ IF moved THEN OnDirtyMark(k) ELSE UNCHANGED markVars
      /\ res' = [res EXCEPT ![r] = IF r \in Refreshers THEN Ending(r)
                                   ELSE [@ EXCEPT !.remarked = moved, !.pc = "late", !.start = 0]]
      /\ exposed' = IF ~moved /\ Resident(k) /\ Uninherited(res[r].sink)
                    THEN [exposed EXCEPT ![k] = @ \cup {"cold"}] ELSE exposed
  BY DEF CheckScan
<1>2. exposed \in [Keys -> SUBSET Windows] /\ k \in Keys
  BY ResolveTypes DEF TypeOK, StoreTypeOK
<1> HIDE DEF moved
<1>3. refreshQ \subseteq refreshQ' /\ (moved /\ Resident(k) => k \in refreshQ')
  BY <1>1 DEF OnDirtyMark, markVars
<1>4. /\ \A j \in Keys : exposed[j] \subseteq exposed'[j]
      /\ ~moved /\ Resident(k) /\ Uninherited(res[r].sink) => exposed'[k] # {}
  BY <1>1, <1>2
<1>5. ASSUME ~moved, ~Uninherited(res[r].sink), NEW c \in res[r].sink
      PROVE  ~depMovedSince(c, res[r].start) /\ ~Uninherited({c})
  BY <1>5 DEF moved, Uninherited
<1>6. Alone(r) /\ (r \in Refreshers => res'[r] = Ending(r))
  BY <1>1, ResolveTypes DEF Alone
<1>7. ASSUME r \notin Refreshers
      PROVE  /\ res'[r].pc = "late" /\ res'[r].start = 0 /\ res'[r].remarked = moved
             /\ res'[r].key = res[r].key /\ res'[r].kind = res[r].kind /\ res'[r].gen = res[r].gen
             /\ res'[r].sink = res[r].sink /\ res'[r].own = res[r].own
             /\ res'[r].ownDS = res[r].ownDS /\ res'[r].rec = res[r].rec /\ res'[r].body = res[r].body
             /\ res'[r].recheck = res[r].recheck /\ res'[r].checked = res[r].checked
             /\ res'[r].win = res[r].win
  BY <1>1, <1>7, ResolveTypes DEF ResolveState
<1> QED BY <1>1, <1>3, <1>4, <1>5, <1>6, <1>7

\* The ends of a resolve that stores nothing, or has done its last write.
Ends(r) == PutRefused(r) \/ Decline(r) \/ SelfGone(r) \/ LateDone(r) \/ Release(r)

\* Such a resolve is blank; a key without a cell gives up its edges.
LEMMA EndEffect ==
    ASSUME TypeOK, NEW r \in Resolvers, Ends(r)
    PROVE  /\ \A q \in Resolvers \ {r} : Mate(q)
           /\ \A j \in Keys : Stays(j) \/ Strips(j)
           /\ refreshQ \subseteq refreshQ'
           /\ res[r].pc # "release" => res'[r] = Ending(r)
           /\ res[r].pc = "release" => res'[r] = Idle
<1> USE DEF informerVars, depVars, markVars, storeVars
<1>k. PICK k \in Keys : k = res[r].key
  BY ResolveTypes
<1> DEFINE e == IF res[r].pc = "release" THEN Idle ELSE Ending(r)
           Goal == /\ \A q \in Resolvers \ {r} : Mate(q)
                   /\ \A j \in Keys : Stays(j) \/ Strips(j)
                   /\ res'[r] = e
<1>0. k \in Keys /\ DOMAIN res = Resolvers /\ e.ownDS = "none" /\ DOMAIN ResAfterRemove(k) = Resolvers
  BY ResolveTypes, Blanks DEF Blank, ResAfterRemove, Detached
<1>1. ASSUME RemoveL1Key(k), ~Resident(k)', res' = [ResAfterRemove(k) EXCEPT ![r] = e],
             UNCHANGED <<cell, gen, exposed>> \/ RemoveCell(k)
      PROVE  Goal
  <2> HIDE DEF e
  <2>1. res'[r] = e /\ \A q \in Resolvers \ {r} : res'[q] = ResAfterRemove(k)[q]
    BY <1>0, <1>1
  <2>2. \A q \in Resolvers \ {r} : Mate(q)
    BY <1>0, <1>1, <2>1, MateRemove
  <2>3. Strips(k)
    BY <1>0, <1>1, <2>1, MateRemove DEF Strips
  <2>4. \A j \in Keys \ {k} : Stays(j)
    BY <1>0, <1>1, KeepsOthers, StaysOthers DEF Stays
  <2> QED BY <2>1, <2>2, <2>3, <2>4
<1>2. ASSUME res' = [res EXCEPT ![r] = e], UNCHANGED <<edges, reverse, cell, gen, exposed>> PROVE Goal
  <2> HIDE DEF e
  <2>1. res'[r] = e /\ \A q \in Resolvers \ {r} : res'[q] = res[q]
    BY <1>0, <1>2
  <2> QED BY <1>2, <2>1, MateSame, StaysFrame
<1>3. CASE PutRefused(r)
  <2>1. res[r].pc # "release" /\ refreshQ' = refreshQ /\ UNCHANGED <<cell, gen, exposed>>
    BY <1>3 DEF PutRefused, ReadyToPut
  <2>2. CASE Unstored(k) /\ RemoveL1Key(k) /\ res' = [ResAfterRemove(k) EXCEPT ![r] = Ending(r)]
    BY <1>1, <2>1, <2>2 DEF Unstored, Resident
  <2>3. CASE UNCHANGED depVars /\ res' = [res EXCEPT ![r] = Ending(r)]
    BY <1>2, <2>1, <2>3
  <2> QED BY <1>k, <1>3, <2>1, <2>2, <2>3 DEF PutRefused
<1>4. CASE Decline(r)
  <2>1. refreshQ \subseteq refreshQ' /\ res[r].pc # "release"
    BY <1>4 DEF Decline, Requeued
  <2> QED BY <1>2, <1>4, <2>1 DEF Decline
<1>5. CASE SelfGone(r)
  <2>1. refreshQ \subseteq refreshQ' /\ res[r].pc # "release"
    BY <1>5 DEF SelfGone, Requeued
  <2>2. CASE RemoveCell(k) /\ res' = [ResAfterRemove(k) EXCEPT ![r] = Ending(r)]
    <3>1. RemoveL1Key(k) /\ ~Resident(k)'
      BY <1>0, <2>2 DEF RemoveCell, Resident, TypeOK, StoreTypeOK
    <3> QED BY <1>1, <2>1, <2>2, <3>1
  <2>3. CASE res' = [res EXCEPT ![r] = Ending(r)] /\ UNCHANGED <<depVars, storeVars>>
    BY <1>2, <2>1, <2>3
  <2> QED BY <1>k, <1>5, <2>1, <2>2, <2>3 DEF SelfGone
<1>6. CASE LateDone(r)
  BY <1>2, <1>6 DEF LateDone
<1>7. CASE Release(r)
  <2>1. res[r].pc = "release" /\ refreshQ' = refreshQ /\ UNCHANGED <<cell, gen, exposed>>
    BY <1>7 DEF Release
  <2>2. CASE Unstored(k) /\ RemoveL1Key(k) /\ res' = [ResAfterRemove(k) EXCEPT ![r] = Idle]
    BY <1>1, <2>1, <2>2 DEF Unstored, Resident
  <2>3. CASE UNCHANGED depVars /\ res' = [res EXCEPT ![r] = Idle]
    BY <1>2, <2>1, <2>3
  <2> QED BY <1>k, <1>7, <2>1, <2>2, <2>3 DEF Release
<1> QED BY <1>3, <1>4, <1>5, <1>6, <1>7 DEF Ends

----------------------------------------------------------------------------
\* What a step leaves alone.

\* A step of one resolve: the others only learn of prunings, and a key keeps its
\* cell, loses it, or gets a new one.
LEMMA ActFate ==
    ASSUME TypeOK, TypeOK', NEW r \in Resolvers, Acts(r)
    PROVE  /\ \A q \in Resolvers \ {r} : Mate(q)
           /\ \A j \in Keys : \/ Stays(j) \/ Strips(j)
                              \/ PutAccepted(r) /\ res[r].key = j /\ Keeps(j)
<1> USE DEF informerVars, depVars, markVars, storeVars
<1>0. ASSUME Alone(r) PROVE \A q \in Resolvers \ {r} : Mate(q)
  BY <1>0, MateSame DEF Alone
<1>1. ASSUME Alone(r), UNCHANGED <<edges, reverse, cell, gen>>,
             \A j \in Keys : exposed[j] \subseteq exposed'[j]
      PROVE  /\ \A q \in Resolvers \ {r} : Mate(q)
             /\ \A j \in Keys : Stays(j)
  BY <1>0, <1>1, StaysFrame
<1>2. CASE r \in Callers /\ \E k \in Keys, kd \in CallerKinds : Enter(r, k, kd)
  <2>1. PICK k \in Keys, kd \in CallerKinds : Enter(r, k, kd)
    BY <1>2
  <2>2. Alone(r)
    BY <2>1, EnterEffect
  <2> QED BY <1>1, <2>1, <2>2 DEF Enter
<1>3. CASE r \in Refreshers /\ \E k \in Keys : Dequeue(r, k)
  BY <1>1, <1>3, DequeueEffect DEF Dequeue
<1>4. CASE FetchSelf(r) \/ CaptureGen(r)
  BY <1>1, <1>4, FetchSelfEffect, CaptureGenEffect DEF FetchSelf, CaptureGen
<1>5. ASSUME NEW c \in Coords, Read(r, c) \/ RecordBegin(r, c)
      PROVE  /\ \A q \in Resolvers \ {r} : Mate(q)
             /\ \A j \in Keys : Stays(j)
  <2>1. Alone(r)
    BY <1>5, ReadEffect, RecordBeginEffect
  <2> QED BY <1>1, <1>5, <2>1 DEF Read, RecordBegin
<1>6. CASE RecordInherit(r)
  BY <1>1, <1>6, RecordInheritEffect DEF RecordInherit
<1>7. CASE RecordInsert(r)
  BY <1>7, RecordInsertEffect
<1>8. CASE Recheck(r) \/ CheckBegin(r) \/ CheckScan(r)
  BY <1>1, <1>8, RecheckEffect, CheckBeginEffect, CheckScanEffect DEF Recheck, CheckBegin, CheckScan
<1>9. CASE PutAccepted(r)
  BY <1>0, <1>9, PutAcceptedEffect
<1>10. CASE Ends(r)
  BY <1>10, EndEffect
<1> QED BY <1>2, <1>3, <1>4, <1>5, <1>6, <1>7, <1>8, <1>9, <1>10 DEF Acts, Resolve, Ends

\* The event sequence and the floors only grow.
LEMMA Monotone ==
    ASSUME TypeOK, Next
    PROVE  /\ seq \in Nat /\ seq' \in Nat /\ seq <= seq'
           /\ \A g \in Gvrs : floor[g] \in Nat /\ floor'[g] \in Nat /\ floor[g] <= floor'[g]
<1> USE DEF informerVars, depVars, markVars, storeVars
<1>0. seq \in Nat /\ floor \in [Gvrs -> Nat] /\ worker.seq \in Nat
  BY DEF TypeOK, DepTypeOK, WorkerState
<1>1. CASE BumpAdd
  BY <1>0, <1>1 DEF BumpAdd
<1>2. CASE BumpFloor
  <2>1. floor' = [floor EXCEPT ![GvrOf[worker.obj]] = MaxOf(@, worker.seq)] /\ seq' = seq
    BY <1>2 DEF BumpFloor, RaisedFloor
  <2> QED BY <1>0, <2>1 DEF MaxOf
<1>3. CASE UNCHANGED <<seq, floor>>
  BY <1>0, <1>3
<1>4. ASSUME NEW k, RemoveL1Key(k) PROVE UNCHANGED <<seq, floor>>
  BY <1>4 DEF RemoveL1Key
<1>5. CASE World /\ ~BumpAdd /\ ~BumpFloor
  BY <1>3, <1>4, <1>5 DEF World, ObjectEvent, Worker, WorkerTake, BumpStamp, Collect, EvictOne, MarkOne,
     WorkerDone, Evict, ExpireTombstone, RemoveCell
<1>6. ASSUME NEW r \in Resolvers, Acts(r) PROVE UNCHANGED <<seq, floor>>
  <2>1. CASE Resolve(r) /\ ~PutAccepted(r)
    BY <1>4, <2>1 DEF Resolve, FetchSelf, CaptureGen, Read, RecordBegin, RecordInherit, RecordInsert,
       Recheck, PutRefused, CheckBegin, CheckScan, LateDone, Decline, SelfGone, Release, RemoveCell
  <2>2. CASE PutAccepted(r)
    BY <2>2 DEF PutAccepted, ReassertOwnEdges
  <2>3. CASE ~Resolve(r)
    BY <1>6, <2>3 DEF Acts, Enter, Dequeue
  <2> QED BY <2>1, <2>2, <2>3
<1> QED BY <1>1, <1>2, <1>3, <1>5, <1>6, WhoActs

\* A publisher that has not raised its bucket goes on to do so, unless the bucket
\* is pruned.
LEMMA PublisherKept ==
    ASSUME TypeOK, TypeOK', EdgesOwned, Next, NEW q \in Resolvers, NEW c \in Coords,
           res[q].rec.step = "inherit", res[q].rec.coord = c, ~res[q].rec.detached
    PROVE  \/ Uninherited({c})' \/ bump'[c] = NoBucket
           \/ bump'[c] = MaxOf(bump[c], floor[TypeOf(c)]) /\ floor' = floor
<1>1. ASSUME Mate(q) PROVE Uninherited({c})' \/ bump'[c] = NoBucket
  BY <1>1 DEF Mate, Alike, Uninherited
<1>2. CASE World
  BY <1>1, <1>2, WorldFate
<1>3. ASSUME NEW r \in Resolvers \ {q}, Acts(r) PROVE Uninherited({c})' \/ bump'[c] = NoBucket
  BY <1>1, <1>3, ActFate
<1>4. CASE Acts(q)
  <2>1. res[q].pc \in {"resolve", "late"}
    BY DEF EdgesOwned
  <2>2. RecordInherit(q)
    <3>1. ASSUME NEW d \in Coords PROVE ~Read(q, d) /\ ~RecordBegin(q, d)
      BY DEF Read, RecordBegin
    <3>2. ~PutAccepted(q) /\ ~PutRefused(q)
      BY DEF PutAccepted, PutRefused, ReadyToPut
    <3>3. /\ ~FetchSelf(q) /\ ~CaptureGen(q) /\ ~RecordInsert(q) /\ ~Recheck(q) /\ ~CheckBegin(q)
          /\ ~CheckScan(q) /\ ~LateDone(q) /\ ~Decline(q) /\ ~SelfGone(q) /\ ~Release(q)
      BY <2>1 DEF FetchSelf, CaptureGen, RecordInsert, Recheck, CheckBegin, CheckScan, LateDone, Decline,
         SelfGone, Release
    <3>4. \A k, kd : ~Enter(q, k, kd) /\ ~Dequeue(q, k)
      BY <2>1 DEF Enter, Dequeue
    <3> QED BY <1>4, <3>1, <3>2, <3>3, <3>4 DEF Acts, Resolve
  <2> QED BY <2>2 DEF RecordInherit, TypeOK, DepTypeOK
<1> QED BY <1>2, <1>3, <1>4, WhoActs

\* What the stamps say to have moved, they go on saying.
LEMMA PastKept ==
    ASSUME TypeOK, TypeOK', FloorCoversBuckets, EdgesOwned, Next, NEW c \in Coords, NEW s \in 0 .. seq,
           Past(c, s)
    PROVE  Past(c, s)'
<1>0. s \in Nat
  BY DEF TypeOK, DepTypeOK
<1>1. PICK g \in Gvrs : g = TypeOf(c) /\ g = TypeOf(c)'
  BY ConstantTypes DEF TypeOf
<1>2. floor[g] > s /\ floor'[g] > s
  BY <1>0, <1>1, Monotone DEF Past
<1>3. CASE depMovedSince(c, s)
  BY <1>1, <1>2, <1>3, StableNext DEF MovedStays, Past
<1>4. CASE Uninherited({c})
  <2>1. PICK q \in Resolvers : res[q].rec.step = "inherit" /\ res[q].rec.coord = c /\ ~res[q].rec.detached
    BY <1>4 DEF Uninherited
  <2>2. CASE Uninherited({c})'
    BY <1>1, <1>2, <2>2 DEF Past
  <2>3. CASE bump'[c] = NoBucket
    BY <1>1, <1>2, <2>3 DEF Past, depMovedSince
  <2>4. CASE bump'[c] = MaxOf(bump[c], floor[TypeOf(c)])
    <3>1. bump[c] \in Int /\ floor[g] \in Nat
      BY <1>1 DEF TypeOK, DepTypeOK, NoBucket
    <3>2. bump'[c] > s /\ bump'[c] # NoBucket
      BY <1>0, <1>1, <1>2, <2>4, <3>1 DEF MaxOf, NoBucket
    <3> QED BY <1>1, <1>2, <3>2 DEF Past, depMovedSince
  <2> QED BY <2>1, <2>2, <2>3, <2>4, PublisherKept
<1> QED BY <1>3, <1>4 DEF Past

\* Only the worker's own steps move it, and nobody else takes from the queue.
LEMMA WorkerFrame ==
    ASSUME Next, ~Worker
    PROVE  worker' = worker /\ eventQ \subseteq eventQ'
<1> USE DEF informerVars
<1>1. CASE World
  BY <1>1 DEF World, ObjectEvent, Evict, ExpireTombstone
<1>2. ASSUME NEW r \in Resolvers, Acts(r) PROVE worker' = worker /\ eventQ' = eventQ
  <2>1. CASE Resolve(r)
    BY <2>1 DEF Resolve, FetchSelf, CaptureGen, Read, RecordBegin, RecordInherit, RecordInsert,
       Recheck, PutAccepted, PutRefused, CheckBegin, CheckScan, LateDone, Decline, SelfGone, Release
  <2>2. CASE ~Resolve(r)
    BY <1>2, <2>2 DEF Acts, Enter, Dequeue
  <2> QED BY <2>1, <2>2
<1> QED BY <1>1, <1>2, WhoActs

\* The worker's fields after each of its steps.
LEMMA WorkerEffect ==
    ASSUME TypeOK, Worker
    PROVE  /\ \A o \in Objects : WorkerTake(o) =>
                eventQ' = eventQ \ {o} /\ worker.pc = "idle" /\ worker'.pc = "add" /\ worker'.obj = o
           /\ ~(\E o \in Objects : WorkerTake(o)) => eventQ' = eventQ
           /\ BumpAdd => /\ worker.pc = "add" /\ worker'.pc = "floor" /\ worker'.obj = worker.obj
                         /\ seq' = seq + 1 /\ worker'.seq = seq + 1
           /\ BumpFloor => /\ worker.pc = "floor" /\ worker'.pc = "stamp" /\ worker'.obj = worker.obj
                           /\ worker'.seq = worker.seq /\ worker'.todo = Buckets(worker.obj)
           /\ BumpStamp => /\ worker.pc = "stamp" /\ worker'.obj = worker.obj /\ worker'.seq = worker.seq
                           /\ worker'.pc \in {"stamp", "collect"}
                           /\ worker'.todo # {} => worker'.pc = "stamp"
           /\ Collect => /\ worker.pc = "collect" /\ worker'.pc = "fanout"
                         /\ \A c \in Buckets(worker.obj) : edges[c] \subseteq worker'.evict \cup worker'.mark
           /\ \A k \in Keys : EvictOne(k) =>
                worker.pc = "fanout" /\ worker'.pc = "fanout" /\ worker'.evict = worker.evict \ {k}
                  /\ worker'.mark = worker.mark
           /\ \A k \in Keys : MarkOne(k) =>
                worker.pc = "fanout" /\ worker'.pc = "fanout" /\ worker'.evict = worker.evict
                  /\ worker'.mark = worker.mark \ {k}
<1> USE DEF informerVars
<1>0. worker \in WorkerState
  BY DEF TypeOK
<1>1. ASSUME NEW o \in Objects, WorkerTake(o)
      PROVE  eventQ' = eventQ \ {o} /\ worker.pc = "idle" /\ worker'.pc = "add" /\ worker'.obj = o
  BY <1>0, <1>1 DEF WorkerTake, WorkerState
<1>2. ~(\E o \in Objects : WorkerTake(o)) => eventQ' = eventQ
  BY DEF Worker, BumpAdd, BumpFloor, BumpStamp, Collect, EvictOne, MarkOne, WorkerDone
<1>3. ASSUME BumpAdd
      PROVE  /\ worker.pc = "add" /\ worker'.pc = "floor" /\ worker'.obj = worker.obj
             /\ seq' = seq + 1 /\ worker'.seq = seq + 1
  BY <1>0, <1>3 DEF BumpAdd, WorkerState
<1>4. ASSUME BumpFloor
      PROVE  /\ worker.pc = "floor" /\ worker'.pc = "stamp" /\ worker'.obj = worker.obj
             /\ worker'.seq = worker.seq /\ worker'.todo = Buckets(worker.obj)
  BY <1>0, <1>4 DEF BumpFloor, WorkerState
<1>5. ASSUME BumpStamp
      PROVE  /\ worker.pc = "stamp" /\ worker'.obj = worker.obj /\ worker'.seq = worker.seq
             /\ worker'.pc \in {"stamp", "collect"}
             /\ worker'.todo # {} => worker'.pc = "stamp"
  BY <1>0, <1>5 DEF BumpStamp, WorkerState
<1>6. ASSUME Collect
      PROVE  /\ worker.pc = "collect" /\ worker'.pc = "fanout"
             /\ \A c \in Buckets(worker.obj) : edges[c] \subseteq worker'.evict \cup worker'.mark
  <2> DEFINE matched == UNION {edges[c] : c \in Buckets(worker.obj)}
             self == {k \in matched : /\ worker.state = "ABSENT" /\ Resident(k)
                                      /\ SelfOf[k] = worker.obj}
  <2>1. worker.pc = "collect"
        /\ worker' = [worker EXCEPT !.pc = "fanout", !.evict = self, !.mark = matched \ self]
    BY <1>6 DEF Collect
  <2>2. \A c \in Buckets(worker.obj) : edges[c] \subseteq matched
    OBVIOUS
  <2> HIDE DEF matched, self
  <2>3. worker'.pc = "fanout" /\ worker'.evict = self /\ worker'.mark = matched \ self
    BY <1>0, <2>1 DEF WorkerState
  <2> QED BY <2>1, <2>2, <2>3
<1>7. ASSUME NEW k \in Keys, EvictOne(k)
      PROVE  worker.pc = "fanout" /\ worker'.pc = "fanout" /\ worker'.evict = worker.evict \ {k}
               /\ worker'.mark = worker.mark
  BY <1>0, <1>7 DEF EvictOne, WorkerState
<1>8. ASSUME NEW k \in Keys, MarkOne(k)
      PROVE  worker.pc = "fanout" /\ worker'.pc = "fanout" /\ worker'.evict = worker.evict
               /\ worker'.mark = worker.mark \ {k}
  BY <1>0, <1>8 DEF MarkOne, WorkerState
<1> QED BY <1>1, <1>2, <1>3, <1>4, <1>5, <1>6, <1>7, <1>8

\* An event that is on its way comes closer until its stamps are there.
LEMMA MissedKept ==
    ASSUME TypeOK, TypeOK', FloorCoversBuckets, EdgesOwned, Next, NEW c \in Coords, NEW s \in 0 .. seq
    PROVE  /\ Missed(c, s) => Missed(c, s)'
           /\ Coming(c) => Coming(c)' \/ (Ahead(c)' /\ Stamping(c, s)')
           /\ Stamping(c, s) => Ahead(c)' /\ (Stamping(c, s)' \/ Past(c, s)')
<1>0. s \in Nat /\ seq \in Nat /\ worker \in WorkerState /\ s <= seq
  BY DEF TypeOK, DepTypeOK
<1>1. \A o : Buckets(o)' = Buckets(o)
  BY DEF Buckets
<1>2. ASSUME Coming(c) PROVE Coming(c)' \/ (Ahead(c)' /\ Stamping(c, s)')
  <2>1. PICK o \in Objects : c \in Buckets(o) /\ (o \in eventQ \/ (worker.pc = "add" /\ worker.obj = o))
    BY <1>2 DEF Coming
  <2>2. CASE ~Worker
    BY <1>1, <2>1, <2>2, WorkerFrame DEF Coming
  <2>3. ASSUME Worker, o \in eventQ PROVE Coming(c)'
    <3>1. CASE o \in eventQ'
      BY <1>1, <2>1, <3>1 DEF Coming
    <3>2. CASE o \notin eventQ'
      <4>1. PICK p \in Objects : WorkerTake(p)
        BY <2>3, <3>2, WorkerEffect
      <4> QED BY <1>1, <2>1, <2>3, <3>2, <4>1, WorkerEffect DEF Coming
    <3> QED BY <3>1, <3>2
  <2>4. ASSUME Worker, worker.pc = "add", worker.obj = o PROVE Ahead(c)' /\ Stamping(c, s)'
    <3>1. BumpAdd
      BY <2>4 DEF Worker, WorkerTake, BumpFloor, BumpStamp, Collect, EvictOne, MarkOne, WorkerDone
    <3> QED BY <1>0, <1>1, <2>1, <2>4, <3>1, WorkerEffect DEF Ahead, Stamping
  <2> QED BY <2>1, <2>2, <2>3, <2>4
<1>3. ASSUME Stamping(c, s) PROVE Ahead(c)' /\ (Stamping(c, s)' \/ Past(c, s)')
  <2>1. /\ c \in Buckets(worker.obj) /\ worker.seq > s /\ worker.seq \in Nat
        /\ worker.pc = "floor" \/ (worker.pc = "stamp" /\ c \in worker.todo)
    BY <1>0, <1>3 DEF Stamping, WorkerState
  <2>2. CASE ~Worker
    BY <1>1, <2>1, <2>2, WorkerFrame DEF Ahead, Stamping
  <2>3. CASE Worker /\ worker.pc = "floor"
    <3>1. BumpFloor
      BY <2>3 DEF Worker, WorkerTake, BumpAdd, BumpStamp, Collect, EvictOne, MarkOne, WorkerDone
    <3> QED BY <1>1, <2>1, <2>3, <3>1, WorkerEffect DEF Ahead, Stamping
  <2>4. CASE Worker /\ worker.pc = "stamp"
    <3>1. BumpStamp
      BY <2>4 DEF Worker, WorkerTake, BumpAdd, BumpFloor, Collect, EvictOne, MarkOne, WorkerDone
    <3>2. Ahead(c)'
      BY <1>1, <2>1, <2>4, <3>1, WorkerEffect DEF Ahead
    <3> DEFINE d == IF worker.obj \in worker.todo THEN worker.obj ELSE GvrOf[worker.obj]
    <3>3. /\ worker'.todo = worker.todo \ {d} /\ floor' = floor
          /\ bump' = [bump EXCEPT ![d] = IF @ = NoBucket THEN @ ELSE MaxOf(@, worker.seq)]
      BY <1>0, <3>1 DEF BumpStamp, WorkerState
    <3>4. CASE d # c
      <4>1. c \in worker'.todo
        BY <2>1, <2>4, <3>3, <3>4
      <4> QED BY <1>1, <2>1, <2>4, <3>1, <3>2, <4>1, WorkerEffect DEF Stamping
    <3>5. CASE d = c
      <4>1. PICK g \in Gvrs : g = TypeOf(c) /\ g = TypeOf(c)' /\ g = GvrOf[worker.obj]
        BY <1>0, <2>1, BucketTypes, ConstantTypes DEF WorkerState, TypeOf
      <4>2. floor'[g] > s
        BY <2>1, <2>4, <3>3, <4>1, <1>0 DEF FloorCoversBuckets, TypeOK, DepTypeOK
      <4>3. bump[c] \in Nat \cup {NoBucket} /\ DOMAIN bump = Coords
        BY DEF TypeOK, DepTypeOK
      <4>4. bump'[c] = IF bump[c] = NoBucket THEN NoBucket ELSE MaxOf(bump[c], worker.seq)
        BY <3>3, <3>5, <4>3
      <4>5. bump'[c] = NoBucket \/ (bump'[c] # NoBucket /\ bump'[c] > s)
        BY <1>0, <2>1, <4>3, <4>4 DEF MaxOf, NoBucket
      <4>6. Past(c, s)'
        BY <4>1, <4>2, <4>5 DEF Past, depMovedSince
      <4> QED BY <3>2, <4>6
    <3> QED BY <3>4, <3>5
  <2> QED BY <2>1, <2>2, <2>3, <2>4
<1>4. Past(c, s) => Past(c, s)'
  BY PastKept
<1> QED BY <1>2, <1>3, <1>4 DEF Missed

----------------------------------------------------------------------------
\* The shape of a resolve, and its edges.

\* A resolve that does not act keeps its shape; when its key is stripped, it knows.
LEMMA MateShape ==
    ASSUME TypeOK, TypeOK', Next, NEW q \in Resolvers, Mate(q), Shape(q), OwnKept(q),
           \A j \in Keys : Keeps(j) \/ Strips(j)
    PROVE  Shape(q)' /\ OwnKept(q)'
<1>0. /\ res[q].key \in Keys /\ res[q].start \in Nat /\ res[q].checked \in Nat /\ res[q].own \subseteq Coords
      /\ seq \in Nat /\ seq' \in Nat /\ seq <= seq' /\ res'[q].ownDS \in {"none", "same", "changed"}
  BY ResolveTypes, Monotone DEF TypeOK, ResolveState
<1>1. PICK j \in Keys : j = res[q].key
  BY <1>0
<1>2. /\ Alike(res[q], res'[q])
      /\ res'[q].ownDS = res[q].ownDS \/ (res[q].ownDS = "same" /\ res'[q].ownDS = "changed")
  BY DEF Mate
<1>3. res'[q].start <= seq' /\ res'[q].checked <= seq'
  BY <1>0, <1>2 DEF Shape, Kinds, Times, Begun, Bodies, Lists, Lates, DepSet, Alike
<1>4. res'[q].ownDS = "same" => res[q].ownDS = "same" /\ reverse'[j] # {} /\ Keeps(j)
  BY <1>1, <1>2 DEF Shape, Kinds, Times, Begun, Bodies, Lists, Lates, DepSet, Keeps, Strips
<1>5. Shape(q)'
  <2>1. Kinds(q)' /\ Times(q)' /\ Begun(q)' /\ Lates(q)'
    BY <1>2, <1>3 DEF Shape, Kinds, Times, Begun, Lates, Alike, Self
  <2>2. Bodies(q)' /\ Lists(q)'
    BY <1>2 DEF Shape, Bodies, Lists, Alike, Self
  <2>3. DepSet(q)'
    BY <1>1, <1>2, <1>4 DEF DepSet, Alike
  <2> QED BY <2>1, <2>2, <2>3 DEF Shape
<1>6. OwnKept(q)'
  <2>1. res[q].ownDS = "changed" => res'[q].ownDS = "changed"
    BY <1>2
  <2> QED BY <1>0, <1>1, <1>2, <1>4, <2>1 DEF OwnKept, Alike, Inserting, Keeps
<1> QED BY <1>5, <1>6

\* A blank resolve has its shape.
LEMMA BlankShape ==
    ASSUME TypeOK', NEW r \in Resolvers, Blank(res'[r]),
           res'[r].pc \in {"idle", "capture", "release"},
           res'[r].pc # "idle" => (res'[r].kind = "refresh" <=> r \in Refreshers),
           res'[r].pc = "capture" => res'[r].kind = "refresh"
    PROVE  Shape(r)' /\ OwnKept(r)' /\ ReadKnown(r)'
<1>0. seq' \in Nat
  BY DEF TypeOK, DepTypeOK
<1>1. \A c \in Coords : NoBody[c] = Unread
  BY DEF NoBody
<1>2. Shape(r)'
  BY <1>0, <1>1 DEF Shape, Kinds, Times, Begun, Bodies, Lists, Lates, DepSet, Blank, Self
<1>3. OwnKept(r)' /\ ReadKnown(r)'
  BY <1>1 DEF OwnKept, ReadKnown, Blank
<1> QED BY <1>2, <1>3

\* A resolve's own steps keep its shape and its edges.
LEMMA ActShape ==
    ASSUME TypeOK, TypeOK', EdgesOwned, Next, NEW r \in Resolvers, Shape(r), OwnKept(r), Acts(r)
    PROVE  Shape(r)' /\ OwnKept(r)'
<1> USE DEF informerVars, depVars, markVars, storeVars
<1>0. /\ res[r].start \in Nat /\ res[r].checked \in Nat
      /\ seq \in Nat /\ seq' \in Nat /\ seq <= seq' /\ res[r].start <= seq' /\ res[r].checked <= seq'
      /\ DOMAIN res[r].body = Coords /\ ver \in [Coords -> Nat] /\ Self(r) \in Coords
  BY ResolveTypes, Monotone DEF TypeOK, InformerTypeOK, ResolveState, Shape, Kinds, Times, Begun, Bodies, Lists, Lates, DepSet
<1>1. PICK k \in Keys : k = res[r].key
  BY ResolveTypes
<1>2. ASSUME NEW j \in Keys, NEW kd \in CallerKinds, Enter(r, j, kd) PROVE Shape(r)' /\ OwnKept(r)'
  <2>1. kd # "refresh" /\ r \notin Refreshers
    BY <1>2, EnterEffect, ConstantsAssumption
  <2>2. \A c \in Coords : NoBody[c] = Unread
    BY DEF NoBody
  <2> QED BY <1>0, <1>2, <2>1, <2>2, EnterEffect DEF Shape, Kinds, Times, Begun, Bodies, Lists, Lates, DepSet, OwnKept, Self
<1>3. ASSUME NEW j \in Keys, Dequeue(r, j) PROVE Shape(r)' /\ OwnKept(r)'
  <2>1. CASE Resident(j)
    BY <1>3, <2>1, DequeueEffect, BlankShape
  <2>2. CASE ~Resident(j)
    <3>1. Mate(r) /\ \A i \in Keys : Keeps(i)
      BY <1>3, <2>2, DequeueEffect, MateSame DEF Dequeue, Keeps
    <3> QED BY <3>1, MateShape
  <2> QED BY <2>1, <2>2
<1>4. CASE FetchSelf(r)
  <2>1. CASE res'[r] = Idle
    BY <2>1, Blanks, BlankShape
  <2>2. CASE res'[r].pc = "capture"
    <3>1. /\ res[r].pc = "entry" /\ res[r].kind # "refresh" /\ r \notin Refreshers
          /\ res'[r].body = [res[r].body EXCEPT ![Self(r)] = ver[Self(r)]]
          /\ res[r].body = NoBody
      <4>1. res[r].pc = "entry" /\ res[r].body = NoBody
        BY <1>4, FetchSelfEffect DEF Shape, Kinds, Times, Begun, Bodies, Lists, Lates, DepSet
      <4>2. Idle.pc # "capture"
        BY DEF Idle
      <4>3. res[r].kind # "refresh"
        BY <4>1 DEF Shape, Kinds, Times, Begun, Bodies, Lists, Lates, DepSet
      <4> QED BY <1>4, <2>2, <4>1, <4>2, <4>3, FetchSelfEffect DEF Shape, Kinds, Times, Begun, Bodies, Lists, Lates, DepSet
    <3>2. \A c \in Coords : res'[r].body[c] # Unread => c = Self(r)
      BY <1>0, <3>1 DEF NoBody
    <3>3. Idle.pc # "capture"
      BY DEF Idle
    <3>4. UNCHANGED <<reverse, seq>>
      BY <1>4 DEF FetchSelf
    <3>5. /\ res'[r].key = res[r].key /\ res'[r].kind = res[r].kind /\ res'[r].start = res[r].start
          /\ res'[r].sink = res[r].sink /\ res'[r].own = res[r].own /\ res'[r].ownDS = res[r].ownDS
          /\ res'[r].rec = res[r].rec /\ res'[r].checked = res[r].checked
          /\ res'[r].remarked = res[r].remarked /\ res'[r].recheck = res[r].recheck
          /\ res[r].rec.step = "none"
      BY <1>4, <2>2, <3>1, <3>3, FetchSelfEffect DEF EdgesOwned
    <3>6. Kinds(r)' /\ Times(r)' /\ Begun(r)' /\ Bodies(r)'
      BY <1>0, <2>2, <3>1, <3>2, <3>5 DEF Shape, Kinds, Times, Begun, Bodies, Self
    <3>7. Lists(r)' /\ Lates(r)' /\ DepSet(r)'
      BY <2>2, <3>1, <3>4, <3>5 DEF Shape, Begun, Lists, Lates, DepSet, Self
    <3> QED BY <2>2, <3>6, <3>7 DEF Shape, OwnKept
  <2> QED BY <1>4, <2>1, <2>2, FetchSelfEffect
<1>5. CASE CaptureGen(r)
  <2>1. UNCHANGED <<reverse, seq>>
    BY <1>5 DEF CaptureGen
  <2>2. Kinds(r)' /\ Times(r)' /\ Begun(r)' /\ Bodies(r)'
    BY <1>0, <1>5, CaptureGenEffect DEF Shape, Kinds, Times, Begun, Bodies, Self
  <2>3. Lists(r)' /\ DepSet(r)'
    BY <1>5, <2>1, CaptureGenEffect DEF Shape, Begun, Lists, DepSet, Self
  <2>4. res[r].rec.step = "none"
    BY <1>5, CaptureGenEffect DEF EdgesOwned
  <2>5. ~res'[r].recheck
    BY <1>5, CaptureGenEffect DEF Shape, Lates
  <2>6. Lates(r)' /\ OwnKept(r)'
    BY <1>5, <2>4, <2>5, CaptureGenEffect DEF Shape, Begun, Lates, OwnKept
  <2> QED BY <2>2, <2>3, <2>6 DEF Shape
<1>6. ASSUME NEW c \in Coords, Read(r, c) PROVE Shape(r)' /\ OwnKept(r)'
  <2>1. UNCHANGED <<reverse, edges, seq>>
    BY <1>6 DEF Read
  <2>2. \A d \in Coords : res'[r].body[d] # Unread => res[r].body[d] # Unread \/ d = c
    BY <1>0, <1>6, ReadEffect
  <2>3. Shape(r)'
    BY <1>6, <2>1, <2>2, ReadEffect DEF Shape, Kinds, Times, Begun, Bodies, Lists, Lates, DepSet, Self
  <2> QED BY <1>6, <2>1, <2>3, ReadEffect DEF OwnKept, Inserting
<1>7. ASSUME NEW c \in Coords, RecordBegin(r, c) PROVE Shape(r)' /\ OwnKept(r)'
  <2>1. UNCHANGED <<reverse, edges, seq>>
    BY <1>7 DEF RecordBegin
  <2>2. res[r].pc \in {"resolve", "late"} /\ (res[r].pc = "late" => c = Self(r))
    BY <1>7, RecordBeginEffect DEF MayRecord
  <2>3. res'[r].recheck <=> (res[r].pc = "late" /\ ~res[r].remarked)
    BY <1>7, RecordBeginEffect DEF NeedsRecheck
  <2>4. Shape(r)'
    BY <1>7, <2>1, <2>2, <2>3, RecordBeginEffect DEF Shape, Kinds, Times, Begun, Bodies, Lists, Lates, DepSet, Self
  <2> QED BY <1>7, <2>1, <2>4, RecordBeginEffect DEF OwnKept, Inserting
<1>8. CASE RecordInherit(r)
  <2>1. UNCHANGED <<reverse, edges, seq>>
    BY <1>8 DEF RecordInherit
  <2>2. Shape(r)'
    BY <1>8, <2>1, RecordInheritEffect DEF Shape, Kinds, Times, Begun, Bodies, Lists, Lates, DepSet, Self
  <2> QED BY <1>8, <2>1, <2>2, RecordInheritEffect DEF OwnKept, Inserting
<1>9. CASE RecordInsert(r)
  <2>1. seq' = seq /\ Keeps(k)
    BY <1>9, RecordInsertEffect DEF RecordInsert, Stays
  <2>2. res[r].pc = "resolve" => ~res[r].recheck
    BY DEF Shape, Kinds, Times, Begun, Bodies, Lists, Lates, DepSet
  <2>3. res[r].pc \in {"resolve", "late"}
    BY <1>9, RecordInsertEffect DEF EdgesOwned
  <2>4. Shape(r)'
    BY <1>1, <1>9, <2>1, <2>2, <2>3, RecordInsertEffect DEF Shape, Kinds, Times, Begun, Bodies, Lists, Lates, DepSet, Self, Keeps
  <2>5. OwnKept(r)'
    <3>1. SUFFICES ASSUME res[r].pc = "resolve", res'[r].ownDS # "changed", res'[r].win = {},
                          NEW c \in res[r].own
                   PROVE  res'[r].ownDS = "same" /\ k \in edges'[c]
      BY <1>1, <1>9, RecordInsertEffect DEF OwnKept
    <3>2. /\ res[r].ownDS # "changed" /\ res[r].win = {}
          /\ k \in edges'[res[r].rec.coord]
      BY <1>1, <1>9, <3>1, RecordInsertEffect
    <3>3. \/ res[r].ownDS = "same" /\ k \in edges[c]
          \/ c = res[r].rec.coord
      BY <1>1, <3>1, <3>2 DEF OwnKept, Inserting
    <3>4. k \in edges'[c]
      BY <2>1, <3>1, <3>2, <3>3, ResolveTypes DEF Keeps
    <3>5. res'[r].ownDS = "same"
      <4>1. res'[r].ownDS \in {"none", "same", "changed"}
        BY DEF TypeOK, ResolveState
      <4> QED BY <1>9, <3>1, <4>1, RecordInsertEffect
    <3> QED BY <3>4, <3>5
  <2> QED BY <2>4, <2>5
<1>10. CASE Recheck(r)
  <2>1. UNCHANGED <<reverse, seq>>
    BY <1>10 DEF Recheck
  <2>2. res[r].pc = "late"
    BY <1>10, RecheckEffect DEF Shape, Kinds, Times, Begun, Bodies, Lists, Lates, DepSet
  <2> QED BY <1>10, <2>1, <2>2, RecheckEffect DEF Shape, Kinds, Times, Begun, Bodies, Lists, Lates, DepSet, OwnKept, Self
<1>11. CASE PutAccepted(r)
  <2>1. seq' = seq /\ Keeps(k)
    BY <1>11, PutAcceptedEffect DEF PutAccepted, ReassertOwnEdges
  <2>2. /\ res[r].pc = "resolve" /\ res[r].rec.step = "none"
        /\ res[r].kind = "refresh" => Self(r) \in res[r].own
    BY <1>11, PutAcceptedEffect DEF ReadyToPut
  <2>3. \A c \in Coords : NoBody[c] = Unread
    BY DEF NoBody
  <2> QED BY <1>1, <1>11, <2>1, <2>2, <2>3, PutAcceptedEffect DEF Shape, Kinds, Times, Begun, Bodies, Lists, Lates, DepSet, OwnKept, Self, Keeps
<1>12. CASE CheckBegin(r)
  <2>1. UNCHANGED <<reverse, seq>>
    BY <1>12 DEF CheckBegin
  <2> QED BY <1>0, <1>12, <2>1, CheckBeginEffect DEF Shape, Kinds, Times, Begun, Bodies, Lists, Lates, DepSet, OwnKept, Self
<1>13. CASE CheckScan(r)
  <2>1. UNCHANGED <<reverse, seq>>
    BY <1>13 DEF CheckScan
  <2>2. res[r].pc = "scan" /\ res[r].rec.step = "none"
    BY <1>13, CheckScanEffect DEF EdgesOwned
  <2>3. CASE r \in Refreshers
    BY <1>13, <2>2, <2>3, CheckScanEffect, Blanks, BlankShape DEF Shape, Kinds, Times, Begun, Bodies, Lists, Lates, DepSet
  <2>4. CASE r \notin Refreshers
    BY <1>0, <1>13, <2>1, <2>2, <2>4, CheckScanEffect DEF Shape, Kinds, Times, Begun, Bodies, Lists, Lates, DepSet, OwnKept, Self
  <2> QED BY <2>3, <2>4
<1>14. CASE Ends(r)
  <2>1. res[r].pc # "idle"
    BY <1>14 DEF Ends, PutRefused, ReadyToPut, Decline, SelfGone, LateDone, Release
  <2> QED BY <1>14, <2>1, EndEffect, Blanks, BlankShape DEF Shape, Kinds, Times, Begun, Bodies, Lists, Lates, DepSet
<1> QED BY <1>2, <1>3, <1>4, <1>5, <1>6, <1>7, <1>8, <1>9, <1>10, <1>11, <1>12, <1>13, <1>14
    DEF Acts, Resolve, Ends

----------------------------------------------------------------------------
\* What was read and has changed since.

\* A change is on its way from the moment it is in the informer store.
LEMMA ChangeComes ==
    ASSUME TypeOK, Next, NEW c \in Coords, ver'[c] # ver[c]
    PROVE  Coming(c)' /\ worker' = worker /\ UNCHANGED <<cell, edges, exposed, res, refreshQ, gen, knownStale>>
<1> USE DEF informerVars, depVars, markVars, storeVars
<1>1. PICK o \in Objects : ObjectEvent(o)
  <2>1. \A r \in Resolvers : Acts(r) => ver' = ver
    <3>1. SUFFICES ASSUME NEW r \in Resolvers, Acts(r) PROVE ver' = ver
      OBVIOUS
    <3>2. CASE Resolve(r)
      BY <3>2 DEF Resolve, FetchSelf, CaptureGen, Read, RecordBegin, RecordInherit, RecordInsert,
         Recheck, PutAccepted, PutRefused, CheckBegin, CheckScan, LateDone, Decline, SelfGone, Release
    <3>3. CASE ~Resolve(r)
      BY <3>1, <3>3 DEF Acts, Enter, Dequeue
    <3> QED BY <3>2, <3>3
  <2>2. Worker => ver' = ver
    BY DEF Worker, WorkerTake, BumpAdd, BumpFloor, BumpStamp, Collect, EvictOne, MarkOne, WorkerDone
  <2>3. \A k \in Keys : Evict(k) \/ ExpireTombstone(k) => ver' = ver
    BY DEF Evict, ExpireTombstone
  <2> QED BY <2>1, <2>2, <2>3, WhoActs DEF World
<1>2. c \in Buckets(o) /\ o \in eventQ'
  BY <1>1 DEF ObjectEvent, TypeOK, InformerTypeOK
<1>3. Coming(c)'
  BY <1>2 DEF Coming, Buckets
<1> QED BY <1>1, <1>3 DEF ObjectEvent

\* What a resolve read before stays accounted for.
LEMMA ReadStays ==
    ASSUME Base, TypeOK', Next, NEW r \in Resolvers, Times(r), ReadKnown(r), NEW c \in Coords,
           res[r].body[c] # Unread, res[r].body[c] # ver'[c], NEW s, s = res[r].start
    PROVE  Missed(c, s)'
<1>1. s \in 0 .. seq
  BY DEF Base, TypeOK, ResolveState, DepTypeOK, Times
<1>2. CASE ver'[c] = ver[c]
  <2>1. Missed(c, s)
    BY <1>2 DEF ReadKnown
  <2> QED BY <1>1, <2>1, MissedKept DEF Base
<1>3. CASE ver'[c] # ver[c]
  BY <1>3, ChangeComes DEF Base, Missed
<1> QED BY <1>2, <1>3

\* Nothing a resolve reads changes unnoticed.
LEMMA ReadStep ==
    ASSUME Base, TypeOK', Next, NEW r \in Resolvers, Shape(r), ReadKnown(r),
           Acts(r) \/ Mate(r)
    PROVE  ReadKnown(r)'
<1> USE DEF informerVars
<1>0. TypeOK /\ EdgesOwned /\ Times(r) /\ DOMAIN res[r].body = Coords /\ \A c \in Coords : NoBody[c] = Unread
  BY ResolveTypes DEF Base, Shape, NoBody
<1>1. ASSUME \A c \in Coords : res'[r].body[c] = res[r].body[c], res'[r].start = res[r].start PROVE ReadKnown(r)'
  <2>1. SUFFICES ASSUME NEW c \in Coords, res[r].body[c] # Unread, res[r].body[c] # ver'[c],
                        NEW s, s = res[r].start
                 PROVE  Missed(c, s)'
    BY <1>1 DEF ReadKnown
  <2> QED BY <1>0, <2>1, ReadStays
<1>2. ASSUME res'[r].body = NoBody PROVE ReadKnown(r)'
  BY <1>0, <1>2 DEF ReadKnown
<1>3. ASSUME NEW d \in Coords, res'[r].body = [res[r].body EXCEPT ![d] = ver[d]], ver' = ver,
             res'[r].start = res[r].start
      PROVE  ReadKnown(r)'
  <2>1. SUFFICES ASSUME NEW c \in Coords, c # d, res[r].body[c] # Unread, res[r].body[c] # ver'[c],
                        NEW s, s = res[r].start
                 PROVE  Missed(c, s)'
    BY <1>0, <1>3 DEF ReadKnown
  <2> QED BY <1>0, <2>1, ReadStays
<1>4. CASE Mate(r)
  BY <1>1, <1>4 DEF Mate, Alike
<1>5. CASE r \in Callers /\ \E k \in Keys, kd \in CallerKinds : Enter(r, k, kd)
  BY <1>0, <1>2, <1>5, EnterEffect
<1>6. CASE r \in Refreshers /\ \E k \in Keys : Dequeue(r, k)
  <2>1. PICK k \in Keys : Dequeue(r, k)
    BY <1>6
  <2>2. CASE Resident(k)
    BY <1>0, <1>2, <2>1, <2>2, DequeueEffect DEF Blank
  <2>3. CASE ~Resident(k)
    BY <1>0, <1>1, <2>1, <2>3, DequeueEffect
  <2> QED BY <2>2, <2>3
<1>7. CASE FetchSelf(r)
  <2>1. ver' = ver /\ Self(r) \in Coords
    BY <1>0, <1>7, ResolveTypes DEF FetchSelf
  <2> QED BY <1>0, <1>2, <1>3, <1>7, <2>1, FetchSelfEffect, Blanks DEF Blank
<1>8. CASE CaptureGen(r)
  <2>1. CASE res[r].kind = "refresh"
    BY <1>0, <1>2, <1>8, <2>1, CaptureGenEffect DEF Shape, Begun
  <2>2. CASE res[r].kind # "refresh"
    BY <1>0, <1>1, <1>8, <2>2, CaptureGenEffect
  <2> QED BY <2>1, <2>2
<1>9. ASSUME NEW c \in Coords, Read(r, c) PROVE ReadKnown(r)'
  <2>1. ver' = ver
    BY <1>9 DEF Read
  <2> QED BY <1>0, <1>3, <1>9, <2>1, ReadEffect
<1>10. ASSUME NEW c \in Coords, RecordBegin(r, c) PROVE ReadKnown(r)'
  BY <1>0, <1>1, <1>10, RecordBeginEffect
<1>11. CASE RecordInherit(r) \/ RecordInsert(r) \/ Recheck(r) \/ CheckBegin(r)
  BY <1>0, <1>1, <1>11, RecordInheritEffect, RecordInsertEffect, RecheckEffect, CheckBeginEffect
<1>12. CASE PutAccepted(r)
  BY <1>0, <1>2, <1>12, PutAcceptedEffect
<1>13. CASE CheckScan(r)
  <2>1. res[r].body = NoBody
    BY <1>0, <1>13, CheckScanEffect DEF Shape, Begun
  <2> QED BY <1>0, <1>2, <1>13, <2>1, CheckScanEffect, Blanks DEF Blank
<1>14. CASE Ends(r)
  BY <1>0, <1>2, <1>14, EndEffect, Blanks DEF Blank
<1> QED BY <1>4, <1>5, <1>6, <1>7, <1>8, <1>9, <1>10, <1>11, <1>12, <1>13, <1>14
    DEF Acts, Resolve, Ends

\* The resolves' part of the invariant is inductive.
LEMMA ResolvesStep ==
    ASSUME Base, TypeOK', Next, Resolves
    PROVE  Resolves'
<1>0. TypeOK /\ EdgesOwned
  BY DEF Base
<1>1. ASSUME NEW q \in Resolvers, Mate(q), \A j \in Keys : Keeps(j) \/ Strips(j)
      PROVE  Shape(q)' /\ OwnKept(q)' /\ ReadKnown(q)'
  BY <1>0, <1>1, MateShape, ReadStep DEF Resolves
<1>2. CASE World
  <2>1. \A q \in Resolvers : Mate(q)
    BY <1>0, <1>2, WorldFate
  <2>2. \A j \in Keys : Keeps(j) \/ Strips(j)
    BY <1>0, <1>2, WorldFate DEF Stays
  <2> QED BY <1>1, <2>1, <2>2 DEF Resolves
<1>3. ASSUME NEW r \in Resolvers, Acts(r) PROVE Resolves'
  <2>1. \A q \in Resolvers \ {r} : Mate(q)
    BY <1>0, <1>3, ActFate
  <2>2. \A j \in Keys : Keeps(j) \/ Strips(j)
    BY <1>0, <1>3, ActFate DEF Stays
  <2>3. Shape(r)' /\ OwnKept(r)' /\ ReadKnown(r)'
    BY <1>0, <1>3, ActShape, ReadStep DEF Resolves
  <2> QED BY <1>1, <2>1, <2>2, <2>3 DEF Resolves
<1> QED BY <1>2, <1>3, WhoActs

----------------------------------------------------------------------------
\* A key that is owed a refresh.

\* Only a refresher takes a key from the queue.
LEMMA QueueFrame ==
    ASSUME TypeOK, TypeOK', Next, NEW k \in Keys, k \in refreshQ, k \notin refreshQ'
    PROVE  \E r \in Resolvers : Dequeue(r, k)
<1> USE DEF informerVars, depVars, markVars, storeVars
<1>1. ASSUME World PROVE FALSE
  BY <1>1 DEF World, ObjectEvent, Worker, WorkerTake, BumpAdd, BumpFloor, BumpStamp, Collect, EvictOne,
     MarkOne, OnDirtyMark, WorkerDone, Evict, ExpireTombstone
<1>2. PICK r \in Resolvers : Acts(r)
  BY <1>1, WhoActs
<1>3. ASSUME Resolve(r) PROVE FALSE
  <2>1. CASE \/ FetchSelf(r) \/ CaptureGen(r) \/ RecordInherit(r) \/ RecordInsert(r)
             \/ \E c \in Coords : Read(r, c) \/ RecordBegin(r, c)
    BY <2>1 DEF FetchSelf, CaptureGen, RecordInherit, RecordInsert, Read, RecordBegin
  <2>2. CASE Recheck(r) \/ CheckScan(r) \/ PutAccepted(r) \/ Ends(r)
    BY <2>2, RecheckEffect, CheckScanEffect, PutAcceptedEffect, EndEffect
  <2>3. CASE CheckBegin(r)
    BY <2>3 DEF CheckBegin
  <2> QED BY <1>3, <2>1, <2>2, <2>3 DEF Resolve, Ends
<1>4. ~(\E j \in Keys, kd \in CallerKinds : Enter(r, j, kd))
  BY DEF Enter
<1>5. PICK j \in Keys : Dequeue(r, j)
  BY <1>2, <1>3, <1>4 DEF Acts
<1>6. j = k
  BY <1>5, DequeueEffect
<1> QED BY <1>5, <1>6

\* Only a removal or a Put ends the known-stale state.
LEMMA StaleFrame ==
    ASSUME TypeOK, Next, NEW k \in Keys, k \in knownStale, k \notin knownStale'
    PROVE  RemoveCell(k) \/ \E r \in Resolvers : PutAccepted(r) /\ res[r].key = k
<1> USE DEF informerVars, depVars, markVars, storeVars
<1>1. ASSUME NEW j \in Keys, RemoveCell(j) PROVE RemoveCell(k)
  BY <1>1 DEF RemoveCell
<1>2. CASE World
  BY <1>1, <1>2 DEF World, ObjectEvent, Worker, WorkerTake, BumpAdd, BumpFloor, BumpStamp, Collect,
     EvictOne, MarkOne, WorkerDone, Evict, ExpireTombstone
<1>3. ASSUME NEW r \in Resolvers, Acts(r), ~PutAccepted(r) PROVE RemoveCell(k)
  <2>1. CASE Resolve(r)
    BY <1>1, <1>3, <2>1, ResolveTypes DEF Resolve, FetchSelf, CaptureGen, Read, RecordBegin, RecordInherit,
       RecordInsert, Recheck, PutRefused, CheckBegin, CheckScan, LateDone, Decline, SelfGone, Release
  <2>2. CASE ~Resolve(r)
    BY <1>3, <2>2 DEF Acts, Enter, Dequeue
  <2> QED BY <2>1, <2>2
<1>4. ASSUME NEW r \in Resolvers, PutAccepted(r) PROVE res[r].key = k
  BY <1>4 DEF PutAccepted
<1> QED BY <1>2, <1>3, <1>4, WhoActs

\* A refresh that will be accepted goes on, or its end leaves the key queued or
\* known-stale.
LEMMA RefreshingKept ==
    ASSUME Base, TypeOK', Next, NEW k \in Keys, Resident(k), Stays(k),
           ~(\E r \in Resolvers : PutAccepted(r) /\ res[r].key = k),
           NEW q \in Refreshers, Kinds(q), Lates(q), res[q].key = k,
           res[q].pc = "capture" \/ (res[q].pc = "resolve" /\ res[q].gen = gen[k])
    PROVE  Owes(k)'
<1> USE DEF informerVars, depVars, markVars, storeVars
<1>0. TypeOK /\ q \in Resolvers /\ gen'[k] = gen[k] /\ res[q].kind = "refresh"
  BY DEF Base, Resolvers, Stays, Kinds
<1>r. ~RemoveCell(k)
  BY <1>0 DEF RemoveCell, Stays, Resident, TypeOK, StoreTypeOK
<1>1. ASSUME res'[q].key = k, res'[q].pc = "capture" \/ (res'[q].pc = "resolve" /\ res'[q].gen = gen'[k])
      PROVE  Owes(k)'
  BY <1>1 DEF Owes, Refreshing
<1>2. CASE Mate(q)
  BY <1>0, <1>1, <1>2 DEF Mate, Alike
<1>3. CASE Acts(q)
  <2>1. CASE CaptureGen(q)
    BY <1>0, <1>1, <2>1, CaptureGenEffect DEF currentGen
  <2>2. ASSUME res[q].pc = "resolve", NEW c \in Coords, Read(q, c) \/ RecordBegin(q, c) PROVE Owes(k)'
    <3>1. res'[q].key = k /\ res'[q].pc = "resolve" /\ res'[q].gen = res[q].gen
      BY <1>0, <2>2, ReadEffect, RecordBeginEffect
    <3> QED BY <1>0, <1>1, <2>2, <3>1
  <2>3. CASE res[q].pc = "resolve" /\ (RecordInherit(q) \/ RecordInsert(q))
    BY <1>0, <1>1, <2>3, RecordInheritEffect, RecordInsertEffect
  <2>4. CASE res[q].pc = "resolve" /\ PutRefused(q)
    BY <1>0, <2>4 DEF PutRefused, GenRefuses, GenAccepts
  <2>5. CASE Decline(q)
    BY <1>0, <2>5 DEF Decline, Requeued, Owes
  <2>6. CASE SelfGone(q)
    BY <1>0, <1>r, <2>6 DEF SelfGone, Requeued, Owes
  <2>7. res[q].pc = "resolve" \/ CaptureGen(q) \/ ~Resolve(q)
    BY <1>0, RecordBeginEffect, RecordInheritEffect, RecordInsertEffect, RecheckEffect
       DEF Resolve, FetchSelf, Read, MayRecord, Recheck, PutAccepted, PutRefused, ReadyToPut, CheckBegin,
       CheckScan, LateDone, Decline, SelfGone, Release, Base, EdgesOwned
  <2>8. ASSUME res[q].pc = "resolve"
        PROVE  /\ ~FetchSelf(q) /\ ~Recheck(q) /\ ~CheckBegin(q) /\ ~CheckScan(q)
               /\ ~LateDone(q) /\ ~Release(q) /\ ~CaptureGen(q) /\ ~PutAccepted(q)
    BY <1>0, <2>8 DEF FetchSelf, CaptureGen, Recheck, CheckBegin, CheckScan, LateDone, Release, Lates
  <2>9. Resolve(q)
    BY <1>0, <1>3 DEF Acts, Enter, Dequeue
  <2> QED BY <2>1, <2>2, <2>3, <2>4, <2>5, <2>6, <2>7, <2>8, <2>9 DEF Resolve
<1>4. CASE World
  BY <1>0, <1>2, <1>4, WorldFate
<1>5. ASSUME NEW r \in Resolvers, Acts(r) PROVE Owes(k)'
  BY <1>0, <1>2, <1>3, <1>5, ActFate
<1> QED BY <1>4, <1>5, WhoActs

\* A key that is owed a refresh stays so until a body is stored or the cell goes.
LEMMA OwesKept ==
    ASSUME Base, TypeOK', Next, Resolves, NEW k \in Keys, Resident(k), Stays(k),
           ~(\E r \in Resolvers : PutAccepted(r) /\ res[r].key = k), Owes(k)
    PROVE  Owes(k)'
<1>0. TypeOK
  BY DEF Base
<1>1. CASE exposed[k] # {}
  BY <1>1 DEF Stays, Owes
<1>2. CASE k \in refreshQ
  <2>1. CASE k \in refreshQ'
    BY <2>1 DEF Owes
  <2>2. CASE k \notin refreshQ'
    <3>1. PICK r \in Resolvers : Dequeue(r, k)
      BY <1>0, <1>2, <2>2, QueueFrame
    <3>2. r \in Refreshers /\ res'[r].pc = "capture" /\ res'[r].key = k
      BY <1>0, <3>1, DequeueEffect
    <3> QED BY <3>2 DEF Owes, Refreshing
  <2> QED BY <2>1, <2>2
<1>3. CASE k \in knownStale
  <2>1. ~RemoveCell(k)
    BY <1>0 DEF RemoveCell, Stays, Resident, TypeOK, StoreTypeOK
  <2> QED BY <1>0, <1>3, <2>1, StaleFrame DEF Owes
<1>4. CASE Refreshing(k)
  <2>1. PICK q \in Refreshers : /\ res[q].key = k
                                /\ res[q].pc = "capture" \/ (res[q].pc = "resolve" /\ res[q].gen = gen[k])
    BY <1>4 DEF Refreshing
  <2>2. Kinds(q) /\ Lates(q)
    BY DEF Resolves, Resolvers, Shape
  <2> QED BY <2>1, <2>2, RefreshingKept
<1> QED BY <1>1, <1>2, <1>3, <1>4 DEF Owes

----------------------------------------------------------------------------
\* The stored bodies: a step that leaves the cell of k alone.

\* What a resolve that has stored its body does next.
LEMMA LateActs ==
    ASSUME Base, NEW r \in Resolvers, Acts(r), Lates(r), res[r].pc \in {"check", "scan", "late"}
    PROVE  \/ CheckBegin(r) \/ CheckScan(r)
           \/ /\ res[r].pc = "late"
              /\ RecordBegin(r, Self(r)) \/ RecordInherit(r) \/ RecordInsert(r) \/ Recheck(r) \/ LateDone(r)
<1>1. Resolve(r)
  BY DEF Acts, Enter, Dequeue
<1>2. CASE res[r].pc \in {"check", "scan"}
  <2>1. res[r].rec.step = "none"
    BY <1>2 DEF Base, EdgesOwned
  <2> QED BY <1>1, <1>2, <2>1 DEF Resolve, FetchSelf, CaptureGen, Read, RecordBegin, MayRecord, RecordInherit,
        RecordInsert, Recheck, PutAccepted, PutRefused, ReadyToPut, LateDone, Decline, SelfGone, Release
<1>3. CASE res[r].pc = "late"
  BY <1>1, <1>3 DEF Resolve, FetchSelf, CaptureGen, Read, RecordBegin, MayRecord,
     PutAccepted, PutRefused, ReadyToPut, CheckBegin, CheckScan, Decline, SelfGone, Release
<1> QED BY <1>2, <1>3

\* Everything the body of k read keeps its edge or its late Record.
LEMMA CoveredStep ==
    ASSUME Base, TypeOK', Next, Resolves, NEW k \in Keys, Resident(k), Stays(k),
           ~(\E r \in Resolvers : PutAccepted(r) /\ res[r].key = k),
           NEW c \in Coords, Covered(k, c)
    PROVE  Covered(k, c)'
<1>0. TypeOK /\ EdgesOwned
  BY DEF Base
<1>1. CASE k \in edges[c] \/ exposed[k] # {}
  BY <1>1 DEF Stays, Keeps, Covered
<1>2. ASSUME NEW r \in Resolvers, LateOwed(r, k), res[r].remarked => Owes(k), c = SelfOf[k]
      PROVE  Covered(k, c)'
  <2>0. /\ res[r].key = k /\ res[r].pc \in {"check", "scan", "late"} /\ c = Self(r)
        /\ c \notin res[r].own \/ Inserting(r, c)
        /\ Shape(r) /\ Lates(r) /\ Lists(r) /\ Kinds(r)
    BY <1>2 DEF LateOwed, Resolves, Shape, Self
  <2>1. ASSUME LateOwed(r, k)', res'[r].remarked => Owes(k)' PROVE Covered(k, c)'
    BY <1>2, <2>1 DEF Covered
  <2>2. ASSUME res'[r].remarked = res[r].remarked PROVE res'[r].remarked => Owes(k)'
    BY <1>2, <2>2, OwesKept
  <2>3. CASE Mate(r)
    <3>1. LateOwed(r, k)' /\ res'[r].remarked = res[r].remarked
      BY <1>2, <2>3 DEF Mate, Alike, LateOwed, Inserting
    <3> QED BY <2>1, <2>2, <3>1
  <2>4. CASE CheckBegin(r)
    <3>1. LateOwed(r, k)' /\ res'[r].remarked = res[r].remarked
      BY <1>0, <1>2, <2>0, <2>4, CheckBeginEffect DEF LateOwed, Inserting
    <3> QED BY <2>1, <2>2, <3>1
  <2>5. CASE CheckScan(r)
    <3>1. res[r].pc = "scan" /\ res[r].rec.step = "none"
      BY <1>0, <2>5, CheckScanEffect DEF EdgesOwned
    <3>2. c \notin res[r].own /\ r \notin Refreshers
      BY <2>0, <3>1 DEF Inserting, Lists, Kinds
    <3>3. LateOwed(r, k)'
      BY <1>0, <1>2, <2>0, <2>5, <3>2, CheckScanEffect DEF LateOwed
    <3>4. res'[r].remarked => Owes(k)'
      BY <1>0, <2>0, <2>5, <3>2, CheckScanEffect DEF Owes
    <3> QED BY <2>1, <3>3, <3>4
  <2>6. CASE res[r].pc = "late" /\ (RecordBegin(r, c) \/ RecordInherit(r))
    <3>1. LateOwed(r, k)' /\ res'[r].remarked = res[r].remarked
      BY <1>0, <1>2, <2>0, <2>6, RecordBeginEffect, RecordInheritEffect DEF LateOwed, Inserting
    <3> QED BY <2>1, <2>2, <3>1
  <2>7. CASE res[r].pc = "late" /\ RecordInsert(r)
    <3>1. res[r].rec.coord = c
      BY <1>0, <2>0, <2>7, RecordInsertEffect DEF Lates
    <3>2. k \in edges'[c] \/ exposed'[k] # {}
      BY <1>0, <2>0, <2>7, <3>1, RecordInsertEffect
    <3> QED BY <3>2 DEF Covered
  <2>8. ~(res[r].pc = "late" /\ (Recheck(r) \/ LateDone(r)))
    BY <2>0 DEF Lates, Inserting, Recheck, LateDone
  <2>9. CASE Acts(r)
    BY <2>0, <2>4, <2>5, <2>6, <2>7, <2>8, <2>9, LateActs
  <2>10. CASE World
    BY <1>0, <2>3, <2>10, WorldFate
  <2>11. ASSUME NEW q \in Resolvers, Acts(q) PROVE Covered(k, c)'
    BY <1>0, <2>3, <2>9, <2>11, ActFate
  <2> QED BY <2>10, <2>11, WhoActs
<1> QED BY <1>1, <1>2 DEF Covered

\* A check that will notice the change of c is still to come while its resolve
\* does not act.
LEMMA CheckWaits ==
    ASSUME Base, TypeOK', Next, NEW r \in Resolvers, Shape(r), Mate(r), NEW c \in Coords,
           NEW k \in Keys, res[r].key = k, Stays(k), WillCheck(r, c)
    PROVE  WillCheck(r, c)'
<1>0. TypeOK /\ FloorCoversBuckets /\ EdgesOwned /\ Lists(r)
  BY DEF Base, Shape
<1>1. PICK s \in 0 .. seq : s = res[r].start
  BY DEF Base, Shape, Times, TypeOK, ResolveState, DepTypeOK
<1>2. PICK t \in 0 .. seq : t = res[r].checked
  BY DEF Base, Shape, Times, TypeOK, ResolveState, DepTypeOK
<1>3. /\ Past(c, s) => Past(c, s)'
      /\ Missed(c, t) => Missed(c, t)'
      /\ Coming(c) \/ Stamping(c, s) => Coming(c)' \/ Stamping(c, s)' \/ Past(c, s)'
  BY <1>0, MissedKept, PastKept
<1>4. /\ res'[r].pc = res[r].pc /\ res'[r].start = s /\ res'[r].checked = t /\ res'[r].key = k
      /\ res'[r].sink = res[r].sink /\ res'[r].own = res[r].own /\ res'[r].remarked = res[r].remarked
      /\ res'[r].rec.step = res[r].rec.step /\ res'[r].rec.coord = res[r].rec.coord
  BY <1>1, <1>2 DEF Mate, Alike
<1>5. Self(r)' = Self(r)
  BY <1>4 DEF Self
<1>6. CASE res[r].pc \in {"check", "scan"} /\ c \in res[r].sink /\ Past(c, s)
  BY <1>3, <1>4, <1>6 DEF WillCheck
<1>7. CASE /\ c = Self(r) /\ Self(r) \notin res[r].own
           /\ res[r].pc = "check" /\ (Coming(c) \/ Stamping(c, s))
  <2>1. c \in res[r].sink
    BY <1>0, <1>7 DEF Lists
  <2> QED BY <1>3, <1>4, <1>5, <1>7, <2>1 DEF WillCheck
<1>8. CASE /\ c = Self(r) /\ Self(r) \notin res[r].own
           /\ res[r].pc = "scan" /\ Missed(c, t)
  BY <1>3, <1>4, <1>5, <1>8 DEF WillCheck
<1>9. CASE /\ c = Self(r) /\ res[r].pc = "late" /\ ~res[r].remarked
           /\ \/ Self(r) \notin res[r].own \/ Inserting(r, c)
              \/ res[r].rec.step = "recheck" /\ k \in edges[c]
           /\ Missed(c, t)
  BY <1>3, <1>4, <1>5, <1>9 DEF WillCheck, Inserting, Stays, Keeps
<1> QED BY <1>1, <1>2, <1>6, <1>7, <1>8, <1>9 DEF WillCheck

\* The worker is left alone by a resolve's own steps.
LEMMA ActsFrame ==
    ASSUME NEW r \in Resolvers, Acts(r)
    PROVE  worker' = worker /\ eventQ' = eventQ
<1> USE DEF informerVars
<1>1. CASE Resolve(r)
  BY <1>1 DEF Resolve, FetchSelf, CaptureGen, Read, RecordBegin, RecordInherit, RecordInsert,
     Recheck, PutAccepted, PutRefused, CheckBegin, CheckScan, LateDone, Decline, SelfGone, Release
<1>2. CASE ~Resolve(r)
  BY <1>2 DEF Acts, Enter, Dequeue
<1> QED BY <1>1, <1>2

\* A check that would notice the change of c does, or leaves it to the next one.
LEMMA CheckActs ==
    ASSUME Base, TypeOK', Next, NEW r \in Resolvers, Shape(r), Acts(r), NEW c \in Coords,
           NEW k \in Keys, res[r].key = k, Resident(k), Stays(k), WillCheck(r, c)
    PROVE  Answered(k, c)'
<1>0. /\ TypeOK /\ FloorCoversBuckets /\ EdgesOwned
      /\ Kinds(r) /\ Lists(r) /\ Lates(r) /\ res[r].pc \in {"check", "scan", "late"}
  BY DEF Base, Shape, WillCheck
<1>1. PICK s \in 0 .. seq : s = res[r].start
  BY DEF Base, Shape, Times, TypeOK, ResolveState, DepTypeOK
<1>2. PICK t \in 0 .. seq : t = res[r].checked
  BY DEF Base, Shape, Times, TypeOK, ResolveState, DepTypeOK
<1>3. /\ Past(c, s) => Past(c, s)'
      /\ Missed(c, t) => Missed(c, t)'
  BY <1>0, MissedKept, PastKept
<1>4. worker' = worker /\ eventQ' = eventQ /\ \A o : Buckets(o)' = Buckets(o)
  BY ActsFrame DEF Buckets
<1>5. Coming(c) => Coming(c)'
  BY <1>4 DEF Coming
<1>6. ASSUME res'[r].key = k, WillCheck(r, c)' PROVE Answered(k, c)'
  BY <1>6 DEF Answered
<1>7. ASSUME Owes(k)' PROVE Answered(k, c)'
  BY <1>7 DEF Answered
<1>8. CASE CheckBegin(r)
  <2>1. /\ res[r].pc = "check" /\ res'[r].pc = "scan" /\ res'[r].start = s /\ res'[r].key = k
        /\ res'[r].sink = res[r].sink /\ res'[r].own = res[r].own /\ Self(r)' = Self(r)
    BY <1>0, <1>1, <1>8, CheckBeginEffect DEF Self
  <2>2. CASE c \in res[r].sink /\ Past(c, s)
    BY <1>3, <1>6, <2>1, <2>2 DEF WillCheck
  <2>3. CASE c = Self(r) /\ Self(r) \notin res[r].own /\ Coming(c)
    BY <1>5, <1>6, <2>1, <2>3 DEF WillCheck, Missed
  <2>4. CASE c = Self(r) /\ Self(r) \notin res[r].own /\ Stamping(c, s)
    <3>1. worker.obj \in Objects /\ c \in Objects /\ c \notin Gvrs
      BY <1>0, <2>4, ResolveTypes, ConstantsAssumption DEF TypeOK, WorkerState
    <3>2. worker.obj = Self(r) /\ worker.pc \in {"floor", "stamp"}
      BY <2>4, <3>1, ConstantsAssumption DEF Stamping, Buckets
    <3>3. exposed'[k] # {}
      BY <1>0, <1>8, <2>4, <3>2, CheckBeginEffect
    <3> QED BY <1>7, <3>3 DEF Owes
  <2> QED BY <1>1, <2>1, <2>2, <2>3, <2>4 DEF WillCheck
<1>9. CASE CheckScan(r)
  <2>1. res[r].pc = "scan"
    BY <1>0, <1>9, CheckScanEffect
  <2>2. CASE c \in res[r].sink /\ Past(c, s)
    <3>1. k \in refreshQ' \/ exposed'[k] # {}
      BY <1>0, <1>1, <1>9, <2>2, CheckScanEffect DEF Past
    <3> QED BY <1>7, <3>1 DEF Owes
  <2>3. CASE c = Self(r) /\ Self(r) \notin res[r].own /\ Missed(c, t)
    <3>1. r \notin Refreshers
      BY <1>0, <2>1, <2>3 DEF Lists, Kinds
    <3>2. /\ res'[r].pc = "late" /\ res'[r].own = res[r].own /\ res'[r].checked = t /\ res'[r].key = k
          /\ Self(r)' = Self(r)
          /\ res'[r].remarked => k \in refreshQ'
      BY <1>0, <1>2, <1>9, <3>1, CheckScanEffect DEF Self
    <3>3. CASE res'[r].remarked
      BY <1>7, <3>2, <3>3 DEF Owes
    <3>4. CASE ~res'[r].remarked
      BY <1>3, <1>6, <2>3, <3>2, <3>4 DEF WillCheck
    <3> QED BY <3>3, <3>4
  <2> QED BY <1>1, <1>2, <2>1, <2>2, <2>3 DEF WillCheck
<1>10. ASSUME res[r].pc = "late"
       PROVE  /\ c = Self(r) /\ c \in Coords /\ ~res[r].remarked /\ Missed(c, t)
              /\ \/ c \notin res[r].own \/ Inserting(r, c)
                 \/ res[r].rec.step = "recheck" /\ k \in edges[c]
  BY <1>2, <1>10 DEF WillCheck
<1>11. CASE res[r].pc = "late" /\ (RecordBegin(r, Self(r)) \/ RecordInherit(r))
  <2>1. /\ res'[r].pc = "late" /\ res'[r].checked = t /\ res'[r].key = k /\ ~res'[r].remarked
        /\ res'[r].rec.step \in {"inherit", "insert"} /\ res'[r].rec.coord = c /\ Self(r)' = Self(r)
    BY <1>0, <1>2, <1>10, <1>11, RecordBeginEffect, RecordInheritEffect DEF Self, Lates
  <2> QED BY <1>3, <1>6, <1>10, <1>11, <2>1 DEF WillCheck, Inserting
<1>12. CASE res[r].pc = "late" /\ RecordInsert(r)
  <2>1. res[r].rec.coord = c /\ res[r].recheck
    BY <1>0, <1>10, <1>12, RecordInsertEffect DEF Lates
  <2>2. /\ res'[r].pc = "late" /\ res'[r].checked = t /\ res'[r].key = k /\ ~res'[r].remarked
        /\ res'[r].rec.step = "recheck" /\ Self(r)' = Self(r)
        /\ k \in edges'[c] \/ exposed'[k] # {}
    BY <1>0, <1>2, <1>10, <1>12, <2>1, RecordInsertEffect DEF Self
  <2>3. CASE exposed'[k] # {}
    BY <1>7, <2>3 DEF Owes
  <2>4. CASE k \in edges'[c]
    BY <1>3, <1>6, <1>10, <1>12, <2>2, <2>4 DEF WillCheck
  <2> QED BY <2>2, <2>3, <2>4
<1>13. CASE res[r].pc = "late" /\ Recheck(r)
  <2>1. res[r].rec.step = "recheck" /\ res[r].rec.coord = c /\ k \in edges[c]
    BY <1>0, <1>10, <1>13, RecheckEffect DEF Lates, Inserting
  <2>2. k \in edges'[c]
    BY <2>1 DEF Stays, Keeps
  <2>3. \/ k \in refreshQ' \/ exposed'[k] # {}
        \/ ~depMovedSince(c, t) /\ ~Uninherited({c})
    BY <1>0, <1>2, <1>13, <2>1, RecheckEffect
  <2>4. CASE k \in refreshQ' \/ exposed'[k] # {}
    BY <1>7, <2>4 DEF Owes
  <2>5. CASE ~depMovedSince(c, t) /\ ~Uninherited({c})
    <3>1. Coming(c) \/ Stamping(c, t)
      BY <1>10, <1>13, <2>5 DEF Missed, Past
    <3>2. Coming(c)' \/ Ahead(c)'
      BY <1>4, <1>5, <3>1 DEF Stamping, Ahead
    <3> QED BY <2>2, <3>2 DEF Answered
  <2> QED BY <2>3, <2>4, <2>5
<1>14. ~(res[r].pc = "late" /\ LateDone(r))
  BY <1>10 DEF LateDone, Inserting
<1> QED BY <1>0, <1>8, <1>9, <1>11, <1>12, <1>13, <1>14, LateActs

\* A new change of something the body of k read will reach k.
LEMMA ChangeAnswered ==
    ASSUME Base, TypeOK', Next, Resolves, NEW k \in Keys, NEW c \in Coords, Covered(k, c), ver'[c] # ver[c]
    PROVE  Answered(k, c)'
<1>0. TypeOK /\ EdgesOwned
  BY DEF Base
<1>1. Coming(c)' /\ worker' = worker /\ UNCHANGED <<cell, edges, exposed, res, refreshQ, gen, knownStale>>
  BY <1>0, ChangeComes
<1>2. Owes(k) => Owes(k)'
  BY <1>1 DEF Owes, Refreshing
<1>3. CASE k \in edges[c] \/ exposed[k] # {}
  BY <1>1, <1>3 DEF Answered, Owes
<1>4. ASSUME NEW r \in Resolvers, LateOwed(r, k), res[r].remarked => Owes(k), c = SelfOf[k]
      PROVE  Answered(k, c)'
  <2>1. CASE res[r].remarked
    BY <1>2, <1>4, <2>1 DEF Answered
  <2>2. CASE ~res[r].remarked
    <3>1. /\ res'[r] = res[r] /\ res[r].key = k /\ c = Self(r) /\ c = Self(r)'
          /\ res[r].pc \in {"check", "scan", "late"}
          /\ c \notin res[r].own \/ Inserting(r, c)
      BY <1>1, <1>4 DEF LateOwed, Self
    <3>2. Missed(c, res[r].checked)'
      BY <1>1 DEF Missed
    <3>3. CASE res[r].pc \in {"check", "scan"}
      <4>1. c \notin res[r].own
        BY <1>0, <3>1, <3>3 DEF EdgesOwned, Inserting
      <4> QED BY <1>1, <3>1, <3>2, <3>3, <4>1 DEF Answered, WillCheck
    <3>4. CASE res[r].pc = "late"
      <4>1. WillCheck(r, c)'
        BY <2>2, <3>1, <3>2, <3>4 DEF WillCheck, Inserting
      <4> QED BY <3>1, <4>1 DEF Answered
    <3> QED BY <3>1, <3>3, <3>4
  <2> QED BY <2>1, <2>2
<1> QED BY <1>3, <1>4 DEF Covered

\* An event that matches an edge of k collects k.
LEMMA EventReaches ==
    ASSUME Base, TypeOK', Next, NEW k \in Keys, NEW c \in Coords, k \in edges[c], k \in edges'[c],
           Coming(c) \/ Ahead(c)
    PROVE  Answered(k, c)'
<1>0. /\ TypeOK /\ FloorCoversBuckets /\ EdgesOwned /\ worker \in WorkerState
      /\ \A o : Buckets(o)' = Buckets(o)
      /\ 0 \in 0 .. seq
  BY DEF Base, TypeOK, DepTypeOK, Buckets
<1>1. ASSUME Coming(c)' \/ Ahead(c)' PROVE Answered(k, c)'
  BY <1>1 DEF Answered
<1>2. CASE Coming(c)
  <2>1. Coming(c)' \/ Ahead(c)'
    BY <1>0, <1>2, MissedKept
  <2> QED BY <1>1, <2>1
<1>3. CASE Ahead(c)
  <2>0. c \in Buckets(worker.obj) /\ worker.pc \in {"floor", "stamp", "collect"}
    BY <1>3 DEF Ahead
  <2>1. CASE ~Worker
    BY <1>0, <1>1, <2>0, <2>1, WorkerFrame DEF Ahead
  <2>2. CASE Worker /\ worker.pc \in {"floor", "stamp"}
    <3>1. BumpFloor \/ BumpStamp
      BY <2>2 DEF Worker, WorkerTake, BumpAdd, Collect, EvictOne, MarkOne, WorkerDone
    <3> QED BY <1>0, <1>1, <2>0, <2>2, <3>1, WorkerEffect DEF Ahead
  <2>3. CASE Worker /\ worker.pc = "collect"
    <3>1. Collect
      BY <2>3 DEF Worker, WorkerTake, BumpAdd, BumpFloor, BumpStamp, EvictOne, MarkOne, WorkerDone
    <3>2. worker'.pc = "fanout" /\ k \in worker'.evict \cup worker'.mark
      BY <1>0, <2>0, <2>3, <3>1, WorkerEffect
    <3> QED BY <3>2 DEF Answered
  <2> QED BY <2>0, <2>1, <2>2, <2>3
<1> QED BY <1>2, <1>3

\* A key that an event collected is marked, unless its cell goes first.
LEMMA FanoutReaches ==
    ASSUME Base, TypeOK', Next, NEW k \in Keys, NEW c \in Coords, Resident(k), Stays(k),
           worker.pc = "fanout", k \in worker.evict \cup worker.mark
    PROVE  Answered(k, c)'
<1>0. TypeOK
  BY DEF Base
<1>1. ASSUME worker'.pc = "fanout", k \in worker'.evict \cup worker'.mark PROVE Answered(k, c)'
  BY <1>1 DEF Answered
<1>2. CASE ~Worker
  BY <1>1, <1>2, WorkerFrame
<1>3. CASE Worker
  <2>1. PICK j \in Keys : EvictOne(j) \/ MarkOne(j)
    BY <1>3 DEF Worker, WorkerTake, BumpAdd, BumpFloor, BumpStamp, Collect, WorkerDone
  <2>2. CASE j # k
    BY <1>0, <1>1, <1>3, <2>1, <2>2, WorkerEffect
  <2>3. CASE j = k /\ EvictOne(k)
    <3>1. RemoveCell(k)
      BY <2>3 DEF EvictOne
    <3> QED BY <1>0, <3>1 DEF RemoveCell, Stays, Resident, TypeOK, StoreTypeOK
  <2>4. CASE j = k /\ MarkOne(k)
    BY <2>4 DEF MarkOne, OnDirtyMark, Answered, Owes
  <2> QED BY <2>1, <2>2, <2>3, <2>4
<1> QED BY <1>2, <1>3

\* A change that will reach k comes closer, or has reached it.
LEMMA AnsweredStep ==
    ASSUME Base, TypeOK', Next, Resolves, NEW k \in Keys, Resident(k), Stays(k),
           ~(\E r \in Resolvers : PutAccepted(r) /\ res[r].key = k),
           NEW c \in Coords, Answered(k, c)
    PROVE  Answered(k, c)'
<1>0. TypeOK
  BY DEF Base
<1>1. CASE Owes(k)
  BY <1>1, OwesKept DEF Answered
<1>2. CASE k \in edges[c] /\ (Coming(c) \/ Ahead(c))
  BY <1>2, EventReaches DEF Stays, Keeps
<1>3. CASE worker.pc = "fanout" /\ k \in worker.evict \cup worker.mark
  BY <1>3, FanoutReaches
<1>4. ASSUME NEW r \in Resolvers, res[r].key = k, WillCheck(r, c) PROVE Answered(k, c)'
  <2>0. Shape(r)
    BY DEF Resolves
  <2>1. CASE Mate(r)
    <3>1. WillCheck(r, c)' /\ res'[r].key = k
      BY <1>4, <2>0, <2>1, CheckWaits DEF Mate, Alike
    <3> QED BY <3>1 DEF Answered
  <2>2. CASE Acts(r)
    BY <1>4, <2>0, <2>2, CheckActs
  <2>3. CASE World
    BY <1>0, <2>1, <2>3, WorldFate
  <2>4. ASSUME NEW q \in Resolvers, Acts(q) PROVE Answered(k, c)'
    BY <1>0, <2>1, <2>2, <2>4, ActFate
  <2> QED BY <2>3, <2>4, WhoActs
<1> QED BY <1>1, <1>2, <1>3, <1>4 DEF Answered

----------------------------------------------------------------------------
\* The stored bodies: a step that stores one.

\* What an accepted Put stores, by the coordinates it read.
LEMMA PutFacts ==
    ASSUME Base, TypeOK', Next, Resolves, NEW r \in Resolvers, NEW k \in Keys, PutAccepted(r), res[r].key = k,
           NEW c \in Coords, res[r].body[c] # Unread
    PROVE  \/ c \in res[r].own /\ c \in res[r].sink /\ (k \in edges'[c] \/ exposed'[k] # {})
           \/ c = Self(r) /\ c \notin res[r].own /\ c \in res[r].sink
<1>0. /\ TypeOK /\ OwnKept(r) /\ Bodies(r) /\ Lists(r)
      /\ res[r].ownDS \in {"none", "same", "changed"}
  BY DEF Base, Resolves, Shape, TypeOK, ResolveState
<1>1. /\ res[r].pc = "resolve" /\ res[r].rec.step = "none" /\ InnerOf[k] \subseteq res[r].own
      /\ res[r].kind = "refresh" => Self(r) \in res[r].own
      /\ Keeps(k)
  BY <1>0, PutAcceptedEffect DEF ReadyToPut
<1>2. CASE c \in res[r].own
  <2>1. CASE res[r].ownDS # "same"
    BY <1>0, <1>2, <2>1, PutAcceptedEffect DEF Lists
  <2>2. CASE res[r].ownDS = "same"
    <3>1. exposed'[k] = res[r].win
      BY <1>0, <2>2, PutAcceptedEffect
    <3>2. k \in edges[c] \/ res[r].win # {}
      BY <1>0, <1>1, <1>2, <2>2 DEF OwnKept, Inserting
    <3> QED BY <1>0, <1>1, <1>2, <3>1, <3>2 DEF Keeps, Lists
  <2> QED BY <2>1, <2>2
<1>3. CASE c \notin res[r].own
  BY <1>0, <1>1, <1>3 DEF Bodies, Lists
<1> QED BY <1>2, <1>3

\* A body that is stored has the edges of what it read, and what changed since
\* its resolve began will reach it.
LEMMA PutStep ==
    ASSUME Base, TypeOK', Next, Resolves, NEW r \in Resolvers, NEW k \in Keys, PutAccepted(r), res[r].key = k
    PROVE  CellCovered(k)' /\ CellAnswered(k)'
<1>0. TypeOK /\ FloorCoversBuckets /\ EdgesOwned /\ Shape(r) /\ ReadKnown(r) /\ Lates(r)
  BY DEF Base, Resolves, Shape
<1>1. /\ res[r].pc = "resolve" /\ cell'[k] = res[r].body
      /\ res'[r].pc = "check" /\ res'[r].key = k /\ res'[r].start = res[r].start
      /\ res'[r].sink = res[r].sink /\ res'[r].own = res[r].own /\ res'[r].remarked = res[r].remarked
      /\ Self(r)' = Self(r) /\ Self(r) = SelfOf[k]
  BY <1>0, PutAcceptedEffect DEF ReadyToPut, Self
<1>2. worker' = worker /\ eventQ' = eventQ /\ ver' = ver /\ \A o : Buckets(o)' = Buckets(o)
  BY DEF PutAccepted, informerVars, Buckets
<1>3. ASSUME NEW c \in Coords, cell'[k][c] # Unread PROVE Covered(k, c)'
  <2>1. CASE k \in edges'[c] \/ exposed'[k] # {}
    BY <2>1 DEF Covered
  <2>2. CASE c = Self(r) /\ c \notin res[r].own
    <3>1. LateOwed(r, k)' /\ ~res'[r].remarked
      BY <1>0, <1>1, <2>2 DEF LateOwed, Lates
    <3> QED BY <1>1, <2>2, <3>1 DEF Covered
  <2> QED BY <1>1, <1>3, <2>1, <2>2, PutFacts
<1>4. ASSUME NEW c \in Coords, cell'[k][c] # Unread, cell'[k][c] # ver'[c] PROVE Answered(k, c)'
  <2>1. PICK s \in 0 .. seq : s = res[r].start
    BY <1>0 DEF Shape, Times, TypeOK, ResolveState, DepTypeOK
  <2>2. Coming(c) \/ Stamping(c, s) \/ Past(c, s)
    BY <1>0, <1>1, <1>2, <1>4, <2>1 DEF ReadKnown, Missed
  <2>3. /\ Coming(c) => Coming(c)'
        /\ Stamping(c, s) => Stamping(c, s)' /\ Ahead(c)'
        /\ Past(c, s) => Past(c, s)'
    BY <1>0, <1>2, PastKept DEF Coming, Stamping, Ahead
  <2>4. c \in res[r].sink
    BY <1>1, <1>4, PutFacts
  <2>5. CASE Past(c, s)
    <3>1. WillCheck(r, c)'
      BY <1>1, <2>1, <2>3, <2>4, <2>5 DEF WillCheck
    <3> QED BY <1>1, <3>1 DEF Answered
  <2>6. CASE exposed'[k] # {}
    BY <2>6 DEF Answered, Owes
  <2>7. CASE k \in edges'[c] /\ (Coming(c) \/ Stamping(c, s))
    BY <2>3, <2>7 DEF Answered
  <2>8. CASE c = Self(r) /\ c \notin res[r].own /\ (Coming(c) \/ Stamping(c, s))
    <3>1. WillCheck(r, c)'
      BY <1>1, <2>1, <2>3, <2>8 DEF WillCheck
    <3> QED BY <1>1, <3>1 DEF Answered
  <2> QED BY <1>1, <1>4, <2>2, <2>5, <2>6, <2>7, <2>8, PutFacts
<1> QED BY <1>3, <1>4 DEF CellCovered, CellAnswered

----------------------------------------------------------------------------
\* The invariant and what follows from it.

\* The stored bodies' part of the invariant is inductive.
LEMMA CellsStep ==
    ASSUME Base, TypeOK', Next, Resolves, Cells
    PROVE  Cells'
<1>0. TypeOK
  BY DEF Base
<1>1. SUFFICES ASSUME NEW k \in Keys, Resident(k)' PROVE CellCovered(k)' /\ CellAnswered(k)'
  BY DEF Cells, CellCovered, CellAnswered
<1>2. ASSUME NEW r \in Resolvers, PutAccepted(r), res[r].key = k PROVE CellCovered(k)' /\ CellAnswered(k)'
  BY <1>2, PutStep
<1>3. CASE ~(\E r \in Resolvers : PutAccepted(r) /\ res[r].key = k)
  <2>1. Stays(k)
    BY <1>0, <1>1, <1>3, WorldFate, ActFate, WhoActs DEF Strips
  <2>2. cell'[k] = cell[k] /\ Resident(k) /\ CellCovered(k) /\ CellAnswered(k)
    BY <1>1, <2>1 DEF Stays, Resident, NoCell, Cells
  <2>3. ASSUME NEW c \in Coords, cell'[k][c] # Unread PROVE Covered(k, c) /\ Covered(k, c)'
    <3>1. Covered(k, c)
      BY <2>2, <2>3 DEF CellCovered
    <3> QED BY <1>3, <2>1, <2>2, <3>1, CoveredStep
  <2>4. ASSUME NEW c \in Coords, cell'[k][c] # Unread, cell'[k][c] # ver'[c] PROVE Answered(k, c)'
    <3>1. CASE ver'[c] # ver[c]
      BY <2>3, <2>4, <3>1, ChangeAnswered
    <3>2. CASE ver'[c] = ver[c]
      <4>1. Answered(k, c)
        BY <2>2, <2>4, <3>2 DEF CellAnswered
      <4> QED BY <1>3, <2>1, <2>2, <4>1, AnsweredStep
    <3> QED BY <3>1, <3>2
  <2> QED BY <2>3, <2>4 DEF CellCovered, CellAnswered
<1> QED BY <1>2, <1>3

\* Nothing has been read or stored yet.
LEMMA InvalInit == Init => InvalInv
<1> SUFFICES ASSUME Init PROVE InvalInv
  OBVIOUS
<1>1. Base
  BY TypeInit, FloorInit, OwnedInit DEF Base
<1>2. Cells
  BY DEF Init, Cells, CellCovered, CellAnswered, Resident
<1>3. ASSUME NEW r \in Resolvers PROVE Shape(r) /\ OwnKept(r) /\ ReadKnown(r)
  <2>1. res[r] = Idle /\ seq = 0
    BY <1>3 DEF Init
  <2>2. Blank(res[r]) /\ res[r].pc = "idle"
    BY <1>1, <1>3, <2>1, Blanks DEF Base
  <2>3. \A c \in Coords : NoBody[c] = Unread
    BY DEF NoBody
  <2> HIDE DEF Init
  <2> QED BY <2>1, <2>2, <2>3 DEF Blank, Shape, Kinds, Times, Begun, Bodies, Lists, Lates, DepSet, OwnKept,
            ReadKnown
<1> QED BY <1>1, <1>2, <1>3 DEF InvalInv, Resolves

\* The invariant is inductive.
LEMMA InvalNext ==
    ASSUME InvalInv, [Next]_vars
    PROVE  InvalInv'
<1>0. TypeOK' /\ Base'
  BY TypeNext, FloorNext, OwnedNext DEF InvalInv, Base
<1>1. CASE Next
  BY <1>0, <1>1, ResolvesStep, CellsStep DEF InvalInv
<1>2. CASE UNCHANGED vars
  <2>1. UNCHANGED <<ver, alive, eventQ, worker, seq, floor, bump, edges, reverse, cell, gen, tomb, refreshQ,
                    mseq, tries, knownStale, res, exposed>>
    BY <1>2 DEF vars, informerVars, depVars, markVars, storeVars
  <2>2. Resolves'
    BY <2>1 DEF InvalInv, Resolves, Shape, Kinds, Times, Begun, Bodies, Lists, Lates, DepSet, OwnKept,
       ReadKnown, Missed, Coming, Stamping, Past, depMovedSince, Uninherited, Inserting, Self
  <2>3. Cells'
    BY <2>1 DEF InvalInv, Cells, CellCovered, CellAnswered, Resident, Covered, Answered, Owes, Refreshing,
       LateOwed, WillCheck, Missed, Coming, Stamping, Past, depMovedSince, Uninherited, Inserting, Ahead, Self
  <2> QED BY <1>0, <2>2, <2>3 DEF InvalInv
<1> QED BY <1>1, <1>2

\* Once everything about k has run, its body has all its edges and every change
\* of what it read has reached it.
LEMMA InvalImplies ==
    ASSUME InvalInv
    PROVE  EdgesCoverBody /\ NoLostInvalidation
<1>1. ASSUME NEW k \in Keys, Settled(k), Resident(k), NEW c \in Coords, cell[k][c] # Unread
      PROVE  k \in edges[c] \/ exposed[k] # {}
  <2>1. Covered(k, c)
    BY <1>1 DEF InvalInv, Cells, CellCovered
  <2> QED BY <1>1, <2>1 DEF Covered, LateOwed, Settled
<1>2. ASSUME NEW k \in Keys, Settled(k), Resident(k), NEW c \in Coords, cell[k][c] # Unread, cell[k][c] # ver[c]
      PROVE  k \in refreshQ \cup knownStale \/ exposed[k] \cap Windows # {}
  <2>1. Answered(k, c)
    BY <1>2 DEF InvalInv, Cells, CellAnswered
  <2>2. ~Refreshing(k) /\ ~Coming(c) /\ ~Ahead(c) /\ worker.pc # "fanout"
    BY <1>2 DEF Settled, Refreshing, Resolvers, Coming, Ahead
  <2>3. \A r \in Resolvers : res[r].key = k => ~WillCheck(r, c)
    BY <1>2 DEF Settled, WillCheck
  <2>4. Owes(k)
    BY <2>1, <2>2, <2>3 DEF Answered
  <2>5. exposed[k] \subseteq Windows
    BY DEF InvalInv, Base, TypeOK, StoreTypeOK
  <2> QED BY <2>2, <2>4, <2>5 DEF Owes
<1>3. EdgesCoverBody
  BY <1>1 DEF EdgesCoverBody, Reachable
<1>4. NoLostInvalidation
  BY <1>2 DEF NoLostInvalidation, FreshExcept, Stale
<1> QED BY <1>3, <1>4

\* The invariant holds throughout, for every set of keys, objects, types and
\* goroutines, every cap on the edges and every retry budget.
THEOREM InvalidationInvariance == Spec => []InvalInv
  BY InvalInit, InvalNext, PTL DEF Spec

\* A resident body is reachable by the events of everything it read, outside the
\* windows (reassertOwnEdges, the late Record of the own CR).
THEOREM EdgesCover == Spec => []EdgesCoverBody
  BY InvalInit, InvalNext, InvalImplies, PTL DEF Spec

\* No invalidation is lost outside the windows: a change that races a resolve is
\* found by the fan-out, by the Put's scan or by the late edge's re-check.
THEOREM InvalidationNotLost == Spec => []NoLostInvalidation
  BY InvalInit, InvalNext, InvalImplies, PTL DEF Spec
=============================================================================
