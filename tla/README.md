# Snowplow: a TLA+ verification project

Snowplow (`src/go/snowplow`) resolves RESTActions and Widgets, Kubernetes custom
resources that describe API calls and UI, on behalf of users, and keeps the
resolved bodies in memory. Its hard part is not resolving but staying coherent:
a body is served from the L1 cache until an informer event says that something
it was built from has changed, and everything between the event and the new body
runs concurrently and mostly without locks. This project models that core, checks
it with TLC and proves its safety properties with TLAPS.

Paths below are relative to `src/go/snowplow`; `cache/` is `internal/cache/` and
`dispatchers/` is `internal/handlers/dispatchers/`.

## 1. Inventory

| Component | State it keeps | Operations | What makes it correct |
|---|---|---|---|
| Informer cache, L3 (`cache/watcher.go`, `servable.go`) | per-type indexers, registration and sync state | lazy registration, event handlers, GET and LIST | a read sees a change no later than the event of that change |
| Dep-event bridge (`cache/deps_watch.go`) | a deduplicating work queue, masks, requeue counts | submit, probe the indexer, hand over to the tracker | every change is handed over at least once after it is readable; a poisoned event does not stop the others |
| Dependency tracker (`cache/deps.go`) | `forward` (coordinate to keys, with a stamp), `reverse` (key to coordinates), the event sequence, a floor per type | Record, event fan-out, Put check, re-check, reassert, release, strip | a change that affects a stored body marks its key; edges live as long as their entry |
| L1 store (`cache/resolved.go`) | cells with generations, tombstones, LRU lists, byte budgets | get, plain and generation-gated Puts, evict, sweep | a removed body is not brought back; cell, edges and tombstone move together |
| Put gate (`cache/put_*.go`) | none | verdict | a partial or private body is not stored |
| Refresher (`cache/refresher*.go`) | three work-queue tiers, in-flight set, trigger sets, rate floors | mark, dequeue, re-resolve, requeue, drop | one refresh per key at a time; a mark is never lost; a failing key is bounded |
| Dirty window, known-stale, stale retry and push | window per key, known-stale set, debts | open, settle, end | a stale body is never reported fresh |
| Resolve entry points (`dispatchers/restactions.go`, `widgets.go`, `resolve_populate.go`, `phase1_pip_seed.go`) | goroutine-local | fetch CR, capture generation, resolve, Put, record, release | the order of those steps |
| RBAC snapshot and sub-generations (`cache/rbac_*.go`, `bindings_by_gvr*.go`) | an immutable snapshot behind an atomic pointer, generations per subject | rebuild, publish, bump | a revoked grant is not served from a cell of an older generation |
| List cells, raFullList layers, seed memo | incremental or shared bodies with their own stamps | patch, fill, replay | equal to a full resolve at some sequence between read and use |
| Store swap and verification (`cache/store_*.go`) | two stores per watch and a ledger | swap, verify, repair | no event is lost across a swap |
| Refresh broadcaster and SSE | bounded channels per subscriber | publish, coalesce, evict | a subscriber that keeps up sees every refresh |
| Prewarm engine and boot phases | scopes, latches, seeded sets | walk, seed, latch readiness | readiness is reached and means what it says |
| CRD discovery, reconcile audit, list interest, declined-external engine | fingerprints, audits, retry sets | | planned or shadow only |
| Metrics, tracing, logging, HTTP plumbing, export, charts, benches | | | not modelled |

How they interact: an informer handler submits an object to the bridge; its one
worker probes the indexer and calls `onObjectEventMasked`, which bumps the stamps
and then marks (or, for a deleted CR, evicts) every key with an edge; marks go to
the refresher through a hook; the refresher resolves the key and replaces the
cell; customer requests and seeds fill cells at the same time; the store strips
edges on every removal. Goroutines share the tracker without a lock
(`sync.Map`, atomics) and the store under one mutex.

`PROJECT.json` lists, under `hazards`, where this is hard to test.

## 2. Modules

### Coherence

One module for the protocol between the tracker, the store, the bridge's worker,
the refresher and the resolves, because its properties are about how they
interleave. **A step is one access to shared state**: one atomic or `sync.Map`
operation of the tracker, or one critical section of the store's mutex. The
exceptions are stated: the forward and the reverse insert of one edge are one
step, and `RemoveL1Key`, which always runs under the store's mutex on behalf of a
removal, is one step although a lock-free `Record` may run between its deletions.

| Model | Code |
|---|---|
| `ver`, `alive` | what the indexers hold; `ver` counts content changes. A type is also a coordinate, that of its LIST, and changes with each of its objects |
| `eventQ`, `worker` | the bridge's queue and its single worker |
| `seq`, `floor`, `bump`, `edges` | `depEventSeq`, `gvrLastBump`, `keySet.lastBumpSeq` (`NoBucket`: not in `forward`), `keySet.keys` |
| `reverse` | the key's `depSet` |
| `cell`, `gen`, `tomb` | the resident body (version read per coordinate), `lruItem.gen`, the tombstone |
| `refreshQ`, `mseq`, `tries`, `knownStale` | refresher queue, sequence at the latest mark, `NumRequeues`, known-stale registry |
| `res` | each goroutine's resolve: program counter, `depGenSink`, body, a half-done Record |
| `exposed` | history only: the windows (below) the stored body went through |

Actions: `ObjectEvent`; the worker's `WorkerTake`, `BumpAdd`, `BumpFloor`,
`BumpStamp`, `Collect`, `EvictOne`, `MarkOne`, `WorkerDone`; the resolve's
`Enter`, `FetchSelf`, `Dequeue`, `CaptureGen`, `Read`, `RecordBegin`,
`RecordInherit`, `RecordInsert`, `Recheck`, `PutAccepted`, `PutRefused`,
`CheckBegin`, `CheckScan`, `LateDone`, `Decline`, `SelfGone`, `Release`; the
store's `Evict` and `ExpireTombstone`. `PROJECT.json` maps each to its lines.

A resolve has a kind. `call` is a customer dispatch: epoch, fetch of the CR,
`CaptureGen`, inner calls, `putIfGen`, and only then the Record of its own CR.
`seed` is the same but for its Put: gated once `/readyz` has flipped, plain
before. When it flips is not modelled, so a seed whose generation moved may be
refused and may be stored; this includes orders a real boot excludes (a plain
seed Put next to a served request). `refresh` captures its generation first,
reads its CR inside the resolve and replaces only a resident cell.

Abstracted: what a body contains beyond the version of each coordinate read;
identities and their classes (one key is one identity's cell); the three
refresher tiers, rate floors and timers (a key is either waiting or not); LRU
order and byte budgets (`Evict` may take any resident key at any time). Type-level
events (`bumpResourceTypeGen`) and RBAC-typed dependencies are not modelled yet.

**The four windows.** Writing down the protocol at this grain shows that a change
can be lost, and where. The history variable `exposed` records when a stored body
went through one of these, and `NoLostInvalidation` says nothing is lost outside
them:

* *torn*: the Put's check runs between `depEventSeq.Add` and the stamps of an
  event on the resolve's own CR, which is recorded only after the Put;
* *cold*: a check reads a bucket its publisher has not yet raised to the floor;
* *prune*: a Record inserts into a bucket that was pruned after it was loaded;
* *cap*: the edge was dropped at `DEPS_MAX_RECORDS` (counted and accepted by the
  code).

For the first three a comment in `deps.go` says the opposite; each has a run in
which TLC shows the loss, and a finding.

### EventFeed and DepEventBridge

`Coherence` takes the bridge as a queue that hands over every changed object
after its change is readable. `EventFeed` states that promise by itself: after a
change an object is *owed*; a telling that saw the latest change settles the
debt, one that a change overtook does not; a panic loses it; everything owed is
told or lost. `DepEventBridge` is `cache/deps_watch.go`, and implements it under
the mapping `owed <- {o : handled[o] # ver[o]}`.

| Model | Code |
|---|---|
| `ver`, `alive`, `servable` | the indexer and its authority (`servableLocked`) |
| `notes` | the informer's ordered notifications that no handler has taken yet |
| `sub` | the running `submitDepEventMask` of the informer's goroutine and of the reconcile audit: merge the mask, `markQueued`, `Add`, one step each |
| `queue`, `dirty`, `waiting`, `requeues` | client-go's typed work queue (external): what `Get` returns next, its dirty set, the delayed adds, `NumRequeues` |
| `masks`, `queued`, `processing` | the fields of `depWatch` under `maskMu` |
| `worker` | `runDepEventWorker` and `handleDepEvent`: begin, take the mask, probe, then requeue, tell or panic, end, `Done` |
| `handled`, `told`, `lost` | what `onObjectEventMasked` was last called with; a processing that panicked |
| `noted`, `unseen` | history only |

A change is a version; the tracker is level-triggered, so what it is told is the
state at the probe, not the event. Masks are modelled as the set of the bits
`membership`, `update`, `unknown`, with the shadow switched on (switched off they
are nil and nothing reads them). Left out: the ADDs of an initial LIST, which the
handler drops (the type-level events that answer for them are not modelled
either); the CRD side effect; the respawn of the worker, which the code calls
unreachable; and the test-only shutdown.

### Refresher

`cache/refresher.go`, `refresher_viewed.go`, `dirty_window.go`, `known_stale.go`:
the pool that Coherence takes as "a key waits and is then refreshed". A step is
one access to a queue, a `sync.Map` or a critical section.

| Model | Code |
|---|---|
| `seq`, `ev`, `asOf` | `depEventSeq`; the sequence of the latest change of a key's inputs and of the change its stored body was resolved from |
| `pending`, `processing`, `delayed`, `requeues` | each tier's client-go work queue (external): dirty set, keys in hand, delayed adds, `NumRequeues` |
| `wake` | `viewedWakeKey` in the normal queue, the only one a worker blocks on |
| `triggers`, `window`, `promoted`, `inFlight` | `triggerGVRByKey`, `dirtyStamp`, `promotedKeys`, `inFlightKeys` |
| `viewedActive`, `lastViewed`, `bgSlot` | the viewed slots with their fairness bit, `bgRevalidationInflight` |
| `subscribed`, `arm` | the armed keys of the hub and the arm hook (`promoteOnArm`) |
| `mark`, `wk` | a running `onDirtyMark`; each worker's `processNext` |

A mark is three steps (`MarkMerge`, `MarkWindow`, `MarkRoute`), so is a dequeue
(`Take...`, `CheckAndClaim`, then the refresh) and its end (`Settle`, `Release` or
`Done`). The environment (tabs, customer reads and Puts, evictions, proactive
enqueues) is bounded by `MaxMoves`; changes by `MaxSeq`.

What writing it down shows:

* The slot of a background revalidation can leak. A worker that finds its key's
  triggers taken by another one (`consumedElsewhere`, `refresher.go:1012`) returns
  before `settleBackgroundRevalidation`, so a revalidation that was folded into that
  dequeue leaves the key's slot taken and later reads do not start another, contrary
  to `known_stale.go:453-455`. `SlotLeaksOnlyBySkip` says this is the only way: in no
  other step does a slot lose the last dequeue that would settle it.
* An ordinary window is not always accompanied by a queued refresh: a viewed
  dequeue that is skipped because its triggers are gone leaves it open.
  `NoLostRefresh` is therefore about the stored body, not about windows.
* A refresh that fails for good after its window was evicted finds nothing to make
  known-stale. The history variable `unflagged` names this case and `NoLostRefresh`
  excludes it.
* A pool of one worker (`RESOLVED_CACHE_REFRESHER_PARALLELISM=1`) can sleep on a
  viewed key. `wakeViewed` asks `viewedSlotFree`, which refuses when the last
  dequeue was viewed and a cluster-list key waits (`refresher_viewed.go:293-297`,
  `:306`), and neither arrival wakes the worker, contrary to
  `refresher_viewed.go:142`. `NoStrandedViewed` names this case and excludes it; with
  two workers or more it does not occur.
* `refresher.go:935-936` says "every cluster_list arrival wakes at least one
  worker"; `enqueueClusterList` (`:742-750`) wakes none when the pool is blocked on
  the normal queue. The key then waits for the next normal arrival: a delay.

### RefreshHub

`cache/refresh_broadcaster.go`, `internal/handlers/refreshes.go`,
`cache/identity_class_signal.go`, `dispatchers/refresh_rotation.go`: how a tab
learns that it should fetch a key again. A step is one critical section of the
hub, of the coalescing windows or of a stream.

| Model | Code |
|---|---|
| `window`, `pub` | `coalesceWindow` per key; goroutines inside `PublishRefresh`, `PublishEviction` or `windowEnd` |
| `phase`, `keys`, `announce` | `SubscribeRefreshStreamAs`: derive, register, announce what was missed, serve, unsubscribe, close |
| `sub` | `refreshSub`: the sink, the refresh backlog (`rpending`, `rorder`, `rdraining`), the paced eviction backlog (`pending`, `order`, its drain) and the resync flag |
| `class`, `minted`, `told`, `noted`, `noting`, `checking`, `rotating` | the requester's identity class, the class the stream's keys were derived under, and the rotation signal with its comparison |
| `owed` | history: the keys that changed while the stream was armed and no frame was written since |

"A window exists only for an ARMED key" holds except between the disarm of the
last stream and `stopWindow`; no property depends on it.

### RbacPublish

`cache/rbac_snapshot.go`, `rbac_subgen*.go`, `bindings_by_gvr*.go` and the part of
the dispatch that keys, guards and stores a per-identity cell. The rules of a
subject are a version.

| Model | Code |
|---|---|
| `rules`, `delivered`, `handler` | the RBAC indexers, and each object's snapshot handler: note, mark, try the slot, hook |
| `dirty`, `slot`, `writer` | `rbacRebuildDirty`, `rbacRebuildLock`; each goroutine in `runRBACRebuildLoop` or `publishRBACSnapshotUnderSlot` with what it took and read |
| `pending`, `subgen` | `pendingSubGenBumps`, the counters |
| `gen`, `snap` | `RBACGen() > 0`, the published snapshot |
| `epoch`, `note`, `built`, `wanted`, `ready` | the boot-window epoch, its note, the bindings index and who still has to build it |
| `request`, `cell` | mint the key, resolve from the snapshot, `identityClassDrift`, Put |
| `rotated`, `noted`, `raised`, `missed` | history |

A rebuild may panic at any of its steps (`MaxPanics`). Beyond the finding, there is
a second window of the epoch: the epoch is raised by the index build and not at a
publish, so an edit that was noted and is not yet in the snapshot rotates ahead of
its content, contrary to `rbac_subgen_pending.go:43-46`. Both windows are in
`missed`, and `StaleCellUnreachable` excludes exactly them.

### StoreSwap

`cache/store_swap.go`, `store_instance.go` and the accounts of
`store_swap_ledger.go`: the informer of a type is replaced while it is served. A
copy is built muted beside the live one; once it has synced, `installBuild` (1)
installs it, (2) stops the retiring copies and waits for their last call, (3) gives
up if a later build installed meanwhile, (4) unmutes it in its listener's order, (5)
computes M, the keys whose stored body is not the one the consumer acted on, and (6)
delivers M through the listener. One object and one consumer: keys and handlers have
their own records and queues.

| Model | Code |
|---|---|
| `gone`, `server`, `schema` | the object's history at the apiserver: versions, some without the object; the CRD's schema. A body is a version read under a schema |
| `pos`, `store`, `out`, `queue`, `busy` | a copy's informer (client-go, external): reflector, indexer, the write not yet distributed, the listener's queue and the call it is in |
| `muted`, `seen`, `suppress`, `acted` | `handlerAdapter` and the `actedRecord` that survives swaps |
| `stopped`, `done` | the copy's stop channel; its Run has returned |
| `live`, `build`, `built`, `retiring` | `rw.instances`, `rw.builds`, the copies made so far, `rw.retiring` |
| `swap`, `waits`, `inM`, `passed` | where the copy's sync goroutine is in `installBuild`, whom it waits for, its M, `passedSt3` |
| `account`, `reasons`, `clean`, `asked`, `ended` | `buildAccount` and its reasons, a clean pass between its unlock and `endReason`, the requests and those accounted for |
| `comparator` | `comparatorRecord` |
| `behind`, `blurred` | history: the two cases in which the consumer may step back |

The environment (writes, requests, clean passes, teardown) is bounded by `MaxMoves`.
A watch event may stay away for as long as its copy lives: that is the lost event a
swap repairs.

What writing it down shows:

* The consumer may be told an older version when the new copy was listed from an
  older state (F8, `behind`), and around absences, which have no identity. The code
  states that a suppression for an absent body ends at any delete (P2); it is also
  not begun when `seen` already holds an older absence. Both steps back are
  transient (`NoChangeLost` holds) and are what `blurred` names.
* `noteCleanPass` ends the divergence reasons after it has released `rw.mu`: a
  divergence that joins in between is ended as a clean abort, and reasons that a
  schema request keeps open may be handed over meanwhile. The request is accounted
  for in every case (`RequestHeld`); what differs is the outcome it is counted under.
* A swap goroutine stalled before `setComparatorRecord` (`store_swap.go:669`) may
  overwrite the record of a later swap with its own stopped copy; TLC reaches it with
  two builds. `list_cell.go:290-292` relies on the record naming the live copy.

Left out: the re-registration of a type after its teardown, a relist inside a copy,
several keys and handlers, `markChangedPending`, the repair breaker, and everything
that decides that a store diverged (the verification passes).

## 3. Runs

All Coherence runs use one key, one object (the key's CR) and its type, and one
change of the object (`MaxVer = 1`): every race in the list of hazards is between
two resolves, one event and one removal of one key. `MaxGen` bounds how often the
key is evicted. `CHECK_DEADLOCK FALSE`: the changes are bounded and the system
may then be quiet.

| Run | Instance | Shows |
|---|---|---|
| `coherence_base` | a dispatch and a refresher, body = CR + LIST of its type, one eviction | types, `NoLostInvalidation`, `NoOrphanEdges`, `EdgesCoverBody`, `EdgesOwned`, `FloorCoversBuckets`, `MovedIsStable` |
| `coherence_race` | two resolves, each a dispatch or a seed, body = CR, one eviction; symmetric | `NoLostInvalidation`, `NoOrphanEdges` when two Puts, late Records and releases of one key race |
| `coherence_live` | a dispatch and a refresher, failing refreshes, one requeue | `EventuallyFresh` |
| `bridge` | two coordinates, two inputs (changes or audit submits), one requeue | types and budget, `NoEventForgotten`, `InFlightCovered`, `MasksNotLost`, and `FeedPromise` (EventFeed with its liveness) |
| `refresher` | one cluster-list key, two workers, one change, one requeue, two moves of the environment; symmetric workers | `InFlightStampOwned`, `NoLostRefresh`, `WorkerReserved`, `SlotLeaksOnlyBySkip`, `NoStrandedViewed` |
| `refresh_hub` | two keys (one identity-bound), one client with two streams, two publishers, a sink of one slot, two changes | `NoLostSignal`, `BacklogDrained`, `OneSlotPerKey`, `RotationNoticed`, `SignalReaches` |
| `rbac_publish` | one subject, one spawned rebuild and the initial publish, one request, two versions, one panic | `OneRebuild`, `NoLostWakeup`, `BumpCarriesContent`, `StaleCellUnreachable`, `SnapshotMonotone` |
| `store_swap` | three versions, two schemas, the registered copy and two builds, three moves | `NoChangeLost`, `OneActor`, `NoStepBack`, `RequestHeld` |
| `rbac_epoch` | the instance of `rbac_publish` | the finding of that module |
| `coherence_torn`, `_cold`, `_prune` | the smallest instances that reach the window | the three findings |

The edge cap is not reached in these runs (`MaxRecords = 9`); the proofs cover it.

**Fairness** (`coherence_live`): weak fairness of the dep-event worker, of each
refresher worker's next dequeue and of every step of a resolve that has begun.
These are goroutines that wait only on work or on bounded I/O. Nothing is assumed
about new requests, evictions, object changes or that a refresh succeeds: a
refresh may fail every time and then ends known-stale.

**Bounds** (`bridge`): two inputs of one coordinate are enough for a submit that
meets the worker at each of its steps, a third only repeats this (the safety
properties also hold with three, 721 thousand states); two coordinates make the
queue's order visible; one requeue reaches the budget.

**Fairness** (`bridge`): weak fairness of the handler, of each running submit, of
the worker and of the end of each backoff, which a timer guarantees. Nothing makes
the indexer become authoritative again: with it lost for ever, the budget turns
the telling into "degraded". `CHECK_DEADLOCK FALSE`: inputs are bounded.

**Bounds** (`refresher`): a key that is registered as a cluster-list key passes
through all three tiers once armed; two workers are the least for which one is
reserved, and for a deferral; two moves reach every pair of an arm, a leave, a read,
a Put and an eviction around one change.

**Bounds and fairness** (`refresh_hub`): a sink of one slot is full after one frame, so
two changes reach both backlogs; two publishers meet in one window; the second
stream is the reconnect. The safety properties also hold with three changes over
two keys (673 thousand states) and with two clients of one key (580 thousand).
`SignalReaches` assumes that publishers, drains, timers and the handler run, and
that the handler's `select`, which Go makes at random among its ready channels,
reads a key that stays in the sink (weak fairness throughout). Nothing is
assumed of the client: it may leave at any time.

**Bounds** (`rbac_publish`): version 1 is the initial list, version 2 an edit, which
can meet each step of the initial publish, of a spawned rebuild, of the index build
and of the request.

**Bounds** (`store_swap`): two builds are the least for which a swap meets another
one (a superseded copy, an absorbed account, a chain of retiring copies); with three
versions a copy can be behind, level with and ahead of the consumer, and the object
can vanish and come back; three moves put two requests and a write, a clean pass or a
teardown in every order around the swaps. `CHECK_DEADLOCK FALSE`: the moves are
bounded. That every request ends is not checked: liveness over this state space
exceeds the time limit.

Every property of a passing run has a mutant: a plausible slip in one mapped
definition that makes TLC report exactly that property.

## 4. Proofs

`Coherence_proofs` proves, for all sets of keys, objects, types and goroutines
and all bounds allowed by `ConstantsAssumption`:

* `TypeCorrect`: `Spec => []TypeOK`;
* `FloorCorrect`: `Spec => []FloorCoversBuckets`. The invariant adds to "no bucket
  is ahead of its type's floor" that the worker about to stamp has already raised
  the floor to its sequence, which is what makes it inductive;
* `MovedStable`: `Spec => MovedIsStable`. A moved coordinate stays moved: a bucket
  only grows, and when it is pruned the floor, which covers it by `FloorCorrect`,
  answers for it;
* `EdgesAlwaysOwned`: `Spec => []EdgesOwned`. The inductive strengthening behind
  `NoOrphanEdges`: the two directions of an edge agree, every key with edges is
  resident or has a resolve that will still release, and a Record only runs inside
  such a resolve;
* `NoOrphans`: `Spec => []NoOrphanEdges`, from the former.

`DepEventBridge_proofs` proves, for all sets of coordinates and all bounds
(`BridgeAssumption`: there is a coordinate, the bounds are natural numbers):

* `BridgeTypeCorrect`: `Spec => []TypeOK`, the requeue budget included. The budget
  needs that a worker on its way to a requeue has found one free;
* `NothingForgotten`: `Spec => []NoEventForgotten`. What is on its way stays on
  its way until the worker takes it (`ComingKept`); the strengthening
  `OvertakenComes` says that a telling which a change overtook is followed by
  another one;
* `InFlightAlwaysCovered`: `Spec => []InFlightCovered`. Needs `NotedInStore` (what
  is marked has happened, so a later probe sees it) and `HeldIsProcessing` (what
  the worker holds is in `processing`, and when it lets go the change was told,
  lost or marked again), because `beginProcessing` may delete the mark of a newer
  submit;
* `MasksKept`: `Spec => []MasksNotLost`, with `MaskFetched` (the worker has an
  empty hand whenever it takes a mask);
* `BridgeImplementsFeed`: `Spec => Feed!Spec`. Needs `TellsInOrder`: one worker
  tells versions in the order it probed them and never ahead of the indexer.

`RefreshHub_proofs` proves, for all sets of keys, clients and publishers and every
sink capacity (`ConstantsAssumption`), `TypeCorrect`, `OneSlot`, `BacklogHasDrain`,
`SignalNotLost` and `RotationNotLost`. The inductive invariant is the conjunction of
types, `Streams` (a stream's queues are duplicate-free, agree with their sets, and a
backlog has its drain), `Handlers` (what a handler holds agrees with its phase),
`NoLostSignal` and `RotationNoticed`; lemmas about each offer and drain say that a
key that was carried stays carried.

`RbacPublish_proofs` proves, for all sets of subjects, goroutines and requests,
`TypeCorrect`, `AtMostOneRebuild`, `WakeupNotLost`, `BumpAfterContent`,
`StaleCellRotates` and `SnapshotNeverGoesBack`. The inductive invariant adds to the
properties `EpochOnce`, `Ordered` (what the slot's holder took, read and has yet to
store lies between the snapshot and the indexer), `Noting` (a note stands until the
build raises the epoch for it) and `CellInv` (a rotation that is on its way covers
every older cell and every request that may still store one).

`StoreSwap_proofs` proves, for all numbers of versions, schemas, copies and moves,
`TypeCorrect` (a copy never waits for itself included), `OneCaller` and
`RequestsHeld`. The inductive invariant has two halves. For `OneActor`: a copy calls
the consumer only while it is *acting* (registered first, or past step 3, and its Run
has not returned); signals are only in the queues of copies past step 3; at most one
copy is acting, it is live or retiring, and an install that is live and has not
passed step 3 waits for it, so that step 3 finds nobody acting. For `RequestHeld`: a
swap past its install holds an account, nobody else holds the same, and the open
build's is none of them (`Accounts`); every request has ended or is in exactly one
account (`Counted`), and an account with requests has somebody who ends it (`Held`).

`StoreSwapDelivery_proofs` builds on that invariant and proves `ChangesReach`
(`Spec => []NoChangeLost`) and `StepsBackKnown` (`Spec => NoStepBack`). Its own
invariant `DInv` follows a body from the store of a copy to the consumer:

* the last notification on its way is of the body in the store, and without one the
  listener has been told of it (`TailIsStore`); notifications are in the order of the
  versions (`InOrder`);
* the unmute signal precedes everything that needs it in the listener's queue, and
  there is one swap signal (`SignalOrder`);
* the body that step 6 delivered has been seen or is on its way, so that the
  suppression of its own notification ends (`SwapKnown`);
* a copy that acts, has nothing to compare, to suppress or to send has a store that
  agrees with the consumer (`Caught`, which gives `NoChangeLost`), and a copy that was
  not behind sends nothing older than the consumer has (`Forward`, which gives
  `NoStepBack`).

`Refresher_proofs` proves, for every set of keys, every finite pool and every budget,
`TypeCorrect`, `StampOwned`, `Reserved`, `ViewedNotStranded`, `RefreshNotLost` and
the action property `SlotKept`. The inductive invariant adds to the properties that
a claim has one owner over all tiers (`ClaimsOwned`), what a worker holds at each of
its steps (`WorkerShape`, `RetryBudget`), who a stamp in flight belongs to
(`StampOwner`), that a refresh which found a known-stale cell keeps it so or removes
it (`StaleKept`), that the viewed copy of a promoted key is on its way
(`PromotedComing`), that every trigger has a dequeue on its way that has not consumed
it (`TriggersComing`), and that an overtaken body has a flag, a trigger, or somebody
who brings or carries one (`StaleNoticed`). The last two are why `NoLostRefresh` is
true: a worker that skips a key leaves its triggers to another one, and one that took
them carries the refresh to an outcome.

`Invalidation_proofs` proves the main properties of `Coherence`, for all sets of keys,
objects, types and goroutines and all bounds, the edge cap included: `EdgesCover`
(`Spec => []EdgesCoverBody`) and `InvalidationNotLost` (`Spec =>
[]NoLostInvalidation`). `InvalInv` has three parts:

* `Base`: the invariants of `Coherence_proofs`;
* `Resolves`: the shape of a resolve (its sequences, lists and late Record); as long as
  its depSet is the one it recorded into, its edges are there or a window was noted
  (`OwnKept`); and whatever it read and is no longer so is *missed* in the one sense in
  which it can still be found (`ReadKnown`): the event is coming, or its worker has a
  sequence after the resolve began and has not stamped the coordinate yet, or the
  stamps say that it moved (`Missed`);
* `Cells`: everything a stored body read has its edge, or is the own CR that its
  resolve still has to record (`Covered`); and for every change that overtook the body
  somebody will see to it (`Answered`): the event will collect or has collected the key,
  the Put's scan or the late edge's re-check will notice, or the key is already owed a
  refresh (`Owes`).

`Missed` is stable because stamps never go back (`PastKept`, from `FloorCorrect`). Each
hand-over is then one lemma: an accepted Put turns what its resolve missed into what
the fan-out or its own scan will answer (`PutStep`), the scan leaves to the re-check
what it cannot see yet (`CheckActs`), a collected key is marked unless its cell goes
first (`FanoutReaches`). The *torn*, *cold*, *prune* and *cap* windows enter at exactly
the steps where one of these hand-overs fails.

Only model-checked: the liveness properties `EventuallyFresh`, `SignalReaches` and that
of `FeedPromise` (liveness under fairness is outside this prover). Every invariant and
every action property of a passing run is also a theorem.

## 5. Not modelled, and what comes next

| Part | Why, or what a model would add |
|---|---|
| L1 store beyond `Coherence` (`resolved.go`): LRU order, byte budgets, pin demotion, the eviction inside a Put | next: byte counts equal the sum of the cells; a removed body is not brought back |
| Verification of stores (`store_verify*.go` and the judge), repair breaker, the ledger's entries, re-registration after a teardown | next: what a pass that races a swap judges, and when a repair is asked for |
| List cells, raFullList layers, seed memo, declined-external engine, prewarm phases, CRD discovery | next in this order |
| Type-level events and RBAC-typed dependencies in `Coherence` | its runs are near their time limit |
| Hub with coalescing switched off, its reset and `ArmKey`/`DisarmKey` | not reached in production |
| Metrics, tracing, logging, HTTP plumbing, templating and JQ, charts, benches | observation, I/O or data |

To prove next: that `Coherence` outside the windows implements a cache that is told of
every change, and the budgets of the L1 store once it has a module of its own.
