----------------------------- MODULE Refresher ------------------------------
(***************************************************************************)
(* The refresher's worker pool (internal/cache/refresher.go,                *)
(* refresher_viewed.go), the dirty window of a cell (dirty_window.go) and    *)
(* its known-stale state with the background revalidation (known_stale.go).  *)
(*                                                                          *)
(* A change of a cell's inputs marks its key: the mark merges a trigger,     *)
(* opens the window and adds the key to one of three queues.  The workers    *)
(* drain the viewed tier (cells open on a page) first, the cluster_list tier *)
(* next and then block on the normal tier.  A key armed while it waits is    *)
(* promoted to the viewed tier and may then be in two queues at once.        *)
(*                                                                          *)
(* Atomicity.  A step is one access to shared state: an operation on a queue *)
(* or a sync.Map, a compare-and-swap loop, a critical section.  Accesses     *)
(* between which no other goroutine's step matters are one step; where two   *)
(* of them are kept together although one might, the action says so.         *)
(***************************************************************************)
EXTENDS Integers, FiniteSets

CONSTANTS
    Keys,            \* L1 keys
    ClusterListKeys, \* the keys registered with RegisterClusterListKey
    Workers,         \* the pool; its size is r.parallelism
    MaxRequeues,     \* maxRefreshRequeues
    MaxSeq,          \* bound: changes of inputs
    MaxMoves         \* bound: steps of tabs, customers and evictions

ASSUME ConstantsAssumption ==
    /\ Keys # {} /\ ClusterListKeys \subseteq Keys
    /\ IsFiniteSet(Workers) /\ Workers # {}
    /\ "bridge" \notin Workers /\ "customer" \notin Workers
    /\ MaxRequeues \in Nat /\ MaxSeq \in Nat /\ MaxMoves \in Nat

VARIABLES
    seq,          \* depEventSeq
    ev,           \* key -> the sequence of the latest change of its inputs
    asOf,         \* key -> the sequence its stored body was resolved from, or NoCell
    suppressed,   \* refreshSuppressed
    subscribed,   \* keys with an armed /refreshes subscription
    arm,          \* key -> where the arm hook of its subscription is
    pending,      \* tier -> the keys to process (a workqueue's dirty set)
    processing,   \* tier -> the keys in a worker's hands
    delayed,      \* tier -> AddAfter and AddRateLimited not yet expired
    requeues,     \* tier -> key -> NumRequeues
    wake,         \* viewedWakeKey is in the normal queue
    triggers,     \* keys with a pending trigger set (triggerGVRByKey)
    window,       \* key -> its dirtyStamp, or NoWindow
    promoted,     \* key -> promotedKeys
    inFlight,     \* key -> inFlightKeys
    viewedActive, \* workers in viewed work
    lastViewed,   \* the last dequeue was of the viewed tier
    bgSlot,       \* key -> bgRevalidationInflight
    wk,           \* worker -> its processNext
    mark,         \* actor -> its onDirtyMark
    moves,        \* how many such steps were taken
    unflagged     \* history: keys whose last refresh failed and found no window

queueVars == <<pending, processing, delayed, requeues, wake, viewedActive, lastViewed>>
cellVars == <<asOf, suppressed>>
viewVars == <<subscribed, arm>>
vars == <<seq, ev, cellVars, viewVars, queueVars, triggers, window, promoted,
          inFlight, bgSlot, wk, mark, moves, unflagged>>

Tiers == {"normal", "clusterList", "viewed"}
Actors == Workers \cup {"bridge", "customer"}
Parallelism == Cardinality(Workers)
NoCell == -1
AnyKey == CHOOSE k \in Keys : TRUE

Stamps == [inflight : BOOLEAN, next : BOOLEAN, stale : BOOLEAN, seq : 0..MaxSeq]
NoWindow == [inflight |-> FALSE, next |-> FALSE, stale |-> FALSE, seq |-> -1]
AtRest(s, st) == [inflight |-> FALSE, next |-> FALSE, stale |-> st, seq |-> s]

IdleWorker == [pc |-> "probe", key |-> AnyKey, tier |-> "normal", had |-> FALSE,
               trig |-> FALSE, open |-> FALSE, start |-> 0, gone |-> FALSE, out |-> "none"]
IdleMark == [pc |-> "idle", key |-> AnyKey]

\* A dequeue with nothing left but its deferred calls.
Ending(w) == [IdleWorker EXCEPT !.pc = "release", !.key = wk[w].key, !.tier = wk[w].tier]

Resident(k) == asOf[k] # NoCell
KnownStale(k) == window[k].stale
Open(k) == window[k] # NoWindow

\* What a queue's Get can return; a key being processed waits for its Done.
Ready(t) == pending[t] \ processing[t]

----------------------------------------------------------------------------
Init ==
    /\ seq = 0
    /\ ev = [k \in Keys |-> 0]
    /\ asOf = [k \in Keys |-> 0]
    /\ suppressed = {} /\ subscribed = {}
    /\ arm = [k \in Keys |-> "idle"]
    /\ pending = [t \in Tiers |-> {}]
    /\ processing = [t \in Tiers |-> {}]
    /\ delayed = [t \in Tiers |-> {}]
    /\ requeues = [t \in Tiers |-> [k \in Keys |-> 0]]
    /\ wake = FALSE
    /\ triggers = {}
    /\ window = [k \in Keys |-> NoWindow]
    /\ promoted = [k \in Keys |-> "no"]
    /\ inFlight = [k \in Keys |-> "no"]
    /\ viewedActive = 0
    /\ lastViewed = FALSE
    /\ bgSlot = [k \in Keys |-> "free"]
    /\ wk = [w \in Workers |-> IdleWorker]
    /\ mark = [a \in Actors |-> IdleMark]
    /\ moves = 0
    /\ unflagged = {}

----------------------------------------------------------------------------
\* The tiers.

\* viewedSlotFree, given what its reads find: one worker is kept from the
\* viewed tier; a single worker alternates.
SlotFree(active, last, others) ==
    IF Parallelism <= 1 THEN ~last \/ ~others ELSE active < Parallelism - 1

OtherWork == wake \/ Ready("normal") # {} \/ Ready("clusterList") # {}

viewedSlotFree == SlotFree(viewedActive, lastViewed, OtherWork)

\* enqueueRevalidation: the key's own tier, whoever is looking.
OwnTier(k) == IF k \in ClusterListKeys THEN "clusterList" ELSE "normal"

\* routeDirty.
RouteTier(k) == IF k \in subscribed THEN "viewed" ELSE OwnTier(k)

\* Mutant: a viewed key is added without waking a blocked worker.
MutNoWake(ts) == wake

\* wakingQueue.Add: an add to the viewed tier wakes a worker blocked on the
\* normal one, when the reservation leaves a slot for it.
WakeAfterAdd(ts) == wake \/ ("viewed" \in ts /\ viewedSlotFree)

\* Add the key to the tiers in ts.
Enqueue(ts, k) ==
    /\ pending' = [t \in Tiers |-> IF t \in ts THEN pending[t] \cup {k} ELSE pending[t]]
    /\ wake' = WakeAfterAdd(ts)

Forget(t, k) == requeues' = [requeues EXCEPT ![t][k] = 0]

----------------------------------------------------------------------------
\* The dirty window.

\* markDirty: the first mark opens the window, a mark during a refresh is next.
Marked(s) ==
    IF s = NoWindow THEN AtRest(seq, FALSE)
    ELSE [s EXCEPT !.seq = seq, !.next = @ \/ s.inflight]

\* beginWindow.
Begun(s) == IF s = NoWindow THEN s ELSE [s EXCEPT !.inflight = TRUE]

\* Mutant: a retry leaves the stamp in flight.
MutSettledKeepsInflight(s, out) ==
    IF ~s.inflight \/ out \in {"retry", "declined"} THEN s
    ELSE CASE out = "remarked" -> AtRest(s.seq, FALSE)
           [] out = "dropped"  -> AtRest(s.seq, TRUE)
           [] OTHER            -> IF s.next THEN AtRest(s.seq, FALSE) ELSE NoWindow

\* settleWindow: the stamp of this refresh is in flight (claimInFlight admits
\* one refresh of a key), any other was opened after an eviction.
Settled(s, out) ==
    IF ~s.inflight THEN s
    ELSE CASE out = "remarked"                -> AtRest(s.seq, FALSE)
           [] out = "retry"                   -> AtRest(s.seq, s.stale)
           [] out \in {"declined", "dropped"} -> AtRest(s.seq, TRUE)
           [] out \in {"fresh", "evicted", "selfgone"} ->
                 IF s.next THEN AtRest(s.seq, FALSE) ELSE NoWindow

\* History: a refresh that failed and found no window leaves no trace.
Failed(k, out, open) ==
    IF out \in {"declined", "dropped"} /\ ~open THEN unflagged \cup {k} ELSE unflagged

\* endKnownStaleOnPut: an accepted Put whose resolve began at start.
Reopens(s, start) == s.stale /\ ~s.inflight /\ start < s.seq
AfterPut(s, start) ==
    IF ~s.stale THEN s
    ELSE CASE s.inflight                     -> [s EXCEPT !.stale = FALSE]
           [] ~s.inflight /\ start < s.seq  -> AtRest(s.seq, FALSE)
           [] OTHER                          -> NoWindow

----------------------------------------------------------------------------
\* The store, as far as the refresher sees it.

\* An accepted Put of k, resolved from start: the body, its age, the end of a
\* suppression and of the known-stale state.
StorePut(k, start) ==
    /\ unflagged' = unflagged \ {k}
    /\ asOf' = [asOf EXCEPT ![k] = start]
    /\ suppressed' = suppressed \ {k}

\* remarkIfDepsMoved and refreshReopenedWindow: either marks the key again.
Remarks(k, start) == ev[k] > start \/ Reopens(window[k], start)

\* A removal: the body and all that is kept beside it; the generation moves.
RemoveCell(k) ==
    /\ unflagged' = unflagged \ {k}
    /\ asOf' = [asOf EXCEPT ![k] = NoCell]
    /\ suppressed' = suppressed \ {k}

Evict(k) ==
    /\ Resident(k)
    /\ RemoveCell(k)
    /\ window' = [window EXCEPT ![k] = NoWindow]
    /\ wk' = [w \in Workers |-> IF wk[w].pc = "resolving" /\ wk[w].key = k
                                THEN [wk[w] EXCEPT !.gone = TRUE] ELSE wk[w]]
    /\ UNCHANGED <<seq, ev, viewVars, queueVars, triggers, promoted, inFlight,
                   bgSlot, mark>>

----------------------------------------------------------------------------
\* onDirtyMark, by the dep-event bridge or inside a Put (a remark).

\* An input of k changes: the stamps are bumped, then the fan-out marks k.
InputEvent(k) ==
    /\ seq < MaxSeq
    /\ mark["bridge"].pc = "idle"
    /\ seq' = seq + 1
    /\ ev' = [ev EXCEPT ![k] = seq + 1]
    /\ mark' = [mark EXCEPT !["bridge"] = [pc |-> "decide", key |-> k]]
    /\ UNCHANGED <<cellVars, viewVars, queueVars, triggers, window, promoted,
                   inFlight, bgSlot, wk, unflagged>>

\* residentDecision, once: a key without a cell is dropped, for a resident one
\* the trigger is merged.
MarkMerge(a) ==
    LET k == mark[a].key
    IN
    /\ mark[a].pc = "decide"
    /\ \/ /\ Resident(k)
          /\ triggers' = triggers \cup {k}
          /\ mark' = [mark EXCEPT ![a].pc = "window"]
       \/ /\ ~Resident(k)
          /\ mark' = [mark EXCEPT ![a] = IdleMark]
          /\ UNCHANGED triggers
    /\ UNCHANGED <<seq, ev, cellVars, viewVars, queueVars, window, promoted,
                   inFlight, bgSlot, wk, unflagged>>

MarkWindow(a) ==
    /\ mark[a].pc = "window"
    /\ window' = [window EXCEPT ![mark[a].key] = Marked(@)]
    /\ mark' = [mark EXCEPT ![a].pc = "route"]
    /\ UNCHANGED <<seq, ev, cellVars, viewVars, queueVars, triggers, promoted,
                   inFlight, bgSlot, wk, unflagged>>

MarkRoute(a) ==
    /\ mark[a].pc = "route"
    /\ Enqueue({RouteTier(mark[a].key)}, mark[a].key)
    /\ mark' = [mark EXCEPT ![a] = IdleMark]
    /\ UNCHANGED <<seq, ev, cellVars, viewVars, processing, delayed, requeues,
                   viewedActive, lastViewed, triggers, window, promoted, inFlight,
                   bgSlot, wk, unflagged>>

----------------------------------------------------------------------------
\* Everything else that enqueues.

\* A tab arms the key: subscribed first, then the arm hook.
Arm(k) ==
    /\ k \notin subscribed /\ arm[k] = "idle"
    /\ subscribed' = subscribed \cup {k}
    /\ arm' = [arm EXCEPT ![k] = "armed"]
    /\ UNCHANGED <<seq, ev, cellVars, queueVars, triggers, window, promoted,
                   inFlight, bgSlot, wk, mark, unflagged>>

Disarm(k) ==
    /\ k \in subscribed
    /\ subscribed' = subscribed \ {k}
    /\ UNCHANGED <<seq, ev, cellVars, arm, queueVars, triggers, window, promoted,
                   inFlight, bgSlot, wk, mark, unflagged>>

\* dirtyPending.
dirtyPending(s) == s # NoWindow /\ ~s.stale /\ (~s.inflight \/ s.next)

\* promoteOnArm: the marker, then the viewed queue.
PromoteOnArm(k) ==
    /\ arm[k] = "armed"
    /\ IF dirtyPending(window[k])
       THEN /\ promoted' = [promoted EXCEPT ![k] = "pending"]
            /\ arm' = [arm EXCEPT ![k] = "enqueue"]
       ELSE /\ arm' = [arm EXCEPT ![k] = "idle"]
            /\ UNCHANGED promoted
    /\ UNCHANGED <<seq, ev, cellVars, subscribed, queueVars, triggers, window,
                   inFlight, bgSlot, wk, mark, unflagged>>

PromoteEnqueue(k) ==
    /\ arm[k] = "enqueue"
    /\ Enqueue({"viewed"}, k)
    /\ arm' = [arm EXCEPT ![k] = "idle"]
    /\ UNCHANGED <<seq, ev, cellVars, subscribed, processing, delayed, requeues,
                   viewedActive, lastViewed, triggers, window, promoted, inFlight,
                   bgSlot, wk, mark, unflagged>>

\* EnqueueRefresh: a proactive pass, without a trigger and without a window.
EnqueueRefresh(k) ==
    /\ k \notin pending["normal"]
    /\ Enqueue({"normal"}, k)
    /\ UNCHANGED <<seq, ev, cellVars, viewVars, processing, delayed, requeues,
                   viewedActive, lastViewed, triggers, window, promoted, inFlight,
                   bgSlot, wk, mark, unflagged>>

\* A delayed add expires and reaches the queue.
DelayExpires(t, k) ==
    /\ k \in delayed[t]
    /\ delayed' = [delayed EXCEPT ![t] = @ \ {k}]
    /\ Enqueue({t}, k)
    /\ UNCHANGED <<seq, ev, cellVars, viewVars, processing, requeues, viewedActive,
                   lastViewed, triggers, window, promoted, inFlight, bgSlot, wk,
                   mark, unflagged>>

\* RevalidateKnownStaleInBackground: a customer read of a known-stale shell
\* claims the slot and queues the key, or is absorbed into the one that holds it.
RevalidateInBackground(k) ==
    /\ KnownStale(k) /\ k \notin suppressed
    /\ bgSlot[k] # "rerun"
    /\ \/ /\ bgSlot[k] = "free"
          /\ bgSlot' = [bgSlot EXCEPT ![k] = "held"]
          /\ Enqueue({OwnTier(k)}, k)
       \/ /\ bgSlot[k] = "held"
          /\ bgSlot' = [bgSlot EXCEPT ![k] = "rerun"]
          /\ UNCHANGED <<pending, wake>>
    /\ UNCHANGED <<seq, ev, cellVars, viewVars, processing, delayed, requeues,
                   viewedActive, lastViewed, triggers, window, promoted, inFlight,
                   wk, mark, unflagged>>

----------------------------------------------------------------------------
\* A customer's cold path (a demand revalidation included): it stores what it
\* resolved from start on and remarks what changed since.  Any start is taken,
\* also one the generation gate would refuse.
CustomerPut(k, start) ==
    /\ mark["customer"].pc = "idle"
    /\ StorePut(k, start)
    /\ window' = [window EXCEPT ![k] = AfterPut(@, start)]
    /\ mark' = IF Remarks(k, start)
               THEN [mark EXCEPT !["customer"] = [pc |-> "decide", key |-> k]] ELSE mark
    /\ UNCHANGED <<seq, ev, viewVars, queueVars, triggers, promoted, inFlight, bgSlot, wk>>

----------------------------------------------------------------------------
\* processNext: the dequeue.

Take(w, t, k) ==
    /\ pending' = [pending EXCEPT ![t] = @ \ {k}]
    /\ processing' = [processing EXCEPT ![t] = @ \cup {k}]
    /\ wk' = [wk EXCEPT ![w] = [IdleWorker EXCEPT !.pc = "got", !.key = k, !.tier = t]]
    /\ lastViewed' = (t = "viewed" /\ Parallelism <= 1)
    /\ UNCHANGED <<seq, ev, cellVars, viewVars, delayed, requeues, wake, triggers,
                   window, promoted, inFlight, bgSlot, mark, unflagged>>

\* tryPriorityGet, on the viewed tier: probe and Get under one mutex.
TakeViewed(w, k) ==
    /\ wk[w].pc = "probe"
    /\ k \in Ready("viewed") /\ viewedSlotFree
    /\ viewedActive' = viewedActive + 1
    /\ Take(w, "viewed", k)

ViewedProbeFails == Ready("viewed") = {} \/ ~viewedSlotFree

\* ... and on the cluster_list tier.
TakeClusterList(w, k) ==
    /\ wk[w].pc = "probe"
    /\ ViewedProbeFails
    /\ k \in Ready("clusterList")
    /\ UNCHANGED viewedActive
    /\ Take(w, "clusterList", k)

\* Nothing in the priority tiers: the worker enters the normal queue's Get.
Block(w) ==
    /\ wk[w].pc = "probe"
    /\ ViewedProbeFails /\ Ready("clusterList") = {}
    /\ wk' = [wk EXCEPT ![w].pc = "blocked"]
    /\ UNCHANGED <<seq, ev, cellVars, viewVars, queueVars, triggers, window, promoted,
                   inFlight, bgSlot, mark, unflagged>>

TakeNormal(w, k) ==
    /\ wk[w].pc = "blocked"
    /\ k \in Ready("normal")
    /\ UNCHANGED viewedActive
    /\ Take(w, "normal", k)

\* The wake key: back to the probe, and wake the next worker while more wait.
TakeWake(w) ==
    /\ wk[w].pc = "blocked"
    /\ wake
    /\ lastViewed' = FALSE
    /\ wake' = (Cardinality(Ready("viewed")) > 1 /\ SlotFree(viewedActive, FALSE, TRUE))
    /\ wk' = [wk EXCEPT ![w] = IdleWorker]
    /\ UNCHANGED <<seq, ev, cellVars, viewVars, pending, processing, delayed, requeues,
                   viewedActive, triggers, window, promoted, inFlight, bgSlot, mark, unflagged>>

\* Mutant: a busy key is not remembered.
MutForgetsDeferred(k) == "busy"

\* claimInFlight: the key's entry after a claim; a busy key is deferred.
Claimed(k) == IF inFlight[k] = "no" THEN "busy" ELSE "deferred"

\* consumedElsewhere: what another tier's dequeue took leaves nothing to do.
Skips(k, t) ==
    IF t = "viewed" THEN k \notin triggers
    ELSE promoted[k] = "pending" \/ (promoted[k] = "done" /\ k \notin triggers)

\* ... and claimInFlight: a key another worker refreshes is deferred to it.
\* Kept together: a refresh that ends between the two only leaves this one
\* without triggers.
CheckAndClaim(w) ==
    LET k == wk[w].key
        t == wk[w].tier
    IN
    /\ wk[w].pc = "got"
    /\ promoted' = [promoted EXCEPT ![k] =
                      CASE t = "viewed" /\ @ = "pending" -> "done"
                        [] t # "viewed" /\ Skips(k, t)   -> "no"
                        [] OTHER                         -> @]
    /\ \/ /\ Skips(k, t)
          /\ Forget(t, k)
          /\ wk' = [wk EXCEPT ![w].pc = "done"]
          /\ UNCHANGED inFlight
       \/ /\ ~Skips(k, t)
          /\ inFlight' = [inFlight EXCEPT ![k] = Claimed(k)]
          /\ wk' = [wk EXCEPT ![w].pc = IF inFlight[k] = "no" THEN "claimed" ELSE "done"]
          /\ UNCHANGED requeues
    /\ UNCHANGED <<seq, ev, cellVars, viewVars, pending, processing, delayed, wake,
                   viewedActive, lastViewed, triggers, window, bgSlot, mark, unflagged>>

----------------------------------------------------------------------------
\* processNext: the refresh of a claimed key.

\* The entry read after the yield decides between the three branches below.

\* A suppressed key ends its window known-stale and discards its triggers.
SkipSuppressed(w) ==
    LET k == wk[w].key
    IN
    /\ wk[w].pc = "claimed"
    /\ Resident(k) /\ k \in suppressed
    /\ Forget(wk[w].tier, k)
    /\ triggers' = triggers \ {k}
    /\ window' = [window EXCEPT ![k] = Settled(Begun(@), "declined")]
    /\ unflagged' = Failed(k, "declined", Open(k))
    /\ wk' = [wk EXCEPT ![w] = Ending(w)]
    /\ UNCHANGED <<seq, ev, cellVars, viewVars, pending, processing, delayed, wake,
                   viewedActive, lastViewed, promoted, inFlight, bgSlot, mark>>

\* AddAfter / AddRateLimited.
Deferred(t, k) == [delayed EXCEPT ![t] = @ \cup {k}]

\* The rate floor defers the dequeue on its tier; triggers and window stay.
Floor(w) ==
    LET k == wk[w].key
        t == wk[w].tier
    IN
    /\ wk[w].pc = "claimed"
    /\ Resident(k) /\ k \notin suppressed
    /\ Forget(t, k)
    /\ delayed' = Deferred(t, k)
    /\ wk' = [wk EXCEPT ![w] = Ending(w)]
    /\ UNCHANGED <<seq, ev, cellVars, viewVars, pending, processing, wake, viewedActive,
                   lastViewed, triggers, window, promoted, inFlight, bgSlot, mark, unflagged>>

\* consumeTriggersOnTier and the LoadAndDelete of the trigger set.
ConsumeTriggers(w) ==
    LET k == wk[w].key
    IN
    /\ wk[w].pc = "claimed"
    /\ Resident(k) => k \notin suppressed
    /\ promoted' = IF wk[w].tier = "viewed" THEN promoted ELSE [promoted EXCEPT ![k] = "no"]
    /\ triggers' = triggers \ {k}
    /\ wk' = [wk EXCEPT ![w].pc = "begin", ![w].had = Resident(k), ![w].trig = k \in triggers]
    /\ UNCHANGED <<seq, ev, cellVars, viewVars, queueVars, window, inFlight, bgSlot,
                   mark, unflagged>>

\* beginWindow, and the handler's entry: its epoch and its generation.
BeginRefresh(w) ==
    LET k == wk[w].key
    IN
    /\ wk[w].pc = "begin"
    /\ window' = [window EXCEPT ![k] = Begun(@)]
    /\ wk' = [wk EXCEPT ![w].pc = "resolving", ![w].open = Open(k), ![w].start = seq]
    /\ UNCHANGED <<seq, ev, cellVars, viewVars, queueVars, triggers, promoted, inFlight,
                   bgSlot, mark, unflagged>>

\* The handler's accepted ReplaceIfGen, and the remark inside it.
Accept(w) ==
    LET k == wk[w].key
        start == wk[w].start
        again == Remarks(k, start)
    IN
    /\ wk[w].pc = "resolving" /\ wk[w].had
    /\ Resident(k) /\ ~wk[w].gone
    /\ StorePut(k, start)
    /\ window' = [window EXCEPT ![k] = AfterPut(@, start)]
    /\ mark' = IF again THEN [mark EXCEPT ![w] = [pc |-> "decide", key |-> k]] ELSE mark
    /\ wk' = [wk EXCEPT ![w].pc = "settle", ![w].out = IF again THEN "remarked" ELSE "fresh"]
    /\ UNCHANGED <<seq, ev, viewVars, queueVars, triggers, promoted, inFlight, bgSlot>>

\* No entry at the dequeue, or a Put refused because the cell left the store.
NothingToReplace(w) ==
    /\ wk[w].pc = "resolving"
    /\ ~wk[w].had \/ ~Resident(wk[w].key) \/ wk[w].gone
    /\ wk' = [wk EXCEPT ![w].pc = "settle", ![w].out = "evicted"]
    /\ UNCHANGED <<seq, ev, cellVars, viewVars, queueVars, triggers, window, promoted,
                   inFlight, bgSlot, mark, unflagged>>

\* The handler returns without a Put; some declines suppress the key.
Decline(w) ==
    LET k == wk[w].key
    IN
    /\ wk[w].pc = "resolving" /\ wk[w].had
    /\ wk' = [wk EXCEPT ![w].pc = "settle", ![w].out = "declined"]
    /\ suppressed' \in {suppressed, suppressed \cup ({k} \cap {j \in Keys : Resident(j)})}
    /\ UNCHANGED <<seq, ev, asOf, viewVars, queueVars, triggers, window, promoted,
                   inFlight, bgSlot, mark, unflagged>>

\* The handler fails: retried within the budget, else dropped, or evicted when
\* the budget ends on a missing own object.
Fail(w) ==
    LET spent == requeues[wk[w].tier][wk[w].key] >= MaxRequeues
    IN
    /\ wk[w].pc = "resolving" /\ wk[w].had
    /\ \E o \in {"dropped"} \cup IF spent THEN {"selfgone"} ELSE {"retry"} :
          wk' = [wk EXCEPT ![w].pc = "settle", ![w].out = o]
    /\ UNCHANGED <<seq, ev, cellVars, viewVars, queueVars, triggers, window, promoted,
                   inFlight, bgSlot, mark, unflagged>>

\* The trigger set after a retry.
Restored(w) == IF wk[w].trig THEN triggers \cup {wk[w].key} ELSE triggers

\* The outcome of a dispatch: the window, the budget, and the retry.  A window
\* is settled only by the dequeue that found it open.
Settle(w) ==
    LET k == wk[w].key
        t == wk[w].tier
        o == wk[w].out
    IN
    /\ wk[w].pc = "settle"
    /\ mark[w].pc = "idle"
    /\ \/ /\ o = "retry"
          /\ triggers' = Restored(w)
          /\ delayed' = Deferred(t, k)
          /\ requeues' = [requeues EXCEPT ![t][k] = @ + 1]
       \/ /\ o # "retry"
          /\ Forget(t, k)
          /\ UNCHANGED <<triggers, delayed>>
    /\ IF o = "selfgone" /\ Resident(k)
       THEN /\ RemoveCell(k)
            /\ window' = [window EXCEPT ![k] = NoWindow]
       ELSE /\ window' = IF wk[w].open THEN [window EXCEPT ![k] = Settled(@, o)] ELSE window
            /\ UNCHANGED cellVars
            /\ unflagged' = Failed(k, o, wk[w].open)
    /\ wk' = [wk EXCEPT ![w] = Ending(w)]
    /\ UNCHANGED <<seq, ev, viewVars, pending, processing, wake, viewedActive, lastViewed,
                   promoted, inFlight, bgSlot, mark>>

\* Mutant: the worker leaves the viewed tier without giving its slot back.
MutKeepsSlot(t) == viewedActive

\* Mutant: every dequeue gives a viewed slot back, whatever its tier.
MutSlotOfAnyTier(t) == viewedActive - 1

\* endViewed.
SlotsAfter(t) == IF t = "viewed" THEN viewedActive - 1 ELSE viewedActive

\* Done hands the key back to its queue; an add since its dequeue is then ready.
\* A viewed dequeue also wakes a worker for what waits in the tier, as does
\* every add to it.
GiveBack(w, adds) ==
    LET k == wk[w].key
        t == wk[w].tier
        after == [u \in Tiers |-> IF u \in adds THEN pending[u] \cup {k} ELSE pending[u]]
        waits == after["viewed"] \ (processing["viewed"] \ {k}) # {}
        others == wake \/ \E u \in {"normal", "clusterList"} : after[u] \ processing[u] # {}
    IN
    /\ pending' = after
    /\ processing' = [processing EXCEPT ![t] = @ \ {k}]
    /\ viewedActive' = SlotsAfter(t)
    /\ wake' = \/ WakeAfterAdd(adds)
               \/ t = "viewed" /\ waits /\ SlotFree(SlotsAfter(t), lastViewed, others)
    /\ wk' = [wk EXCEPT ![w] = IdleWorker]

\* A skipped or deferred dequeue: nothing but its Done.
Done(w) ==
    /\ wk[w].pc = "done"
    /\ GiveBack(w, {})
    /\ UNCHANGED <<seq, ev, cellVars, viewVars, delayed, requeues, lastViewed, triggers,
                   window, promoted, inFlight, bgSlot, mark, unflagged>>

\* Mutant: an absorbed read keeps the slot although no rerun is queued.
MutSlotAfter(k) == IF bgSlot[k] = "rerun" THEN "held" ELSE "free"

\* settleBackgroundRevalidation: a read that was absorbed earns a rerun while the
\* key is known-stale.
Reruns(k) == bgSlot[k] = "rerun" /\ KnownStale(k)
SlotAfter(k) == IF Reruns(k) THEN "held" ELSE "free"

\* The deferred calls of a refresh: settleBackgroundRevalidation, releaseInFlight
\* (a deferred dequeue is routed again), Done.
Release(w) ==
    LET k == wk[w].key
        readd == inFlight[k] = "deferred"
    IN
    /\ wk[w].pc = "release"
    /\ bgSlot' = [bgSlot EXCEPT ![k] = SlotAfter(k)]
    /\ inFlight' = [inFlight EXCEPT ![k] = "no"]
    /\ GiveBack(w, (IF Reruns(k) THEN {OwnTier(k)} ELSE {}) \cup (IF readd THEN {RouteTier(k)} ELSE {}))
    /\ UNCHANGED <<seq, ev, cellVars, viewVars, delayed, requeues, lastViewed, triggers,
                   window, promoted, mark, unflagged>>

----------------------------------------------------------------------------
Refresh(w) ==
    \/ SkipSuppressed(w) \/ Floor(w) \/ ConsumeTriggers(w) \/ BeginRefresh(w)
    \/ Accept(w) \/ NothingToReplace(w) \/ Decline(w) \/ Fail(w) \/ Settle(w)
    \/ Release(w) \/ Done(w)

Dequeue(w) ==
    \/ \E k \in Keys : TakeViewed(w, k) \/ TakeClusterList(w, k) \/ TakeNormal(w, k)
    \/ Block(w) \/ TakeWake(w) \/ CheckAndClaim(w)

DirtyMark(a) == MarkMerge(a) \/ MarkWindow(a) \/ MarkRoute(a)

\* Tabs, customers, proactive passes and evictions.
Environment(k) ==
    /\ moves < MaxMoves
    /\ moves' = moves + 1
    /\ \/ Evict(k) \/ Arm(k) \/ Disarm(k) \/ EnqueueRefresh(k) \/ RevalidateInBackground(k)
       \/ \E start \in 0..seq : CustomerPut(k, start)

System ==
    \/ \E k \in Keys : InputEvent(k) \/ PromoteOnArm(k) \/ PromoteEnqueue(k)
    \/ \E t \in Tiers, k \in Keys : DelayExpires(t, k)
    \/ \E a \in Actors : DirtyMark(a)
    \/ \E w \in Workers : Dequeue(w) \/ Refresh(w)

Next ==
    \/ System /\ UNCHANGED moves
    \/ \E k \in Keys : Environment(k)

Spec == Init /\ [][Next]_vars

----------------------------------------------------------------------------
WorkerStates ==
    [pc : {"probe", "blocked", "got", "claimed", "begin", "resolving", "settle", "release", "done"},
     key : Keys, tier : Tiers, had : BOOLEAN, trig : BOOLEAN, open : BOOLEAN, start : 0..MaxSeq,
     gone : BOOLEAN,
     out : {"none", "fresh", "remarked", "retry", "declined", "dropped", "evicted", "selfgone"}]

CellTypeOK ==
    /\ seq \in 0..MaxSeq /\ moves \in 0..MaxMoves
    /\ ev \in [Keys -> 0..MaxSeq]
    /\ asOf \in [Keys -> {NoCell} \cup 0..MaxSeq]
    /\ suppressed \subseteq Keys /\ subscribed \subseteq Keys
    /\ arm \in [Keys -> {"idle", "armed", "enqueue"}]
QueueTypeOK ==
    /\ pending \in [Tiers -> SUBSET Keys]
    /\ processing \in [Tiers -> SUBSET Keys]
    /\ delayed \in [Tiers -> SUBSET Keys]
    /\ requeues \in [Tiers -> [Keys -> 0..MaxRequeues]]
    /\ wake \in BOOLEAN /\ lastViewed \in BOOLEAN
    /\ viewedActive \in 0..Parallelism
KeyTypeOK ==
    /\ triggers \subseteq Keys /\ unflagged \subseteq Keys
    /\ window \in [Keys -> Stamps \cup {NoWindow}]
    /\ promoted \in [Keys -> {"no", "pending", "done"}]
    /\ inFlight \in [Keys -> {"no", "busy", "deferred"}]
    /\ bgSlot \in [Keys -> {"free", "held", "rerun"}]
WorkerTypeOK ==
    /\ wk \in [Workers -> WorkerStates]
    /\ mark \in [Actors -> [pc : {"idle", "decide", "window", "route"}, key : Keys]]

\* Every variable keeps its type: the count of viewed slots (beginViewed,
\* endViewed) stays within the pool, a key's requeues within processNext's budget.
TypeOK == CellTypeOK /\ QueueTypeOK /\ KeyTypeOK /\ WorkerTypeOK

\* Something will still refresh k: it waits in a tier or for a timer, a worker
\* has taken it and not settled it, its mark has not reached a queue, or its
\* arm has not added it yet.
Attended(k) ==
    \/ \E t \in Tiers : k \in pending[t] \cup delayed[t]
    \/ \E w \in Workers : wk[w].key = k /\ wk[w].pc \notin {"probe", "blocked", "release", "done"}
    \/ \E a \in Actors : mark[a].key = k /\ mark[a].pc # "idle"
    \/ arm[k] = "enqueue"
    \/ inFlight[k] = "deferred"

\* A stored body that a change overtook is known-stale or will be refreshed, for
\* every interleaving of marks, promotions, deferrals, retries and evictions
\* over the three tiers, unless its last refresh failed and found no window to
\* settle (unflagged).
NoLostRefresh ==
    \A k \in Keys :
        Resident(k) /\ asOf[k] < ev[k] => KnownStale(k) \/ Attended(k) \/ k \in unflagged

\* A window is in flight exactly while one worker refreshes its key: no outcome,
\* eviction or second tier leaves a stamp in flight with nobody to settle it.
InFlightStampOwned ==
    \A k \in Keys : window[k].inflight =>
        Cardinality({w \in Workers : /\ wk[w].key = k /\ wk[w].open
                                     /\ wk[w].pc \in {"resolving", "settle"}}) = 1

\* The reservation: with several workers one is never in viewed work.
WorkerReserved ==
    LET viewed == {w \in Workers : wk[w].tier = "viewed" /\ wk[w].pc \notin {"probe", "blocked"}}
    IN viewedActive = Cardinality(viewed) /\ (Parallelism > 1 => viewed # Workers)

\* A viewed key is never left to a pool that sleeps: when every worker is
\* blocked on the normal tier, that tier holds the wake key or work, whichever
\* way the key came (mark, promotion, timer, deferral, Done).  The exception is
\* the code's: a pool of one refuses the wake (viewedSlotFree) when its last
\* dequeue was viewed and a cluster_list key waits, which wakes nobody either.
NoStrandedViewed ==
    Ready("viewed") # {} /\ (\A w \in Workers : wk[w].pc = "blocked")
        => \/ wake \/ Ready("normal") # {}
           \/ Parallelism = 1 /\ lastViewed /\ Ready("clusterList") # {}

\* k is queued for a refresh or in a worker's hands, or a mark or an arm is about
\* to queue it.
Underway(k) ==
    \/ \E t \in Tiers : k \in pending[t] \cup delayed[t] \cup processing[t]
    \/ \E a \in Actors : mark[a].key = k /\ mark[a].pc \in {"window", "route"}
    \/ arm[k] = "enqueue"
    \/ inFlight[k] # "no"

\* A background revalidation holds its key's slot until the refresh it queued
\* settles: no outcome, retry, absorbed read or eviction leaves the slot held with
\* nothing underway.  The exception is the code's: a dequeue that
\* consumedElsewhere skips gives the key back without settling the slot.
SlotLeaksOnlyBySkip ==
    [][\A k \in Keys :
          Underway(k) /\ bgSlot'[k] # "free" =>
              \/ Underway(k)'
              \/ \E w \in Workers : wk[w].key = k /\ wk[w].pc = "done" /\ wk'[w] = IdleWorker]_vars
=============================================================================
