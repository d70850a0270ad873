----------------------------- MODULE RbacPublish -----------------------------
(***************************************************************************)
(* The published RBAC snapshot (internal/cache/rbac_snapshot.go), the        *)
(* per-subject sub-generations deferred to its publish (rbac_subgen.go,      *)
(* rbac_subgen_pending.go), the boot-window epoch (rbac_subgen_epoch.go)     *)
(* with the bindings index whose first build raises it (bindings_by_gvr.go), *)
(* and the requests that key L1 cells by them.                              *)
(*                                                                          *)
(* An edit is a change of rules that a key can only see through a sub-       *)
(* generation: of a Role or ClusterRole some binding of the subject names.   *)
(* (A binding added or removed changes the key's binding-set digest, which   *)
(* is read from the snapshot itself.)  The rules of a subject are a version; *)
(* version 1 is the object of the informer's initial list.                  *)
(*                                                                          *)
(* Init: the four informers have synced, the initial-list handlers are still *)
(* to run, nothing is published.  A step is one atomic access or one         *)
(* critical section of the index (idx.mu) or of the pending set (mu).  Every *)
(* variable is one subject's share of the code's maps, so a rebuild's reads  *)
(* of the indexers, and the bumps of its set, are one step.                 *)
(***************************************************************************)
EXTENDS Integers

CONSTANTS
    Subjects,  \* each with its role; roles and cluster roles have their own handlers
    Spawned,   \* goroutines of scheduleRBACRebuild
    Initial,   \* the goroutine of waitAndPublishInitialRBACSnapshot
    Requests,  \* requests (or seeds) of an identity-bound cell
    MaxVer,    \* bound: versions of a subject's rules
    MaxPanics  \* bound: rebuilds that panic

ASSUME ConstantsAssumption ==
    /\ Initial \notin Spawned
    /\ MaxVer \in Nat \ {0} /\ MaxPanics \in Nat

VARIABLES
    rules,      \* subject -> version in the indexer
    delivered,  \* subject -> version last handed to the snapshot handler
    handler,    \* subject -> where its handler is
    dirty, slot, \* rbacRebuildDirty, rbacRebuildLock
    writer,     \* goroutine -> where its rebuild loop is, the set it took, what it read
    pending,    \* subject -> version its pending bump is for, 0: no bump pending
    gen,        \* RBACGen() > 0
    snap,       \* subject -> version in the published snapshot, 0: none published
    subgen,     \* subject -> its counter
    epoch, note, \* rbacSubGenEpoch, rbacEventSeenPreBuild
    built, wanted, \* of the index: built, pendingNavigated # nil
    ready,      \* the readiness flip: off, asked, on
    request,    \* request -> what it does
    cell,       \* subject -> version its cell under the current key was resolved from, 0: none
    panics,
    rotated,    \* history: subject -> latest version a flushed bump was for
    noted,      \* history: subject -> latest version noted before the build
    raised,     \* history: subject -> latest version the epoch was raised for
    missed      \* history: subject -> latest version whose hook found no index,
                \* and that no epoch carries: noted too early or raised too early

indexVars == <<epoch, note, built, wanted, raised>>
loopVars == <<dirty, slot, writer>>
handlerVars == <<delivered, handler, noted, missed>>
requestVars == <<request, cell>>
vars == <<rules, handlerVars, loopVars, pending, gen, snap, subgen, rotated, indexVars, ready,
          requestVars, panics>>

Writers == Spawned \cup {Initial}
Versions == 0..MaxVer
Nothing == [s \in Subjects |-> 0]
Off == [pc |-> "off", taken |-> Nothing, seen |-> Nothing]
NoRequest == [pc |-> "idle"]

Init ==
    /\ rules = [s \in Subjects |-> 1] /\ delivered = Nothing
    /\ handler = [s \in Subjects |-> "idle"]
    /\ dirty = FALSE /\ slot = FALSE
    /\ writer = [w \in Writers |-> IF w = Initial THEN [Off EXCEPT !.pc = "mark"] ELSE Off]
    /\ pending = Nothing /\ gen = FALSE /\ snap = Nothing /\ subgen = Nothing
    /\ epoch = 0 /\ note = FALSE /\ built = FALSE /\ wanted = FALSE
    /\ ready = "off"
    /\ request = [r \in Requests |-> NoRequest]
    /\ cell = Nothing
    /\ panics = 0
    /\ rotated = Nothing /\ noted = Nothing /\ raised = Nothing /\ missed = Nothing

----------------------------------------------------------------------------
\* The informer and the snapshot handler.

\* The hook for the version being handled has not run yet.
Hooking(s) == handler[s] \in {"mark", "cas", "hook"}

\* A watch event: the object is in the indexer, its notification queued.
Edit(s) ==
    /\ rules[s] < MaxVer
    /\ rules' = [rules EXCEPT ![s] = @ + 1]
    /\ UNCHANGED <<handlerVars, loopVars, pending, gen, snap, subgen, rotated, indexVars, ready,
                   requestVars, panics>>

\* rbacSnapshotHandler: an event outside the initial list is noted while the
\* index is not built and something is published.
Deliver(s) ==
    LET v == delivered[s] + 1
    IN
    /\ handler[s] = "idle" /\ delivered[s] < rules[s]
    /\ delivered' = [delivered EXCEPT ![s] = v]
    /\ handler' = [handler EXCEPT ![s] = "mark"]
    /\ IF v > 1 /\ ~built /\ gen
       THEN note' = TRUE /\ noted' = [noted EXCEPT ![s] = v]
       ELSE UNCHANGED <<note, noted>>
    /\ UNCHANGED <<rules, missed, loopVars, pending, gen, snap, subgen, rotated, epoch, built,
                   wanted, raised, ready, requestVars, panics>>

\* scheduleRBACRebuild: dirty first,
Mark(s) ==
    /\ handler[s] \in {"mark", "remark"}
    /\ dirty' = TRUE
    /\ handler' = [handler EXCEPT ![s] = IF @ = "mark" THEN "cas" ELSE "recas"]
    /\ UNCHANGED <<rules, delivered, noted, missed, slot, writer, pending, gen, snap, subgen,
                   rotated, indexVars, ready, requestVars, panics>>

\* ... then the slot: taken, a goroutine is spawned; else its holder absorbs
\* the mark.
Cas(s) ==
    /\ handler[s] \in {"cas", "recas"}
    /\ handler' = [handler EXCEPT ![s] = IF @ = "cas" THEN "hook" ELSE "idle"]
    /\ \/ /\ slot
          /\ UNCHANGED <<slot, writer>>
       \/ /\ ~slot
          /\ slot' = TRUE
          /\ \E w \in Spawned : /\ writer[w].pc = "off"
                                /\ writer' = [writer EXCEPT ![w].pc = "clear"]
    /\ UNCHANGED <<rules, delivered, noted, missed, dirty, pending, gen, snap, subgen, rotated,
                   indexVars, ready, requestVars, panics>>

\* The delta hook: with the index built the bump is recorded and a rebuild
\* armed again.
Hook(s) ==
    /\ handler[s] = "hook"
    /\ IF built
       THEN /\ pending' = [pending EXCEPT ![s] = delivered[s]]
            /\ handler' = [handler EXCEPT ![s] = "remark"]
            /\ UNCHANGED missed
       ELSE /\ handler' = [handler EXCEPT ![s] = "idle"]
            /\ missed' = IF noted[s] = delivered[s] THEN missed
                         ELSE [missed EXCEPT ![s] = delivered[s]]
            /\ UNCHANGED pending
    /\ UNCHANGED <<rules, delivered, noted, loopVars, gen, snap, subgen, rotated, indexVars, ready,
                   requestVars, panics>>

----------------------------------------------------------------------------
\* The bindings index.

\* Mutant: every build over a snapshot raises the epoch, and the note stays.
MutBuildRaisesAgain ==
    IF snap = Nothing
    THEN wanted' = TRUE /\ UNCHANGED <<built, note, epoch, raised, missed, cell>>
    ELSE /\ built' = TRUE /\ wanted' = FALSE
         /\ epoch' = IF note THEN epoch + 1 ELSE epoch
         /\ UNCHANGED <<note, raised, missed, cell>>

\* BuildBindingsByGVRIndex: deferred without a snapshot; the first real build
\* takes the note and raises the epoch.
Build ==
    IF snap = Nothing
    THEN wanted' = TRUE /\ UNCHANGED <<built, note, epoch, raised, missed, cell>>
    ELSE /\ built' = TRUE /\ wanted' = FALSE
         /\ IF ~built /\ note
            THEN /\ note' = FALSE /\ epoch' = epoch + 1
                 /\ cell' = Nothing
                 /\ raised' = noted
                 /\ missed' = [s \in Subjects |->
                       IF noted[s] > snap[s] /\ ~(delivered[s] = noted[s] /\ Hooking(s))
                       THEN noted[s] ELSE missed[s]]
            ELSE UNCHANGED <<note, epoch, raised, missed, cell>>

\* buildPendingBindingsIndex.
BuildPending ==
    IF wanted /\ ~built THEN Build ELSE UNCHANGED <<indexVars, missed, cell>>

InitialPublishReturned == writer[Initial].pc = "done"

\* Step 3 of the engine's boot pass.
EngineBuild ==
    /\ Build
    /\ UNCHANGED <<rules, delivered, handler, noted, loopVars, pending, gen, snap, subgen, rotated,
                   ready, request, panics>>

\* settleBindingsIndexBeforeReady: built over a complete snapshot, or asked for
\* (requestBindingsIndexBuild),
ReadySettle ==
    /\ ready = "off"
    /\ IF ~built /\ snap # Nothing /\ InitialPublishReturned
       THEN Build /\ ready' = "on"
       ELSE /\ ready' = IF built THEN "on" ELSE "asked"
            /\ wanted' = (wanted \/ ~built)
            /\ UNCHANGED <<built, note, epoch, raised, missed, cell>>
    /\ UNCHANGED <<rules, delivered, handler, noted, loopVars, pending, gen, snap, subgen, rotated,
                   request, panics>>

\* ... and looked at once more.
ReadyRecheck ==
    /\ ready = "asked"
    /\ ready' = "on"
    /\ IF snap # Nothing /\ InitialPublishReturned THEN BuildPending
       ELSE UNCHANGED <<indexVars, missed, cell>>
    /\ UNCHANGED <<rules, delivered, handler, noted, loopVars, pending, gen, snap, subgen, rotated,
                   request, panics>>

----------------------------------------------------------------------------
\* The rebuild loop.

Go(w, pc) == writer' = [writer EXCEPT ![w].pc = pc]

\* The loop returns: a spawned goroutine ends, the initial publisher goes on.
Returned(w) == IF w = Initial THEN "settle" ELSE "off"

\* publishRBACSnapshotUnderSlot marks, then waits for the slot.
InitialMark ==
    /\ writer[Initial].pc = "mark"
    /\ dirty' = TRUE
    /\ Go(Initial, "wait")
    /\ UNCHANGED <<rules, handlerVars, slot, pending, gen, snap, subgen, rotated, indexVars, ready,
                   requestVars, panics>>

\* Mutant: the initial publish does not wait for the slot, as before #687.
MutInitialCas ==
    /\ writer[Initial].pc = "wait"
    /\ slot' = TRUE
    /\ Go(Initial, "clear")
    /\ UNCHANGED <<rules, handlerVars, dirty, pending, gen, snap, subgen, rotated, indexVars,
                   ready, requestVars, panics>>

InitialCas ==
    /\ writer[Initial].pc = "wait" /\ ~slot
    /\ slot' = TRUE
    /\ Go(Initial, "clear")
    /\ UNCHANGED <<rules, handlerVars, dirty, pending, gen, snap, subgen, rotated, indexVars,
                   ready, requestVars, panics>>

\* drainRBACRebuild clears the mark before it rebuilds,
Clear(w) ==
    /\ writer[w].pc = "clear"
    /\ dirty' = FALSE
    /\ Go(w, "take")
    /\ UNCHANGED <<rules, handlerVars, slot, pending, gen, snap, subgen, rotated, indexVars, ready,
                   requestVars, panics>>

\* ... takes the pending set,
Take(w) ==
    /\ writer[w].pc = "take"
    /\ writer' = [writer EXCEPT ![w].pc = "read", ![w].taken = pending]
    /\ pending' = Nothing
    /\ UNCHANGED <<rules, handlerVars, dirty, slot, gen, snap, subgen, rotated, indexVars, ready,
                   requestVars, panics>>

\* ... reads the indexers,
Read(w) ==
    /\ writer[w].pc = "read"
    /\ writer' = [writer EXCEPT ![w].pc = "stamp", ![w].seen = rules]
    /\ UNCHANGED <<rules, handlerVars, dirty, slot, pending, gen, snap, subgen, rotated, indexVars,
                   ready, requestVars, panics>>

\* ... stamps,
Stamp(w) ==
    /\ writer[w].pc = "stamp"
    /\ gen' = TRUE
    /\ Go(w, "store")
    /\ UNCHANGED <<rules, handlerVars, dirty, slot, pending, snap, subgen, rotated, indexVars, ready,
                   requestVars, panics>>

\* ... publishes,
Store(w) ==
    /\ writer[w].pc = "store"
    /\ snap' = writer[w].seen
    /\ writer' = [writer EXCEPT ![w].pc = "build", ![w].seen = Nothing]
    /\ UNCHANGED <<rules, handlerVars, dirty, slot, pending, gen, subgen, rotated, indexVars, ready,
                   requestVars, panics>>

\* ... runs a deferred build,
BuildDeferred(w) ==
    /\ writer[w].pc = "build"
    /\ IF InitialPublishReturned THEN BuildPending ELSE UNCHANGED <<indexVars, missed, cell>>
    /\ Go(w, "flush")
    /\ UNCHANGED <<rules, delivered, handler, noted, dirty, slot, pending, gen, snap, subgen,
                   rotated, ready, request, panics>>

\* Mutant: the set is drained at the flush, as before #703.
MutFlush(w) ==
    LET taken == [s \in Subjects |-> IF pending[s] > 0 THEN pending[s] ELSE writer[w].taken[s]]
    IN
    /\ writer[w].pc = "flush"
    /\ subgen' = [s \in Subjects |-> IF taken[s] > 0 THEN subgen[s] + 1 ELSE subgen[s]]
    /\ cell' = [s \in Subjects |-> IF taken[s] > 0 THEN 0 ELSE cell[s]]
    /\ rotated' = [s \in Subjects |-> IF taken[s] > 0 THEN taken[s] ELSE rotated[s]]
    /\ writer' = [writer EXCEPT ![w].pc = "check", ![w].taken = Nothing]
    /\ pending' = Nothing
    /\ UNCHANGED <<rules, handlerVars, dirty, slot, gen, snap, indexVars, ready, request, panics>>

\* ... and bumps the set it took.
Flush(w) ==
    LET taken == writer[w].taken
    IN
    /\ writer[w].pc = "flush"
    /\ subgen' = [s \in Subjects |-> IF taken[s] > 0 THEN subgen[s] + 1 ELSE subgen[s]]
    /\ cell' = [s \in Subjects |-> IF taken[s] > 0 THEN 0 ELSE cell[s]]
    /\ rotated' = [s \in Subjects |-> IF taken[s] > 0 THEN taken[s] ELSE rotated[s]]
    /\ writer' = [writer EXCEPT ![w].pc = "check", ![w].taken = Nothing]
    /\ UNCHANGED <<rules, handlerVars, dirty, slot, pending, gen, snap, indexVars, ready,
                   request, panics>>

\* Mutant: the taken set is lost.
MutRestored(taken) == pending

\* Restored: a taken set ORed into what was recorded since.
Restored(taken) ==
    [s \in Subjects |-> IF pending[s] > 0 THEN pending[s] ELSE taken[s]]

\* Mutant: a panic withdraws the snapshot, to deny until the next one.
MutPanic(w) ==
    /\ panics < MaxPanics
    /\ panics' = panics + 1
    /\ writer[w].pc \in {"read", "stamp", "store", "build"}
    /\ pending' = Restored(writer[w].taken)
    /\ dirty' = TRUE
    /\ snap' = Nothing
    /\ writer' = [writer EXCEPT ![w] = [Off EXCEPT !.pc = "release"]]
    /\ UNCHANGED <<rules, handlerVars, slot, gen, subgen, rotated, indexVars, ready, requestVars>>

\* A rebuild that panics before its flush puts its set back and marks dirty.
Panic(w) ==
    /\ panics < MaxPanics
    /\ panics' = panics + 1
    /\ writer[w].pc \in {"read", "stamp", "store", "build"}
    /\ pending' = Restored(writer[w].taken)
    /\ dirty' = TRUE
    /\ writer' = [writer EXCEPT ![w] = [Off EXCEPT !.pc = "release"]]
    /\ UNCHANGED <<rules, handlerVars, slot, gen, snap, subgen, rotated, indexVars, ready,
                   requestVars>>

\* The loop of drainRBACRebuild,
Check(w) ==
    /\ writer[w].pc = "check"
    /\ Go(w, IF dirty THEN "clear" ELSE "release")
    /\ UNCHANGED <<rules, handlerVars, dirty, slot, pending, gen, snap, subgen, rotated, indexVars,
                   ready, requestVars, panics>>

\* ... and of runRBACRebuildLoop: the slot is released, then the mark read again.
Release(w) ==
    /\ writer[w].pc = "release"
    /\ slot' = FALSE
    /\ Go(w, "recheck")
    /\ UNCHANGED <<rules, handlerVars, dirty, pending, gen, snap, subgen, rotated, indexVars, ready,
                   requestVars, panics>>

\* Mutant: the loop ends with the release, as before #687.
MutRecheck(w) ==
    /\ writer[w].pc = "recheck"
    /\ Go(w, Returned(w))
    /\ UNCHANGED <<rules, handlerVars, dirty, slot, pending, gen, snap, subgen, rotated, indexVars,
                   ready, requestVars, panics>>

Recheck(w) ==
    /\ writer[w].pc = "recheck"
    /\ Go(w, IF dirty THEN "reacquire" ELSE Returned(w))
    /\ UNCHANGED <<rules, handlerVars, dirty, slot, pending, gen, snap, subgen, rotated, indexVars,
                   ready, requestVars, panics>>

Reacquire(w) ==
    /\ writer[w].pc = "reacquire"
    /\ slot' = TRUE
    /\ Go(w, IF slot THEN Returned(w) ELSE "clear")
    /\ UNCHANGED <<rules, handlerVars, dirty, pending, gen, snap, subgen, rotated, indexVars, ready,
                   requestVars, panics>>

\* The initial publisher runs a deferred build,
InitialSettle ==
    /\ writer[Initial].pc = "settle"
    /\ BuildPending
    /\ Go(Initial, "close")
    /\ UNCHANGED <<rules, delivered, handler, noted, dirty, slot, pending, gen, snap, subgen,
                   rotated, ready, request, panics>>

\* ... and is done.
InitialClose ==
    /\ writer[Initial].pc = "close"
    /\ Go(Initial, "done")
    /\ UNCHANGED <<rules, handlerVars, dirty, slot, pending, gen, snap, subgen, rotated, indexVars,
                   ready, requestVars, panics>>

----------------------------------------------------------------------------
\* Requests.

\* RBACSubGenForSubject.
RBACSubGen(s) == subgen[s] + epoch

\* The key is minted before the resolve; without a snapshot there is no
\* binding and nothing is cached.
Mint(r, s) ==
    /\ request[r] = NoRequest /\ snap # Nothing
    /\ request' = [request EXCEPT ![r] = [pc |-> "resolve", subject |-> s, key |-> RBACSubGen(s),
                                          body |-> 0]]
    /\ UNCHANGED <<rules, handlerVars, loopVars, pending, gen, snap, subgen, rotated, indexVars,
                   ready, cell, panics>>

\* EvaluateRBAC loads the snapshot.  (Later loads are newer.)
Resolve(r) ==
    /\ request[r].pc = "resolve"
    /\ request' = [request EXCEPT ![r].pc = "guard", ![r].body = snap[request[r].subject]]
    /\ UNCHANGED <<rules, handlerVars, loopVars, pending, gen, snap, subgen, rotated, indexVars,
                   ready, cell, panics>>

\* identityClassDrift, after the resolve: a key of another class is not written.
Guard(r) ==
    /\ request[r].pc = "guard"
    /\ request' = [request EXCEPT ![r] =
                     IF RBACSubGen(@.subject) = @.key THEN [@ EXCEPT !.pc = "put"] ELSE NoRequest]
    /\ UNCHANGED <<rules, handlerVars, loopVars, pending, gen, snap, subgen, rotated, indexVars,
                   ready, cell, panics>>

\* A cell under a key that has rotated since is out of every request's reach.
Put(r) ==
    LET q == request[r]
    IN
    /\ q.pc = "put"
    /\ request' = [request EXCEPT ![r] = NoRequest]
    /\ cell' = IF q.key = RBACSubGen(q.subject) THEN [cell EXCEPT ![q.subject] = q.body] ELSE cell
    /\ UNCHANGED <<rules, handlerVars, loopVars, pending, gen, snap, subgen, rotated, indexVars,
                   ready, panics>>

----------------------------------------------------------------------------
Handle(s) == Deliver(s) \/ Mark(s) \/ Cas(s) \/ Hook(s)

Rebuild(w) ==
    \/ Clear(w) \/ Take(w) \/ Read(w) \/ Stamp(w) \/ Store(w) \/ BuildDeferred(w) \/ Flush(w)
    \/ Check(w) \/ Release(w) \/ Recheck(w) \/ Reacquire(w)

Publish == InitialMark \/ InitialCas \/ InitialSettle \/ InitialClose

Serve(r) == Resolve(r) \/ Guard(r) \/ Put(r) \/ \E s \in Subjects : Mint(r, s)

Next ==
    \/ \E s \in Subjects : Edit(s) \/ Handle(s)
    \/ \E w \in Writers : Rebuild(w) \/ Panic(w)
    \/ Publish \/ EngineBuild \/ ReadySettle \/ ReadyRecheck
    \/ \E r \in Requests : Serve(r)

Spec == Init /\ [][Next]_vars

----------------------------------------------------------------------------
Holding == {"clear", "take", "read", "stamp", "store", "build", "flush", "check", "release"}

WriterStates == [pc : Holding \cup {"off", "mark", "wait", "recheck", "reacquire", "settle", "close",
                                    "done"},
                 taken : [Subjects -> Versions], seen : [Subjects -> Versions]]

RequestStates == {NoRequest} \cup [pc : {"resolve", "guard", "put"}, subject : Subjects, key : Nat,
                                  body : Versions]

\* Everything has its type.
TypeOK ==
    /\ rules \in [Subjects -> Versions] /\ delivered \in [Subjects -> Versions]
    /\ handler \in [Subjects -> {"idle", "mark", "cas", "hook", "remark", "recas"}]
    /\ dirty \in BOOLEAN /\ slot \in BOOLEAN
    /\ writer \in [Writers -> WriterStates]
    /\ pending \in [Subjects -> Versions] /\ snap \in [Subjects -> Versions]
    /\ gen \in BOOLEAN /\ note \in BOOLEAN /\ built \in BOOLEAN /\ wanted \in BOOLEAN
    /\ subgen \in [Subjects -> Nat] /\ epoch \in 0..1
    /\ ready \in {"off", "asked", "on"}
    /\ request \in [Requests -> RequestStates]
    /\ cell \in [Subjects -> Versions]
    /\ panics \in 0..MaxPanics
    /\ rotated \in [Subjects -> Versions] /\ noted \in [Subjects -> Versions]
    /\ raised \in [Subjects -> Versions] /\ missed \in [Subjects -> Versions]

\* At most one rebuild runs, and the slot is held exactly while one does (#687).
OneRebuild ==
    /\ slot <=> \E w \in Writers : writer[w].pc \in Holding
    /\ \A v, w \in Writers : writer[v].pc \in Holding /\ writer[w].pc \in Holding => v = w

\* Somebody will still look at the dirty mark.
Drained ==
    \/ \E w \in Writers : writer[w].pc \in (Holding \cup {"recheck", "reacquire", "wait"})
    \/ \E s \in Subjects : handler[s] \in {"cas", "recas"}

\* The rules of s are still to be read by a rebuild, or read and not published.
PublishAhead(s) ==
    \/ delivered[s] < rules[s] \/ handler[s] = "mark" \/ dirty
    \/ \E w \in Writers : \/ writer[w].pc \in {"take", "read"}
                           \/ (writer[w].pc \in {"stamp", "store"} /\ writer[w].seen[s] = rules[s])

\* The bump of s is still to be taken.
TakeAhead(s) == dirty \/ handler[s] = "remark" \/ \E w \in Writers : writer[w].pc = "take"

\* No wakeup is lost (#687): a mark always has somebody to look at it.  And
\* no edit or bump is forgotten: one that is not published (not taken) still
\* has its handler ahead, its mark set, or a rebuild that will read it.
NoLostWakeup ==
    /\ dirty => Drained
    /\ \A s \in Subjects : /\ snap[s] < rules[s] => PublishAhead(s)
                           /\ pending[s] > 0 => TakeAhead(s)

\* A bump never runs ahead of its content (#703): the key rotates for an edit
\* only when the published snapshot contains it.
BumpCarriesContent == \A s \in Subjects : rotated[s] <= snap[s]

\* The rotation that takes a stale cell of s out of reach is still to come.
RotationAhead(s) ==
    \/ delivered[s] < rules[s] \/ Hooking(s)
    \/ pending[s] = rules[s] \/ \E w \in Writers : writer[w].taken[s] = rules[s]
    \/ note /\ noted[s] = rules[s]

\* A cell older than the rules does not stay in reach: its rotation is still to
\* come, unless the edit was handled before the index was built and fell into
\* one of the two windows of the epoch (missed).
StaleCellUnreachable ==
    \A s \in Subjects : 0 < cell[s] /\ cell[s] < rules[s] =>
        RotationAhead(s) \/ missed[s] = rules[s]

\* What the comment of the epoch promises: an edit handled before the index is
\* built needs no note before the first publish, or is noted, and the epoch
\* then takes the cells resolved without it out of reach.
BootEditsRotate ==
    \A s \in Subjects : 0 < cell[s] /\ cell[s] < rules[s] => RotationAhead(s)

\* No publish takes a change back (#687): the snapshot of an earlier read is
\* never stored over a later one's.
SnapshotMonotone == [][\A s \in Subjects : snap[s] <= snap'[s]]_vars
=============================================================================
