------------------------------ MODULE StoreSwap ------------------------------
(***************************************************************************)
(* Replacing the store of a watched type while it is served                  *)
(* (internal/cache/store_swap.go, store_instance.go, the accounts of         *)
(* store_swap_ledger.go): a copy of the informer is built beside the live    *)
(* one, installed when it has synced, the old copies are stopped and waited  *)
(* for, the new one is unmuted in its listener's order and what it holds     *)
(* differently from what the consumer last acted on is delivered.            *)
(*                                                                          *)
(* One object of one type and one consumer (the dep handler): keys and       *)
(* handlers have their own records and queues.  The object's history is a    *)
(* sequence of versions; in some it does not exist (gone).  A body is a      *)
(* version and the schema it was read under; copies that read the same       *)
(* version under the same schema hold equal bytes.  A copy writes a version  *)
(* once, so within a copy identity is equality of bodies.                    *)
(*                                                                          *)
(* Atomicity.  A step is a critical section of rw.mu, of an adapter or of    *)
(* the informer's indexer, a send to the listener, or a call of the          *)
(* consumer.  The informer (client-go) writes its store first and notifies   *)
(* its listener in a second step; when it is stopped, the listener finishes  *)
(* the call it is in and what is still queued is dropped.                    *)
(***************************************************************************)
EXTENDS Integers, Sequences, FiniteSets

CONSTANTS
    MaxVer,      \* bound: versions of the object
    MaxSchema,   \* bound: schema changes of the type's CRD
    MaxBuilds,   \* bound: copies constructed
    MaxMoves     \* bound: writes, requests, clean passes and teardowns

ASSUME ConstantsAssumption ==
    MaxVer \in Nat /\ MaxSchema \in Nat /\ MaxBuilds \in Nat /\ MaxMoves \in Nat

VARIABLES
    gone,       \* the versions in which the object does not exist
    server,     \* its version at the apiserver
    schema,     \* the schema in force
    pos,        \* copy -> the version its reflector has reached, -1: not listed
    store,      \* copy -> the body in its indexer
    out,        \* copy -> written to the indexer, not yet sent to the listener
    queue,      \* copy -> its listener's notifications
    busy,       \* copy -> the call of the consumer its listener is in
    muted, seen, suppress,  \* copy -> its handlerAdapter
    stopped, done,          \* copy -> stop is closed, its Run has returned
    acted,      \* actedRecord: survives swaps
    consumer,   \* what the consumer was last called with
    live,       \* rw.instances: the live copy, or NoCopy after a teardown
    build,      \* rw.builds: the candidate and its account, or NoBuild
    built,      \* copies constructed so far
    retiring,   \* rw.retiring
    swap,       \* copy -> where its sync goroutine (installBuild) is
    waits,      \* copy -> the retiring copies that goroutine waits for
    inM,        \* copy -> the object is in its M
    account,    \* copy -> the account it installed with, or NoCopy
    passed,     \* copy -> passedSt3
    comparator, \* comparatorRecord
    reasons,    \* account -> its requests
    clean,      \* the account a clean pass is about to take divergence out of
    asked,      \* request -> its reason
    ended,      \* requests whose accounting has ended
    moves,      \* how many such steps were taken
    behind,     \* history: copy -> it was unmuted with an older body than the consumer's
    blurred     \* history: copy -> an absence was taken for an older one, which has no identity

objectVars == <<gone, server, schema>>
informerVars == <<pos, store, out>>
adapterVars == <<queue, busy, muted, seen, suppress, acted, consumer, blurred>>
runVars == <<stopped, done>>
swapVars == <<swap, waits, inM, account, passed, comparator, behind>>
buildVars == <<live, build, built, retiring>>
accountVars == <<reasons, clean, asked, ended>>
vars == <<objectVars, informerVars, adapterVars, runVars, swapVars, buildVars, accountVars, moves>>

Versions == 0..MaxVer
Copies == 0..MaxBuilds
NoCopy == -1
NoBuild == [inst |-> NoCopy, acc |-> NoCopy]
NoObject == [ver |-> -1, sch |-> 0]
Idle == [pc |-> "idle", obj |-> NoObject]
Note(o) == [kind |-> "note", obj |-> o]
Signal(k) == [kind |-> k, obj |-> NoObject]

Absent(o) == o.ver \in gone \cup {-1}

\* sameBytes, with presence.
Same(a, b) == IF Absent(a) \/ Absent(b) THEN Absent(a) /\ Absent(b) ELSE a = b

Body(v) == [ver |-> v, sch |-> schema]

Constructed == {c \in Copies : c < built}

\* Copy 0 was registered and has delivered the object; no build is open.
Init ==
    /\ gone \in {g \in SUBSET Versions : \A v \in g : v + 1 \notin g}
    /\ server = 0 /\ schema = 0
    /\ pos = [c \in Copies |-> IF c = 0 THEN 0 ELSE -1]
    /\ store = [c \in Copies |-> IF c = 0 THEN Body(0) ELSE NoObject]
    /\ out = [c \in Copies |-> NoObject]
    /\ queue = [c \in Copies |-> <<>>]
    /\ busy = [c \in Copies |-> Idle]
    /\ muted = [c \in Copies |-> c # 0]
    /\ seen = store
    /\ suppress = [c \in Copies |-> Signal("none")]
    /\ stopped = [c \in Copies |-> FALSE] /\ done = [c \in Copies |-> FALSE]
    /\ acted = Body(0) /\ consumer = Body(0)
    /\ live = 0 /\ build = NoBuild /\ built = 1 /\ retiring = {}
    /\ swap = [c \in Copies |-> "off"]
    /\ waits = [c \in Copies |-> {}]
    /\ inM = [c \in Copies |-> FALSE]
    /\ account = [c \in Copies |-> NoCopy]
    /\ passed = [c \in Copies |-> FALSE]
    /\ comparator = 0
    /\ reasons = [c \in Copies |-> {}]
    /\ clean = NoCopy /\ asked = <<>> /\ ended = {} /\ moves = 0
    /\ behind = [c \in Copies |-> FALSE] /\ blurred = [c \in Copies |-> FALSE]

----------------------------------------------------------------------------
\* The apiserver and the informers.

Write ==
    /\ server < MaxVer
    /\ server' = server + 1
    /\ UNCHANGED <<gone, schema, informerVars, adapterVars, runVars, swapVars, buildVars, accountVars>>

\* The first LIST of a copy; it may be answered from an older state (F8).  The
\* copy has synced once the object is in its store and sent to its listener.
List(c, v) ==
    /\ c \in Constructed /\ pos[c] = -1 /\ ~stopped[c]
    /\ v <= server
    /\ pos' = [pos EXCEPT ![c] = v]
    /\ store' = [store EXCEPT ![c] = Body(v)]
    /\ queue' = [queue EXCEPT ![c] = IF v \in gone THEN @ ELSE Append(@, Note(Body(v)))]
    /\ UNCHANGED <<objectVars, out, busy, muted, seen, suppress, acted, consumer, blurred, runVars,
                   swapVars, buildVars, accountVars>>

\* The next watch event is written to the indexer.  It may be late for as long as
\* the copy lives: then the copy has lost it and differs from the apiserver.  (An
\* event that meets the stop is one that came before it.)
Watch(c) ==
    /\ pos[c] # -1 /\ pos[c] < server /\ ~stopped[c]
    /\ out[c] = NoObject
    /\ pos' = [pos EXCEPT ![c] = @ + 1]
    /\ store' = [store EXCEPT ![c] = Body(pos[c] + 1)]
    /\ out' = [out EXCEPT ![c] = Body(pos[c] + 1)]
    /\ UNCHANGED <<objectVars, adapterVars, runVars, swapVars, buildVars, accountVars>>

\* A send to the listener of a copy whose Run has returned goes nowhere.
Sent(c, n) == [queue EXCEPT ![c] = IF done[c] THEN @ ELSE Append(@, n)]

Distribute(c) ==
    /\ out[c] # NoObject
    /\ queue' = Sent(c, Note(out[c]))
    /\ out' = [out EXCEPT ![c] = NoObject]
    /\ UNCHANGED <<objectVars, pos, store, busy, muted, seen, suppress, acted, consumer, blurred,
                   runVars, swapVars, buildVars, accountVars>>

\* runInformer: Run returns when the listener's call has returned; the adapter
\* is freed and done closed.  Nobody is told again what the copy's store holds.
RunReturns(c) ==
    /\ stopped[c] /\ ~done[c] /\ busy[c] = Idle
    /\ done' = [done EXCEPT ![c] = TRUE]
    /\ queue' = [queue EXCEPT ![c] = <<>>]
    /\ seen' = [seen EXCEPT ![c] = NoObject]
    /\ suppress' = [suppress EXCEPT ![c] = Signal("none")]
    /\ pos' = [pos EXCEPT ![c] = -1]
    /\ store' = [store EXCEPT ![c] = NoObject] /\ out' = [out EXCEPT ![c] = NoObject]
    /\ muted' = [muted EXCEPT ![c] = TRUE] /\ blurred' = [blurred EXCEPT ![c] = FALSE]
    /\ UNCHANGED <<objectVars, busy, acted, consumer, stopped, swapVars, buildVars, accountVars>>

----------------------------------------------------------------------------
\* The adapter, on its copy's listener goroutine.

First(c) == Head(queue[c])
Takes(c, kind) == /\ ~done[c] /\ busy[c] = Idle /\ queue[c] # <<>> /\ First(c).kind = kind
                  /\ queue' = [queue EXCEPT ![c] = Tail(@)]

\* suppressTarget.matches: the body's own notification, any delete for an
\* absent one.
Matches(target, o) == Same(target, o)

Suppressing(c) == suppress[c].kind = "note"

\* deliver: until S's own notification arrives, seen only.
DeliverSuppressed(c) ==
    LET o == First(c).obj
        ends == Matches(suppress[c].obj, o)
    IN
    /\ Takes(c, "note") /\ Suppressing(c)
    /\ seen' = [seen EXCEPT ![c] = o]
    /\ suppress' = [suppress EXCEPT ![c] = IF ends THEN Signal("none") ELSE @]
    /\ blurred' = [blurred EXCEPT ![c] = @ \/ (ends /\ o # suppress[c].obj)]
    /\ UNCHANGED <<objectVars, informerVars, busy, muted, acted, consumer, runVars, swapVars,
                   buildVars, accountVars>>

\* deliver, muted: seen only.
DeliverMuted(c) ==
    /\ Takes(c, "note") /\ ~Suppressing(c) /\ muted[c]
    /\ seen' = [seen EXCEPT ![c] = First(c).obj]
    /\ UNCHANGED <<objectVars, informerVars, busy, muted, suppress, acted, consumer, blurred, runVars,
                   swapVars, buildVars, accountVars>>

\* deliver, live: the consumer is called (callInner); the call lasts until Record.
DeliverLive(c) ==
    /\ Takes(c, "note") /\ ~Suppressing(c) /\ ~muted[c]
    /\ consumer' = First(c).obj
    /\ busy' = [busy EXCEPT ![c] = [pc |-> "call", obj |-> First(c).obj]]
    /\ UNCHANGED <<objectVars, informerVars, muted, seen, suppress, acted, blurred, runVars, swapVars,
                   buildVars, accountVars>>

\* OnUpdate(swapUnmute).
UnmuteArrives(c) ==
    /\ Takes(c, "unmute")
    /\ muted' = [muted EXCEPT ![c] = FALSE]
    /\ UNCHANGED <<objectVars, informerVars, busy, seen, suppress, acted, consumer, blurred, runVars,
                   swapVars, buildVars, accountVars>>

\* swapDeliver: nothing to do when the consumer has acted on what the store holds
\* (C1, sameDelivered).
SwapSkipped(c) ==
    /\ Takes(c, "swap") /\ Same(acted, store[c])
    /\ UNCHANGED <<objectVars, informerVars, busy, muted, seen, suppress, acted, consumer, blurred,
                   runVars, swapVars, buildVars, accountVars>>

\* swapDeliver: the consumer is called with what the store holds.
SwapDeliver(c) ==
    /\ Takes(c, "swap") /\ ~Same(acted, store[c])
    /\ consumer' = store[c]
    /\ busy' = [busy EXCEPT ![c] = [pc |-> "swapCall", obj |-> store[c]]]
    /\ UNCHANGED <<objectVars, informerVars, muted, seen, suppress, acted, blurred, runVars, swapVars,
                   buildVars, accountVars>>

\* deliver's end: acted, then seen.
Record(c) ==
    /\ busy[c].pc = "call"
    /\ acted' = busy[c].obj
    /\ seen' = [seen EXCEPT ![c] = busy[c].obj]
    /\ busy' = [busy EXCEPT ![c] = Idle]
    /\ UNCHANGED <<objectVars, informerVars, queue, muted, suppress, consumer, blurred, runVars,
                   swapVars, buildVars, accountVars>>

\* Mutant: the notification of S still queued behind the swap delivery, and
\* those before it, reach the consumer.
MutSuppressed(c, s) == Signal("none")

\* swapDeliver's end: S's own notification is still queued unless seen is S.
SuppressedAfter(c, s) == IF Same(seen[c], s) THEN suppress[c] ELSE Note(s)

SwapRecord(c) ==
    /\ busy[c].pc = "swapCall"
    /\ acted' = busy[c].obj
    /\ suppress' = [suppress EXCEPT ![c] = SuppressedAfter(c, busy[c].obj)]
    /\ busy' = [busy EXCEPT ![c] = Idle]
    /\ blurred' = [blurred EXCEPT ![c] = @ \/ (Same(seen[c], busy[c].obj) /\ seen[c] # busy[c].obj)]
    /\ UNCHANGED <<objectVars, informerVars, queue, muted, seen, consumer, runVars, swapVars, buildVars,
                   accountVars>>

----------------------------------------------------------------------------
\* Requests for a build and their ends without a swap.

HasReason(a, r) == \E i \in reasons[a] : asked[i] = r
Only(a, r) == \A i \in reasons[a] : asked[i] = r

\* constructCandidateLocked: a muted copy and the goroutine that installs it.
Construct ==
    /\ built <= MaxBuilds
    /\ built' = built + 1
    /\ swap' = [swap EXCEPT ![built] = "sync"]

\* requestStoreBuildBound.  A divergence joins the open build; a schema change
\* supersedes its copy, which listed under the old schema.  The request's copy
\* is the live one under the same lock.
RequestBuild(reason) ==
    LET id == Len(asked) + 1
        acc == IF build = NoBuild THEN built ELSE build.acc
    IN
    /\ live # NoCopy
    /\ asked' = Append(asked, reason)
    /\ reasons' = [reasons EXCEPT ![acc] = @ \cup {id}]
    /\ IF build = NoBuild \/ reason = "schema"
       THEN /\ Construct
            /\ build' = [inst |-> built, acc |-> acc]
            /\ stopped' = IF build = NoBuild THEN stopped ELSE [stopped EXCEPT ![build.inst] = TRUE]
       ELSE UNCHANGED <<built, swap, build, stopped>>
    /\ UNCHANGED <<gone, server, informerVars, adapterVars, done, waits, inM, account, passed,
                   comparator, behind, live, retiring, clean, ended>>

RequestDivergence == RequestBuild("divergence") /\ UNCHANGED schema

\* triggerCRDSchemaRelist: the CRD's schema has changed.
RequestSchema ==
    /\ schema < MaxSchema
    /\ schema' = schema + 1
    /\ RequestBuild("schema")

\* abortBuildLocked.
Abort ==
    /\ build' = NoBuild
    /\ stopped' = [stopped EXCEPT ![build.inst] = TRUE]

\* noteCleanPass under rw.mu: the build aborts when divergence is its only reason.
CleanPass ==
    /\ live # NoCopy /\ build # NoBuild /\ clean = NoCopy
    /\ HasReason(build.acc, "divergence")
    /\ clean' = build.acc
    /\ IF Only(build.acc, "divergence") THEN Abort ELSE UNCHANGED <<build, stopped>>
    /\ UNCHANGED <<objectVars, informerVars, adapterVars, done, swapVars, live, built, retiring,
                   reasons, asked, ended>>

\* endReason, after the unlock: also what joined in between.
CleanPassEnds ==
    LET gives == {i \in reasons[clean] : asked[i] = "divergence"}
    IN
    /\ clean # NoCopy
    /\ reasons' = [reasons EXCEPT ![clean] = @ \ gives]
    /\ ended' = ended \cup gives
    /\ clean' = NoCopy
    /\ UNCHANGED <<objectVars, informerVars, adapterVars, runVars, swapVars, buildVars, asked>>

\* watchErrorHandlerForInstance: a LIST of the candidate is refused.
ListRefused(c) ==
    /\ build.inst = c
    /\ Abort
    /\ ended' = ended \cup reasons[build.acc]
    /\ reasons' = [reasons EXCEPT ![build.acc] = {}]
    /\ UNCHANGED <<objectVars, informerVars, adapterVars, done, swapVars, live, built, retiring,
                   clean, asked>>

\* removeResourceTypeWithReason: every copy is stopped, the open accounts end.
Teardown ==
    LET open == (IF build = NoBuild THEN {} ELSE {build.acc})
                \cup (IF passed[live] \/ account[live] = NoCopy THEN {} ELSE {account[live]})
    IN
    /\ live # NoCopy
    /\ live' = NoCopy /\ build' = NoBuild /\ retiring' = {}
    /\ stopped' = [c \in Copies |-> stopped[c] \/ c \in retiring \cup {live, build.inst}]
    /\ account' = [account EXCEPT ![live] = IF passed[live] THEN @ ELSE NoCopy]
    /\ comparator' = IF comparator = live THEN NoCopy ELSE comparator
    /\ ended' = ended \cup UNION {reasons[a] : a \in open}
    /\ reasons' = [a \in Copies |-> IF a \in open THEN {} ELSE reasons[a]]
    /\ UNCHANGED <<objectVars, informerVars, adapterVars, done, swap, waits, inM, passed, behind,
                   built, clean, asked>>

----------------------------------------------------------------------------
\* installBuild, on the candidate's sync goroutine.

At(c, p, q) == swap[c] = p /\ swap' = [swap EXCEPT ![c] = q]

\* The copy was stopped before it could be installed.
GiveUp(c) ==
    /\ At(c, "sync", "off") /\ stopped[c]
    /\ UNCHANGED <<objectVars, informerVars, adapterVars, runVars, waits, inM, account, passed,
                   comparator, behind, buildVars, accountVars>>

\* Mutant: the account of an install that will not deliver is not taken over.
MutAbsorbs == FALSE

\* Q6: the live copy's install has not passed its step 3.
Absorbs == account[live] # NoCopy /\ ~passed[live]

\* Mutant: the live copy is read after the install wrote the new one.
MutRetired(c) == retiring \cup {c}

\* The replaced copy joins those still to be waited for.
Retired(c) == retiring \cup {live}

\* Step 1, under rw.mu.
Install(c) ==
    LET mine == build.acc
        other == account[live]
    IN
    /\ At(c, "sync", "close") /\ pos[c] # -1 /\ ~stopped[c]
    /\ build.inst = c /\ live # NoCopy
    /\ live' = c /\ build' = NoBuild
    /\ retiring' = Retired(c)
    /\ waits' = [waits EXCEPT ![c] = Retired(c)]
    /\ IF Absorbs
       THEN /\ reasons' = [reasons EXCEPT ![mine] = @ \cup reasons[other], ![other] = {}]
            /\ account' = [account EXCEPT ![c] = mine, ![live] = NoCopy]
       ELSE /\ account' = [account EXCEPT ![c] = mine]
            /\ UNCHANGED reasons
    /\ UNCHANGED <<objectVars, informerVars, adapterVars, runVars, inM, passed, comparator, behind,
                   built, clean, asked, ended>>

\* Step 2: every retiring copy is stopped ...
CloseRetiring(c) ==
    /\ At(c, "close", "wait")
    /\ stopped' = [r \in Copies |-> stopped[r] \/ r \in waits[c]]
    /\ UNCHANGED <<objectVars, informerVars, adapterVars, done, waits, inM, account, passed,
                   comparator, behind, buildVars, accountVars>>

\* Mutant: nobody is waited for.
MutAllReturned(c) == TRUE

\* ... and its Run waited for.
AllReturned(c) == \A r \in waits[c] : done[r]

\* Step 3: give up when a later build installed during the wait.
CheckLater(c) ==
    /\ AllReturned(c)
    /\ retiring' = retiring \ waits[c]
    /\ waits' = [waits EXCEPT ![c] = {}]
    /\ IF live = c
       THEN At(c, "wait", "unmute") /\ passed' = [passed EXCEPT ![c] = TRUE]
       ELSE At(c, "wait", "off") /\ UNCHANGED passed
    /\ UNCHANGED <<objectVars, informerVars, adapterVars, runVars, inM, account, comparator, behind,
                   live, build, built, accountVars>>

\* Step 4: markChangedPending, setComparatorRecord, unmuteInListenerOrder.
Unmute(c) ==
    /\ At(c, "unmute", "compute")
    /\ comparator' = c
    /\ queue' = Sent(c, Signal("unmute"))
    /\ behind' = [behind EXCEPT ![c] = ~done[c] /\ store[c].ver < consumer.ver]
    /\ UNCHANGED <<objectVars, informerVars, busy, muted, seen, suppress, acted, consumer, blurred,
                   runVars, waits, inM, account, passed, buildVars, accountVars>>

\* Mutant: only the keys of the new store are compared.
MutDiffers(c) == ~Absent(store[c]) /\ ~Same(store[c], acted)

\* M: what the store holds is not what the consumer acted on, absence included.
Differs(c) == ~Same(store[c], acted)

\* Step 5: computeM.
ComputeM(c) ==
    /\ At(c, "compute", "deliver")
    /\ inM' = [inM EXCEPT ![c] = Differs(c)]
    /\ UNCHANGED <<objectVars, informerVars, adapterVars, runVars, waits, account, passed,
                   comparator, behind, buildVars, accountVars>>

\* Step 6: the ledger takes over the account's reasons, then M is delivered.
DeliverM(c) ==
    /\ At(c, "deliver", "off")
    /\ queue' = IF inM[c] THEN Sent(c, Signal("swap")) ELSE queue
    /\ inM' = [inM EXCEPT ![c] = FALSE]
    /\ ended' = ended \cup reasons[account[c]]
    /\ reasons' = [reasons EXCEPT ![account[c]] = {}]
    /\ account' = [account EXCEPT ![c] = NoCopy]
    /\ UNCHANGED <<objectVars, informerVars, busy, muted, seen, suppress, acted, consumer, blurred,
                   runVars, waits, passed, comparator, behind, buildVars, clean, asked>>

----------------------------------------------------------------------------
Informer(c) == Watch(c) \/ Distribute(c) \/ RunReturns(c)

Listener(c) ==
    \/ DeliverSuppressed(c) \/ DeliverMuted(c) \/ DeliverLive(c) \/ UnmuteArrives(c)
    \/ SwapSkipped(c) \/ SwapDeliver(c) \/ Record(c) \/ SwapRecord(c)

InstallBuild(c) ==
    \/ GiveUp(c) \/ Install(c) \/ CloseRetiring(c) \/ CheckLater(c)
    \/ Unmute(c) \/ ComputeM(c) \/ DeliverM(c)

\* What the apiserver, the verification and the CRD worker do.
Environment ==
    /\ moves < MaxMoves
    /\ moves' = moves + 1
    /\ Write \/ RequestDivergence \/ RequestSchema \/ CleanPass \/ Teardown

Lists(c) == ListRefused(c) \/ \E v \in Versions : List(c, v)

\* A step of the program itself.
Own(A) == A /\ UNCHANGED moves

Next ==
    \/ Environment
    \/ Own(CleanPassEnds)
    \/ \E c \in Copies : Own(Informer(c) \/ Listener(c) \/ InstallBuild(c) \/ Lists(c))

Spec == Init /\ [][Next]_vars

----------------------------------------------------------------------------
Bodies == [ver : Versions \cup {-1}, sch : 0..MaxSchema]

Notes == [kind : {"note", "unmute", "swap"}, obj : Bodies]

ObjectTypeOK ==
    /\ gone \subseteq Versions /\ server \in Versions /\ schema \in 0..MaxSchema
    /\ pos \in [Copies -> Versions \cup {-1}]
    /\ store \in [Copies -> Bodies] /\ out \in [Copies -> Bodies]
AdapterTypeOK ==
    /\ queue \in [Copies -> Seq(Notes)]
    /\ busy \in [Copies -> [pc : {"idle", "call", "swapCall"}, obj : Bodies]]
    /\ seen \in [Copies -> Bodies]
    /\ suppress \in [Copies -> [kind : {"none", "note"}, obj : Bodies]]
    /\ acted \in Bodies /\ consumer \in Bodies
FlagTypeOK ==
    /\ muted \in [Copies -> BOOLEAN] /\ blurred \in [Copies -> BOOLEAN]
    /\ stopped \in [Copies -> BOOLEAN] /\ done \in [Copies -> BOOLEAN]
    /\ inM \in [Copies -> BOOLEAN] /\ passed \in [Copies -> BOOLEAN]
    /\ behind \in [Copies -> BOOLEAN]
BuildTypeOK ==
    /\ live \in Copies \cup {NoCopy} /\ comparator \in Copies \cup {NoCopy}
    /\ build = NoBuild \/ build \in [inst : Copies, acc : Copies]
    /\ built \in 1..MaxBuilds + 1
    /\ retiring \subseteq Copies /\ live \notin retiring
    /\ waits \in [Copies -> SUBSET Copies]
    /\ swap \in [Copies -> {"off", "sync", "close", "wait", "unmute", "compute", "deliver"}]
    /\ account \in [Copies -> Copies \cup {NoCopy}]
RequestTypeOK ==
    /\ clean \in Copies \cup {NoCopy} /\ moves \in 0..MaxMoves
    /\ asked \in Seq({"divergence", "schema"})
    /\ reasons \in [Copies -> SUBSET (1..Len(asked))] /\ ended \subseteq 1..Len(asked)

\* Every variable keeps its type; the live copy is never one of those its own swap
\* stops and waits for (installBuild, steps 1 and 2).
TypeOK == ObjectTypeOK /\ AdapterTypeOK /\ FlagTypeOK /\ BuildTypeOK /\ RequestTypeOK

\* No change is lost across a swap: when the live copy has nothing left to send,
\* to take or to deliver, the consumer was last told what its store holds.
Settled(c) == swap[c] = "off" /\ out[c] = NoObject /\ queue[c] = <<>> /\ busy[c] = Idle
NoChangeLost == live # NoCopy /\ Settled(live) => Same(consumer, store[live])

\* The consumer never has two callers: a copy is unmuted only after every copy it
\* replaces has returned from its last call (step 2's wait), however swaps chain.
Calls(c) == busy[c] # Idle \/ ~muted[c]
OneActor == \A c \in Copies, d \in Copies : Calls(c) /\ Calls(d) => c = d

\* The consumer steps back only where the code says it may: the new copy was
\* behind it when it was unmuted (F8), or S was absent and the adapter took an
\* older absence for it (P2: the suppression ends at, or is not begun because of,
\* an earlier one).
NoStepBack ==
    [][consumer'.ver < consumer.ver => \E c \in Copies : busy[c] # busy'[c] /\ (behind[c] \/ blurred[c])]_vars

\* Some goroutine still ends what account a holds: its build is open, a clean
\* pass that aborted it is about to, or the swap that installed with it goes on.
Responsible(a) ==
    \/ build.acc = a
    \/ clean = a /\ Only(a, "divergence")
    \/ \E c \in Copies : account[c] = a /\ swap[c] # "off" /\ (passed[c] \/ c = live)

\* A request is never forgotten and never held twice, whatever supersedes, aborts
\* or tears down its build: it has ended or is in one account somebody ends (Q6).
RequestHeld ==
    /\ \A i \in 1..Len(asked) : i \in ended \/ \E a \in Copies : i \in reasons[a] /\ Responsible(a)
    /\ \A a \in Copies, b \in Copies : a # b => reasons[a] \cap reasons[b] = {}
=============================================================================
