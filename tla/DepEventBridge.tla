--------------------------- MODULE DepEventBridge ---------------------------
(***************************************************************************)
(* The bridge from the informers to the dependency tracker                  *)
(* (internal/cache/deps_watch.go): the informer's handlers and the          *)
(* reconcile audit submit coordinates to a deduplicating, rate-limited work *)
(* queue; one worker takes each coordinate, probes what the indexer holds   *)
(* now, and tells the tracker.  An indexer that is not authoritative makes  *)
(* the worker requeue the coordinate up to a budget and then tell the       *)
(* tracker "degraded".  The client-go work queue is external: queue, dirty, *)
(* waiting and requeues are its state.                                      *)
(***************************************************************************)
EXTENDS Integers, Sequences, FiniteSets

CONSTANTS
    Objects,      \* coordinates
    MaxRequeues,  \* maxRefreshRequeues
    MaxInputs     \* bound: changes and audit submits together

ASSUME BridgeAssumption ==
    Objects # {} /\ MaxRequeues \in Nat /\ MaxInputs \in Nat

VARIABLES
    ver,        \* object -> number of its changes in the indexer
    alive,      \* the objects the indexer holds
    servable,   \* whether the indexer is authoritative
    notes,      \* changes whose handler has not run yet, in order
    inputs,     \* changes and audit submits so far
    sub,        \* submitter -> its submitDepEventMask call
    queue,      \* work queue: coordinates ready for the worker, in order
    dirty,      \* work queue: coordinates added and not yet taken
    waiting,    \* work queue: coordinates waiting out their backoff
    requeues,   \* work queue: NumRequeues
    masks,      \* object -> the merged transition mask, {} for none
    queued,     \* depWatch.queued
    processing, \* depWatch.processing
    worker,     \* the dep-event worker
    handled,    \* object -> the version the tracker was last told about
    told,       \* object -> the state the tracker was last told
    lost,       \* objects whose last telling panicked
    noted,      \* history: object -> the latest version marked as queued
    unseen      \* history: object -> mask bits merged and not yet told

storeVars == <<ver, alive, servable>>
queueVars == <<queue, dirty, waiting, requeues>>
trackerVars == <<handled, told, lost>>
vars == <<storeVars, notes, inputs, sub, queueVars, masks, queued, processing,
          worker, trackerVars, noted, unseen>>

Bits == {"membership", "update", "unknown"}
Submitters == {"informer", "reconcile"}
States == {"EXISTS", "ABSENT", "UNKNOWN_DEGRADED"}

NoObject == CHOOSE o \in Objects : TRUE
NoCall == [pc |-> "idle", obj |-> NoObject, mask |-> {}, ver |-> 0]
NoWork == [pc |-> "idle", obj |-> NoObject, mask |-> {}, state |-> "EXISTS", ver |-> 0]

Init ==
    /\ ver = [o \in Objects |-> 0]
    /\ alive = Objects
    /\ servable = TRUE
    /\ notes = <<>>
    /\ inputs = 0
    /\ sub = [s \in Submitters |-> NoCall]
    /\ queue = <<>>
    /\ dirty = {}
    /\ waiting = {}
    /\ requeues = [o \in Objects |-> 0]
    /\ masks = [o \in Objects |-> {}]
    /\ queued = {}
    /\ processing = {}
    /\ worker = NoWork
    /\ handled = [o \in Objects |-> 0]
    /\ told = [o \in Objects |-> "EXISTS"]
    /\ lost = {}
    /\ noted = [o \in Objects |-> 0]
    /\ unseen = [o \in Objects |-> {}]

----------------------------------------------------------------------------
\* The client-go work queue (external).

\* Add: a coordinate the worker holds becomes dirty and is queued by Done.
Add(o) ==
    /\ dirty' = dirty \cup {o}
    /\ queue' = IF o \in dirty \/ (worker.pc # "idle" /\ worker.obj = o)
                THEN queue ELSE Append(queue, o)

\* A backoff ends: the delayed Add happens.
BackoffEnds(o) ==
    /\ o \in waiting
    /\ waiting' = waiting \ {o}
    /\ Add(o)
    /\ UNCHANGED <<storeVars, notes, inputs, sub, requeues, masks, queued, processing,
                   worker, trackerVars, noted, unseen>>

----------------------------------------------------------------------------
\* The informer: the indexer changes, then the handler is notified in order.

\* An object comes or goes (membership) or keeps existing (update).
Change(o) ==
    LET m == IF (o \in alive) = (o \in alive') THEN "update" ELSE "membership"
    IN
    /\ inputs < MaxInputs
    /\ inputs' = inputs + 1
    /\ alive' \in {alive \cup {o}, alive \ {o}}
    /\ o \in alive \cup alive'
    /\ ver' = [ver EXCEPT ![o] = @ + 1]
    /\ notes' = Append(notes, [obj |-> o, mask |-> {m}, ver |-> ver[o] + 1])
    /\ UNCHANGED <<servable, sub, queueVars, masks, queued, processing, worker,
                   trackerVars, noted, unseen>>

\* The informer loses or regains its authority (servableLocked).
Servability ==
    /\ servable' = ~servable
    /\ UNCHANGED <<ver, alive, notes, inputs, sub, queueVars, masks, queued, processing,
                   worker, trackerVars, noted, unseen>>

\* The handlers OnAdd, OnUpdate, OnDelete: submitDepEventMask begins.
Handler ==
    /\ sub["informer"].pc = "idle"
    /\ notes # <<>>
    /\ sub' = [sub EXCEPT !["informer"] =
                 [pc |-> "merge", obj |-> Head(notes).obj, mask |-> Head(notes).mask,
                  ver |-> Head(notes).ver]]
    /\ notes' = Tail(notes)
    /\ UNCHANGED <<storeVars, inputs, queueVars, masks, queued, processing, worker,
                   trackerVars, noted, unseen>>

\* The reconcile audit submits a coordinate without a transition.
Audit(o) ==
    /\ inputs < MaxInputs
    /\ sub["reconcile"].pc = "idle"
    /\ inputs' = inputs + 1
    /\ sub' = [sub EXCEPT !["reconcile"] =
                 [pc |-> "merge", obj |-> o, mask |-> {"unknown"}, ver |-> 0]]
    /\ UNCHANGED <<storeVars, notes, queueVars, masks, queued, processing, worker,
                   trackerVars, noted, unseen>>

----------------------------------------------------------------------------
\* submitDepEventMask: merge the mask, mark the coordinate queued, Add.

\* Mutant: the latest mask replaces the earlier ones.
MutMaskReplaced(o, m) == [masks EXCEPT ![o] = m]

mergeMask(o, m) == [masks EXCEPT ![o] = @ \cup m]

SubmitMerge(s) ==
    LET o == sub[s].obj
    IN
    /\ sub[s].pc = "merge"
    /\ masks' = mergeMask(o, sub[s].mask)
    /\ unseen' = [unseen EXCEPT ![o] = @ \cup sub[s].mask]
    /\ sub' = [sub EXCEPT ![s].pc = "mark"]
    /\ UNCHANGED <<storeVars, notes, inputs, queueVars, queued, processing, worker,
                   trackerVars, noted>>

SubmitMark(s) ==
    LET o == sub[s].obj
    IN
    /\ sub[s].pc = "mark"
    /\ queued' = queued \cup {o}
    /\ noted' = [noted EXCEPT ![o] = IF sub[s].ver > @ THEN sub[s].ver ELSE @]
    /\ sub' = [sub EXCEPT ![s].pc = "add"]
    /\ UNCHANGED <<storeVars, notes, inputs, queueVars, masks, processing, worker,
                   trackerVars, unseen>>

SubmitAdd(s) ==
    /\ sub[s].pc = "add"
    /\ Add(sub[s].obj)
    /\ sub' = [sub EXCEPT ![s] = NoCall]
    /\ UNCHANGED <<storeVars, notes, inputs, waiting, requeues, masks, queued, processing,
                   worker, trackerVars, noted, unseen>>

----------------------------------------------------------------------------
\* runDepEventWorker and handleDepEvent.

WorkerGet ==
    /\ worker.pc = "idle"
    /\ queue # <<>>
    /\ worker' = [NoWork EXCEPT !.pc = "begin", !.obj = Head(queue)]
    /\ dirty' = dirty \ {Head(queue)}
    /\ queue' = Tail(queue)
    /\ UNCHANGED <<storeVars, notes, inputs, sub, waiting, requeues, masks, queued,
                   processing, trackerVars, noted, unseen>>

BeginProcessing ==
    /\ worker.pc = "begin"
    /\ queued' = queued \ {worker.obj}
    /\ processing' = processing \cup {worker.obj}
    /\ worker' = [worker EXCEPT !.pc = "take"]
    /\ UNCHANGED <<storeVars, notes, inputs, sub, queueVars, masks, trackerVars, noted, unseen>>

TakeMask ==
    /\ worker.pc = "take"
    /\ masks' = [masks EXCEPT ![worker.obj] = {}]
    /\ worker' = [worker EXCEPT !.pc = "probe", !.mask = masks[worker.obj]]
    /\ UNCHANGED <<storeVars, notes, inputs, sub, queueVars, queued, processing,
                   trackerVars, noted, unseen>>

\* The indexer answers: the tracker will be told, the requeue count starts over.
ProbeKnown ==
    /\ worker.pc = "probe"
    /\ servable
    /\ worker' = [worker EXCEPT !.pc = "tell", !.ver = ver[worker.obj],
                                !.state = IF worker.obj \in alive THEN "EXISTS" ELSE "ABSENT"]
    /\ requeues' = [requeues EXCEPT ![worker.obj] = 0]
    /\ UNCHANGED <<storeVars, notes, inputs, sub, queue, dirty, waiting, masks, queued,
                   processing, trackerVars, noted, unseen>>

\* Mutant: one requeue too many.
MutOneMore(o) == requeues[o] <= MaxRequeues

WithinBudget(o) == requeues[o] < MaxRequeues

\* No answer within the budget: requeue.
ProbeUnknown ==
    /\ worker.pc = "probe"
    /\ ~servable
    /\ WithinBudget(worker.obj)
    /\ worker' = [worker EXCEPT !.pc = "remerge"]
    /\ UNCHANGED <<storeVars, notes, inputs, sub, queueVars, masks, queued, processing,
                   trackerVars, noted, unseen>>

\* Mutant: past the budget the coordinate is dropped.
MutDropped == "end"

AfterBudget == "tell"

\* No answer for the whole budget: the tracker is told "degraded".
ProbeDegraded ==
    /\ worker.pc = "probe"
    /\ ~servable
    /\ ~WithinBudget(worker.obj)
    /\ worker' = [worker EXCEPT !.pc = AfterBudget, !.ver = ver[worker.obj],
                                !.state = "UNKNOWN_DEGRADED"]
    /\ requeues' = [requeues EXCEPT ![worker.obj] = 0]
    /\ UNCHANGED <<storeVars, notes, inputs, sub, queue, dirty, waiting, masks, queued,
                   processing, trackerVars, noted, unseen>>

\* The requeue: the mask goes back, the coordinate is marked, AddRateLimited.
RequeueMerge ==
    /\ worker.pc = "remerge"
    /\ masks' = mergeMask(worker.obj, worker.mask)
    /\ worker' = [worker EXCEPT !.pc = "remark", !.mask = {}]
    /\ UNCHANGED <<storeVars, notes, inputs, sub, queueVars, queued, processing,
                   trackerVars, noted, unseen>>

\* Mutant: a requeued coordinate is not marked.
MutNotMarked(o) == queued

Marked(o) == queued \cup {o}

RequeueMark ==
    /\ worker.pc = "remark"
    /\ queued' = Marked(worker.obj)
    /\ worker' = [worker EXCEPT !.pc = "readd"]
    /\ UNCHANGED <<storeVars, notes, inputs, sub, queueVars, masks, processing,
                   trackerVars, noted, unseen>>

\* Mutant: a requeued coordinate is not added again.
MutNotDelayed(o) == waiting

Delayed(o) == waiting \cup {o}

RequeueAdd ==
    /\ worker.pc = "readd"
    /\ waiting' = Delayed(worker.obj)
    /\ requeues' = [requeues EXCEPT ![worker.obj] = @ + 1]
    /\ worker' = [worker EXCEPT !.pc = "end"]
    /\ UNCHANGED <<storeVars, notes, inputs, sub, queue, dirty, masks, queued, processing,
                   trackerVars, noted, unseen>>

\* onObjectEventMasked returns.
TellTracker ==
    LET o == worker.obj
    IN
    /\ worker.pc = "tell"
    /\ handled' = [handled EXCEPT ![o] = worker.ver]
    /\ told' = [told EXCEPT ![o] = worker.state]
    /\ lost' = lost \ {o}
    /\ unseen' = [unseen EXCEPT ![o] = @ \ (worker.mask \ masks[o])]
    /\ worker' = [worker EXCEPT !.pc = "end", !.mask = {}]
    /\ UNCHANGED <<storeVars, notes, inputs, sub, queueVars, masks, queued, processing, noted>>

\* ... or the probe or the tracker panics: recovered, forgotten, counted.
Panic ==
    LET o == worker.obj
    IN
    /\ worker.pc \in {"probe", "tell"}
    /\ lost' = lost \cup {o}
    /\ unseen' = [unseen EXCEPT ![o] = @ \ (worker.mask \ masks[o])]
    /\ requeues' = [requeues EXCEPT ![o] = 0]
    /\ worker' = [worker EXCEPT !.pc = "end", !.mask = {}]
    /\ UNCHANGED <<storeVars, notes, inputs, sub, queue, dirty, waiting, masks, queued,
                   processing, handled, told, noted>>

EndProcessing ==
    /\ worker.pc = "end"
    /\ processing' = processing \ {worker.obj}
    /\ worker' = [worker EXCEPT !.pc = "done"]
    /\ UNCHANGED <<storeVars, notes, inputs, sub, queueVars, masks, queued, trackerVars,
                   noted, unseen>>

\* Done: a coordinate that became dirty meanwhile is queued again.
WorkerDone ==
    /\ worker.pc = "done"
    /\ queue' = IF worker.obj \in dirty THEN Append(queue, worker.obj) ELSE queue
    /\ worker' = NoWork
    /\ UNCHANGED <<storeVars, notes, inputs, sub, dirty, waiting, requeues, masks, queued,
                   processing, trackerVars, noted, unseen>>

----------------------------------------------------------------------------
Submit(s) == SubmitMerge(s) \/ SubmitMark(s) \/ SubmitAdd(s)

Worker ==
    \/ WorkerGet \/ BeginProcessing \/ TakeMask
    \/ ProbeKnown \/ ProbeUnknown \/ ProbeDegraded
    \/ RequeueMerge \/ RequeueMark \/ RequeueAdd
    \/ TellTracker \/ Panic \/ EndProcessing \/ WorkerDone

Next ==
    \/ \E o \in Objects : Change(o) \/ Audit(o) \/ BackoffEnds(o)
    \/ Servability \/ Handler
    \/ \E s \in Submitters : Submit(s)
    \/ Worker

Spec == Init /\ [][Next]_vars

\* The handlers run in the informer's goroutine, the worker in its own, and
\* every backoff ends; nothing makes the indexer become authoritative.
Fairness ==
    /\ WF_vars(Handler)
    /\ \A s \in Submitters : WF_vars(Submit(s))
    /\ WF_vars(Worker)
    /\ \A o \in Objects : WF_vars(BackoffEnds(o))

LiveSpec == Spec /\ Fairness

----------------------------------------------------------------------------
\* Properties.

Note == [obj : Objects, mask : SUBSET Bits, ver : Nat]
Call == [pc : {"idle", "merge", "mark", "add"}, obj : Objects, mask : SUBSET Bits, ver : Nat]

WorkerState ==
    [pc : {"idle", "begin", "take", "probe", "remerge", "remark", "readd", "tell", "end",
           "done"},
     obj : Objects, mask : SUBSET Bits, state : States, ver : Nat]

\* Every variable of the bridge keeps its type, and no coordinate is requeued
\* more than maxRefreshRequeues times in a row.
TypeOK ==
    /\ ver \in [Objects -> Nat] /\ alive \subseteq Objects /\ servable \in BOOLEAN
    /\ notes \in Seq(Note)
    /\ inputs \in 0 .. MaxInputs
    /\ sub \in [Submitters -> Call]
    /\ queue \in Seq(Objects) /\ dirty \subseteq Objects /\ waiting \subseteq Objects
    /\ requeues \in [Objects -> 0 .. MaxRequeues]
    /\ worker.pc \in {"remerge", "remark", "readd"} => requeues[worker.obj] < MaxRequeues
    /\ masks \in [Objects -> SUBSET Bits]
    /\ queued \subseteq Objects /\ processing \subseteq Objects
    /\ worker \in WorkerState
    /\ handled \in [Objects -> Nat] /\ told \in [Objects -> States] /\ lost \subseteq Objects
    /\ noted \in [Objects -> Nat] /\ unseen \in [Objects -> SUBSET Bits]

\* A change of o is on its way to a probe that has not been made yet.
Coming(o) ==
    \/ \E i \in DOMAIN notes : notes[i].obj = o
    \/ \E s \in Submitters : sub[s].pc # "idle" /\ sub[s].obj = o
    \/ o \in dirty \cup waiting

Probing(o) ==
    worker.obj = o /\ worker.pc \in {"begin", "take", "probe", "remerge", "remark", "readd"}

\* No change is forgotten (dedup, backoff, budget and the worker's own re-adds
\* together): the tracker has been told about the indexer's latest state, or a
\* telling is on its way, or processing the coordinate panicked.
NoEventForgotten ==
    \A o \in Objects :
        \/ handled[o] = ver[o]
        \/ o \in lost
        \/ Coming(o) \/ Probing(o)
        \/ worker.obj = o /\ worker.pc = "tell" /\ worker.ver = ver[o]

\* depWatchInFlight, which the list cells' comparator asks before it calls a
\* difference a divergence: a change that was marked as queued and that the
\* tracker has not been told about is in queued or in processing.  (The masks,
\* the third thing it looks at, are not needed.)
InFlightCovered ==
    \A o \in Objects :
        noted[o] > handled[o] /\ o \notin lost => o \in queued \cup processing

\* "The queue coalesces a coordinate's submits; the mask must not": a bit that
\* was merged is in the map or with the worker until the tracker is told, and a
\* mask in the map has a submit or a queue entry that will fetch it.
MasksNotLost ==
    \A o \in Objects :
        /\ unseen[o] \subseteq masks[o] \cup (IF worker.obj = o THEN worker.mask ELSE {})
        /\ masks[o] # {} => Coming(o) \/ Probing(o)

----------------------------------------------------------------------------
\* The bridge keeps EventFeed's promise.

Feed == INSTANCE EventFeed WITH owed <- {o \in Objects : handled[o] # ver[o]}

\* Every step of the bridge is a step of the feed, and everything owed is told
\* or lost.
FeedPromise == Feed!Promise

=============================================================================
