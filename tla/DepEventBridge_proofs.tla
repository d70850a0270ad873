----------------------- MODULE DepEventBridge_proofs -----------------------
EXTENDS DepEventBridge, TLAPS

\* The strengthenings that make the bridge's properties inductive.

\* What is noted of a change does not run ahead of the indexer.
NotedInStore ==
    /\ \A o \in Objects : noted[o] <= ver[o]
    /\ \A s \in Submitters : sub[s].ver <= ver[sub[s].obj]
    /\ \A i \in DOMAIN notes : notes[i].ver <= ver[notes[i].obj]

\* A telling that a change overtook is followed by another one.
OvertakenComes ==
    worker.pc = "tell" /\ worker.ver # ver[worker.obj] => Coming(worker.obj)

Held == {"take", "probe", "remerge", "remark", "readd", "tell", "end"}

\* What the worker holds is in processing; when it lets go, the change was told,
\* lost or marked again.
HeldIsProcessing ==
    /\ worker.pc \in Held => worker.obj \in processing
    /\ worker.pc = "tell" => noted[worker.obj] <= worker.ver \/ worker.obj \in queued
    /\ worker.pc = "readd" => worker.obj \in queued
    /\ worker.pc = "end" => \/ noted[worker.obj] <= handled[worker.obj]
                            \/ worker.obj \in queued \cup lost

\* A mask in the map has a submit or a queue entry that will fetch it, or the
\* worker has not fetched it yet or has just put it back.
MaskFetched ==
    /\ \A o \in Objects : masks[o] # {} =>
          \/ Coming(o)
          \/ worker.obj = o /\ worker.pc \in {"begin", "take", "remark", "readd"}
    /\ worker.mask # {} => worker.pc \in {"probe", "remerge", "tell"}

\* The tracker is never told ahead of the indexer nor back in time, and what the
\* worker is about to tell is what the indexer holds unless a change overtook it.
TellsInOrder ==
    /\ \A o \in Objects : handled[o] <= ver[o]
    /\ worker.pc = "tell" =>
          /\ handled[worker.obj] <= worker.ver /\ worker.ver <= ver[worker.obj]
          /\ worker.ver = ver[worker.obj] =>
                worker.state \in {IF worker.obj \in alive THEN "EXISTS" ELSE "ABSENT",
                                  "UNKNOWN_DEGRADED"}

----------------------------------------------------------------------------
\* The worker's and the submitters' idle records are well typed.
LEMMA BridgeConstants ==
    /\ NoObject \in Objects
    /\ NoCall \in Call
    /\ NoWork \in WorkerState
    /\ NoCall.pc = "idle" /\ NoCall.ver = 0
    /\ NoWork.pc = "idle" /\ NoWork.mask = {}
<1>1. NoObject \in Objects
  BY BridgeAssumption DEF NoObject
<1> QED BY <1>1 DEF NoCall, NoWork, Call, WorkerState, Bits, States

\* Counting a requeue and forgetting the count stay in the budget.
LEMMA BudgetType ==
    ASSUME TypeOK, NEW o \in Objects, NEW n \in 0 .. MaxRequeues
    PROVE  [requeues EXCEPT ![o] = n] \in [Objects -> 0 .. MaxRequeues]
<1> DEFINE Budget == 0 .. MaxRequeues
<1>1. requeues \in [Objects -> Budget] /\ n \in Budget
  BY DEF TypeOK
<1> HIDE DEF Budget
<1>2. [requeues EXCEPT ![o] = n] \in [Objects -> Budget]
  BY <1>1
<1> QED BY <1>2 DEF Budget

\* Add keeps the work queue well typed.
LEMMA AddType ==
    ASSUME TypeOK, NEW o \in Objects, Add(o)
    PROVE  queue' \in Seq(Objects) /\ dirty' \subseteq Objects
  BY DEF Add, TypeOK

\* The empty bridge is well typed.
LEMMA BridgeTypeInit == Init => TypeOK
  BY BridgeConstants, BridgeAssumption DEF Init, TypeOK, States

\* Every step of the bridge keeps the types.
LEMMA BridgeTypeNext ==
    ASSUME TypeOK, [Next]_vars
    PROVE  TypeOK'
<1> USE BridgeAssumption DEF storeVars, queueVars, trackerVars
<1>0. worker.obj \in Objects /\ worker.mask \in SUBSET Bits /\ worker.ver \in Nat
      /\ worker.state \in States /\ worker \in WorkerState
  BY DEF TypeOK, WorkerState
<1>1. ASSUME NEW o \in Objects, Change(o) PROVE TypeOK'
  <2>1. notes' \in Seq(Note)
    <3>1. PICK m \in {"update", "membership"} :
             notes' = Append(notes, [obj |-> o, mask |-> {m}, ver |-> ver[o] + 1])
      BY <1>1 DEF Change
    <3>2. [obj |-> o, mask |-> {m}, ver |-> ver[o] + 1] \in Note
      BY <1>1 DEF TypeOK, Note, Bits
    <3> QED BY <3>1, <3>2 DEF TypeOK
  <2>2. inputs' \in 0 .. MaxInputs /\ ver' \in [Objects -> Nat] /\ alive' \subseteq Objects
    BY <1>1 DEF Change, TypeOK
  <2> QED BY <1>1, <2>1, <2>2 DEF Change, TypeOK
<1>2. ASSUME NEW o \in Objects, Audit(o) PROVE TypeOK'
  <2>1. [pc |-> "merge", obj |-> o, mask |-> {"unknown"}, ver |-> 0] \in Call
    BY DEF Call, Bits
  <2>2. sub' \in [Submitters -> Call]
    BY <1>2, <2>1 DEF Audit, TypeOK
  <2>3. inputs' \in 0 .. MaxInputs
    BY <1>2 DEF Audit, TypeOK
  <2> QED BY <1>2, <2>2, <2>3 DEF Audit, TypeOK
<1>3. ASSUME NEW o \in Objects, BackoffEnds(o) PROVE TypeOK'
  BY <1>3, AddType DEF BackoffEnds, TypeOK
<1>4. CASE Servability
  BY <1>4 DEF Servability, TypeOK
<1>5. CASE Handler
  <2>1. notes' \in Seq(Note) /\ Head(notes) \in Note
    <3>1. notes \in Seq(Note) /\ notes # <<>> /\ notes' = Tail(notes)
      BY <1>5 DEF Handler, TypeOK
    <3> QED BY <3>1
  <2>3. [pc |-> "merge", obj |-> Head(notes).obj, mask |-> Head(notes).mask,
         ver |-> Head(notes).ver] \in Call
    <3> DEFINE n == Head(notes)
    <3>1. n.obj \in Objects /\ n.mask \in SUBSET Bits /\ n.ver \in Nat
      BY <2>1 DEF Note
    <3> HIDE DEF n
    <3>2. [pc |-> "merge", obj |-> n.obj, mask |-> n.mask, ver |-> n.ver] \in Call
      BY <3>1 DEF Call
    <3> QED BY <3>2 DEF n
  <2>4. sub' \in [Submitters -> Call]
    <3> DEFINE c == [pc |-> "merge", obj |-> Head(notes).obj, mask |-> Head(notes).mask,
                     ver |-> Head(notes).ver]
    <3>1. c \in Call
      BY <2>3
    <3>2. sub' = [sub EXCEPT !["informer"] = c] /\ sub \in [Submitters -> Call]
      BY <1>5 DEF Handler, TypeOK
    <3> HIDE DEF c
    <3> QED BY <3>1, <3>2
  <2> QED BY <1>5, <2>1, <2>4 DEF Handler, TypeOK
<1>6. ASSUME NEW s \in Submitters, Submit(s) PROVE TypeOK'
  <2>0. sub[s].obj \in Objects /\ sub[s].mask \in SUBSET Bits /\ sub[s].ver \in Nat
    BY DEF TypeOK, Call
  <2>1. CASE SubmitMerge(s)
    <3>1. sub' \in [Submitters -> Call]
      <4>1. [sub[s] EXCEPT !.pc = "mark"] \in Call
        BY DEF TypeOK, Call
      <4> QED BY <2>1, <4>1 DEF SubmitMerge, TypeOK
    <3>2. masks' \in [Objects -> SUBSET Bits] /\ unseen' \in [Objects -> SUBSET Bits]
      BY <2>0, <2>1 DEF SubmitMerge, TypeOK, mergeMask
    <3> QED BY <2>1, <3>1, <3>2 DEF SubmitMerge, TypeOK
  <2>2. CASE SubmitMark(s)
    <3>1. sub' \in [Submitters -> Call]
      <4>1. [sub[s] EXCEPT !.pc = "add"] \in Call
        BY DEF TypeOK, Call
      <4> QED BY <2>2, <4>1 DEF SubmitMark, TypeOK
    <3>2. queued' \subseteq Objects /\ noted' \in [Objects -> Nat]
      BY <2>0, <2>2 DEF SubmitMark, TypeOK
    <3> QED BY <2>2, <3>1, <3>2 DEF SubmitMark, TypeOK
  <2>3. CASE SubmitAdd(s)
    <3>1. sub' \in [Submitters -> Call]
      BY <2>3, BridgeConstants DEF SubmitAdd, TypeOK
    <3>2. queue' \in Seq(Objects) /\ dirty' \subseteq Objects
      BY <2>0, <2>3, AddType DEF SubmitAdd
    <3> QED BY <2>3, <3>1, <3>2 DEF SubmitAdd, TypeOK
  <2> QED BY <1>6, <2>1, <2>2, <2>3 DEF Submit
<1>7. CASE WorkerGet
  <2>1. Head(queue) \in Objects /\ queue' \in Seq(Objects)
    BY <1>7 DEF WorkerGet, TypeOK
  <2>2. worker' \in WorkerState /\ worker'.pc = "begin"
    BY <1>7, <2>1, BridgeConstants DEF WorkerGet, WorkerState
  <2> QED BY <1>7, <2>1, <2>2 DEF WorkerGet, TypeOK
<1>8. CASE BeginProcessing \/ EndProcessing \/ ProbeUnknown
  <2>1. worker' \in WorkerState
    BY <1>0, <1>8 DEF BeginProcessing, EndProcessing, ProbeUnknown, WorkerState
  <2>2. worker'.pc \in {"remerge", "remark", "readd"} => requeues'[worker'.obj] < MaxRequeues
    BY <1>0, <1>8 DEF BeginProcessing, EndProcessing, ProbeUnknown, WithinBudget, WorkerState
  <2> QED BY <1>0, <1>8, <2>1, <2>2 DEF BeginProcessing, EndProcessing, ProbeUnknown, TypeOK
<1>9. CASE TakeMask
  <2>1. worker' \in WorkerState /\ worker'.pc = "probe"
    BY <1>0, <1>9 DEF TakeMask, TypeOK, WorkerState
  <2> QED BY <1>0, <1>9, <2>1 DEF TakeMask, TypeOK
<1>10. CASE ProbeKnown \/ ProbeDegraded
  <2>1. \A st \in States : [worker EXCEPT !.pc = "tell", !.ver = ver[worker.obj], !.state = st]
                              \in WorkerState
    BY <1>0 DEF TypeOK, WorkerState
  <2>2. worker' \in WorkerState /\ worker'.pc = "tell"
    <3>1. \E st \in States : worker' = [worker EXCEPT !.pc = "tell", !.ver = ver[worker.obj],
                                                       !.state = st]
      BY <1>10 DEF ProbeKnown, ProbeDegraded, States, AfterBudget
    <3>2. worker' \in WorkerState
      BY <2>1, <3>1
    <3>3. worker'.pc = "tell"
      BY <1>0, <3>1 DEF WorkerState
    <3> QED BY <3>2, <3>3
  <2>3. requeues' \in [Objects -> 0 .. MaxRequeues]
    <3>1. requeues' = [requeues EXCEPT ![worker.obj] = 0] /\ 0 \in 0 .. MaxRequeues
      BY <1>10 DEF ProbeKnown, ProbeDegraded
    <3> QED BY <1>0, <3>1, BudgetType
  <2> QED BY <1>10, <2>2, <2>3 DEF ProbeKnown, ProbeDegraded, TypeOK
<1>11. CASE RequeueMerge
  <2>1. worker' \in WorkerState /\ worker'.obj = worker.obj
    BY <1>0, <1>11 DEF RequeueMerge, WorkerState
  <2>2. requeues[worker.obj] < MaxRequeues
    BY <1>11 DEF RequeueMerge, TypeOK
  <2>3. masks' \in [Objects -> SUBSET Bits]
    BY <1>0, <1>11 DEF RequeueMerge, TypeOK, mergeMask
  <2> QED BY <1>11, <2>1, <2>2, <2>3 DEF RequeueMerge, TypeOK
<1>12. CASE RequeueMark
  <2>1. worker' \in WorkerState /\ worker'.obj = worker.obj
    BY <1>0, <1>12 DEF RequeueMark, WorkerState
  <2>2. requeues[worker.obj] < MaxRequeues
    BY <1>12 DEF RequeueMark, TypeOK
  <2> QED BY <1>0, <1>12, <2>1, <2>2 DEF RequeueMark, TypeOK, Marked
<1>13. CASE RequeueAdd
  <2>1. worker' \in WorkerState /\ worker'.pc = "end"
    BY <1>0, <1>13 DEF RequeueAdd, WorkerState
  <2>2. requeues' \in [Objects -> 0 .. MaxRequeues]
    <3>1. requeues' = [requeues EXCEPT ![worker.obj] = requeues[worker.obj] + 1]
      BY <1>13 DEF RequeueAdd
    <3>2. requeues[worker.obj] + 1 \in 0 .. MaxRequeues
      <4>1. worker.pc = "readd"
        BY <1>13 DEF RequeueAdd
      <4>2. requeues[worker.obj] < MaxRequeues /\ requeues[worker.obj] \in 0 .. MaxRequeues
        BY <1>0, <4>1 DEF TypeOK
      <4> QED BY <4>2
    <3> QED BY <1>0, <3>1, <3>2, BudgetType
  <2> QED BY <1>0, <1>13, <2>1, <2>2 DEF RequeueAdd, Delayed, TypeOK
<1>14. CASE TellTracker \/ Panic
  <2>1. worker' \in WorkerState /\ worker'.pc = "end"
    BY <1>0, <1>14 DEF TellTracker, Panic, WorkerState
  <2>2. unseen' \in [Objects -> SUBSET Bits] /\ lost' \subseteq Objects
    <3>1. /\ unseen' = [unseen EXCEPT ![worker.obj] = @ \ (worker.mask \ masks[worker.obj])]
          /\ unseen \in [Objects -> SUBSET Bits]
      BY <1>14 DEF TellTracker, Panic, TypeOK
    <3>2. lost' \subseteq Objects
      BY <1>0, <1>14 DEF TellTracker, Panic, TypeOK
    <3> QED BY <3>1, <3>2
  <2>3. CASE TellTracker
    BY <1>0, <2>1, <2>2, <2>3 DEF TellTracker, TypeOK
  <2>4. CASE Panic
    <3>1. requeues' \in [Objects -> 0 .. MaxRequeues]
      <4>1. requeues' = [requeues EXCEPT ![worker.obj] = 0] /\ 0 \in 0 .. MaxRequeues
        BY <2>4 DEF Panic
      <4> QED BY <1>0, <4>1, BudgetType
    <3> QED BY <2>1, <2>2, <2>4, <3>1 DEF Panic, TypeOK
  <2> QED BY <1>14, <2>3, <2>4
<1>15. CASE WorkerDone
  <2>1. queue' \in Seq(Objects)
    BY <1>0, <1>15 DEF WorkerDone, TypeOK
  <2> QED BY <1>15, <2>1, BridgeConstants DEF WorkerDone, TypeOK
<1>16. CASE UNCHANGED vars
  BY <1>16 DEF vars, TypeOK
<1> QED BY <1>1, <1>2, <1>3, <1>4, <1>5, <1>6, <1>7, <1>8, <1>9, <1>10, <1>11, <1>12,
           <1>13, <1>14, <1>15, <1>16 DEF Next, Worker

\* Type correctness of the bridge, for every set of coordinates and every budget.
THEOREM BridgeTypeCorrect == Spec => []TypeOK
  BY BridgeTypeInit, BridgeTypeNext, PTL DEF Spec

----------------------------------------------------------------------------
\* Nothing that is on its way to a probe is dropped on the way.

\* A change puts its object on the way.
LEMMA ChangeComes ==
    ASSUME TypeOK, NEW o \in Objects, Change(o)
    PROVE  /\ \A x \in Objects : Coming(x) => Coming(x)'
           /\ Coming(o)'
<1>1. PICK m \in {"update", "membership"} :
         notes' = Append(notes, [obj |-> o, mask |-> {m}, ver |-> ver[o] + 1])
  BY DEF Change
<1> DEFINE n == [obj |-> o, mask |-> {m}, ver |-> ver[o] + 1]
<1>2. n \in Note /\ n.obj = o
  BY DEF TypeOK, Note, Bits
<1> HIDE DEF n
<1>3. /\ notes \in Seq(Note) /\ notes' = Append(notes, n)
  BY <1>1 DEF TypeOK, n
<1>4. /\ \A i \in DOMAIN notes : i \in DOMAIN notes' /\ notes'[i] = notes[i]
      /\ Len(notes) + 1 \in DOMAIN notes' /\ notes'[Len(notes) + 1] = n
  BY <1>2, <1>3
<1>5. UNCHANGED <<sub, dirty, waiting>>
  BY DEF Change, queueVars
<1> QED BY <1>2, <1>4, <1>5 DEF Coming

\* The informer's handler keeps the change it takes on the way.
LEMMA HandlerComes ==
    ASSUME TypeOK, Handler, NEW x \in Objects, Coming(x)
    PROVE  Coming(x)'
<1>1. /\ notes \in Seq(Note) /\ notes # <<>> /\ notes' = Tail(notes)
      /\ sub["informer"].pc = "idle" /\ sub \in [Submitters -> Call]
      /\ sub'["informer"].pc = "merge" /\ sub'["informer"].obj = Head(notes).obj
      /\ \A s \in Submitters \ {"informer"} : sub'[s] = sub[s]
      /\ UNCHANGED <<dirty, waiting>>
  BY DEF Handler, TypeOK, queueVars, Submitters
<1>2. \A i \in DOMAIN notes : i = 1 \/ (i - 1 \in DOMAIN notes' /\ notes'[i - 1] = notes[i])
  BY <1>1
<1>3. CASE \E i \in DOMAIN notes : notes[i].obj = x
  <2>1. PICK i \in DOMAIN notes : notes[i].obj = x
    BY <1>3
  <2>2. CASE i = 1
    <3>1. sub'["informer"].obj = x /\ "informer" \in Submitters
      BY <1>1, <2>1, <2>2 DEF Submitters
    <3> QED BY <1>1, <3>1 DEF Coming
  <2> QED BY <1>2, <2>1, <2>2 DEF Coming
<1> QED BY <1>1, <1>3 DEF Coming

\* On its way to a probe, and only the worker takes it from there.
LEMMA ComingKept ==
    ASSUME TypeOK, [Next]_vars, NEW x \in Objects, Coming(x)
    PROVE  Coming(x)' \/ (worker.pc = "idle" /\ worker'.pc = "begin" /\ worker'.obj = x)
<1> USE DEF storeVars, queueVars, trackerVars
<1>1. ASSUME NEW o \in Objects, Audit(o) PROVE Coming(x)'
  BY <1>1 DEF Audit, Coming, TypeOK, Submitters
<1>2. ASSUME NEW o \in Objects, BackoffEnds(o) PROVE Coming(x)'
  BY <1>2 DEF BackoffEnds, Add, Coming
<1>3. ASSUME NEW s \in Submitters, Submit(s) PROVE Coming(x)'
  <2>1. CASE SubmitMerge(s) \/ SubmitMark(s)
    <3>1. \A q \in Submitters : sub'[q].obj = sub[q].obj /\ (sub[q].pc # "idle" => sub'[q].pc # "idle")
      <4>1. /\ sub \in [Submitters -> Call]
            /\ \/ sub' = [sub EXCEPT ![s].pc = "mark"]
               \/ sub' = [sub EXCEPT ![s].pc = "add"]
        BY <2>1 DEF SubmitMerge, SubmitMark, TypeOK
      <4>2. CASE sub' = [sub EXCEPT ![s].pc = "mark"]
        BY <4>1, <4>2 DEF Call
      <4>3. CASE sub' = [sub EXCEPT ![s].pc = "add"]
        BY <4>1, <4>3 DEF Call
      <4> QED BY <4>1, <4>2, <4>3
    <3> QED BY <2>1, <3>1 DEF SubmitMerge, SubmitMark, Coming
  <2>2. CASE SubmitAdd(s)
    <3>1. \A q \in Submitters \ {s} : sub'[q] = sub[q]
      BY <2>2 DEF SubmitAdd, TypeOK
    <3> QED BY <2>2, <3>1 DEF SubmitAdd, Add, Coming
  <2> QED BY <1>3, <2>1, <2>2 DEF Submit
<1>4. CASE WorkerGet
  <2>1. /\ Head(queue) \in Objects /\ worker.pc = "idle"
        /\ worker'.pc = "begin" /\ worker'.obj = Head(queue)
    <3>1. queue \in Seq(Objects) /\ queue # <<>>
      BY <1>4 DEF WorkerGet, TypeOK
    <3>2. Head(queue) \in Objects
      BY <3>1
    <3>3. worker.pc = "idle" /\ worker' = [NoWork EXCEPT !.pc = "begin", !.obj = Head(queue)]
      BY <1>4 DEF WorkerGet
    <3> QED BY <3>2, <3>3, BridgeConstants DEF WorkerState
  <2> QED BY <1>4, <2>1 DEF WorkerGet, Coming
<1>5. CASE Servability \/ BeginProcessing \/ TakeMask \/ ProbeKnown \/ ProbeUnknown
           \/ ProbeDegraded \/ RequeueMerge \/ RequeueMark \/ RequeueAdd \/ TellTracker
           \/ Panic \/ EndProcessing \/ WorkerDone \/ UNCHANGED vars
  <2>1. UNCHANGED <<notes, sub, dirty>> /\ waiting \subseteq waiting'
    BY <1>5 DEF Servability, BeginProcessing, TakeMask, ProbeKnown, ProbeUnknown,
       ProbeDegraded, RequeueMerge, RequeueMark, RequeueAdd, Delayed, TellTracker, Panic,
       EndProcessing, WorkerDone, vars
  <2> QED BY <2>1 DEF Coming
<1> QED BY <1>1, <1>2, <1>3, <1>4, <1>5, ChangeComes, HandlerComes DEF Next, Worker

----------------------------------------------------------------------------
\* No change is forgotten.

\* At the start the tracker knows everything.
LEMMA ForgottenInit == Init => NoEventForgotten /\ OvertakenComes
  BY BridgeConstants DEF Init, NoEventForgotten, OvertakenComes

\* No step forgets a change: what the worker takes it probes, what it requeues
\* comes back, and what a change overtook is told again.
LEMMA ForgottenNext ==
    ASSUME TypeOK, NoEventForgotten, OvertakenComes, [Next]_vars
    PROVE  NoEventForgotten' /\ OvertakenComes'
<1> USE DEF storeVars, queueVars, trackerVars
<1>0. worker \in WorkerState /\ worker.obj \in Objects
  BY DEF TypeOK, WorkerState
<1>1. CASE \/ \E o \in Objects : Audit(o) \/ BackoffEnds(o)
           \/ Servability \/ Handler \/ UNCHANGED vars
           \/ \E s \in Submitters : Submit(s)
  <2>1. UNCHANGED <<ver, worker, handled, lost>>
    BY <1>1 DEF Audit, BackoffEnds, Servability, Handler, vars, Submit, SubmitMerge,
       SubmitMark, SubmitAdd
  <2>2. \A x \in Objects : Coming(x) => Coming(x)'
    BY <2>1, ComingKept
  <2> QED BY <1>0, <2>1, <2>2 DEF NoEventForgotten, OvertakenComes, Probing
<1>2. ASSUME NEW o \in Objects, Change(o) PROVE NoEventForgotten' /\ OvertakenComes'
  <2>1. /\ UNCHANGED <<worker, handled, lost>>
        /\ \A x \in Objects \ {o} : ver'[x] = ver[x]
    BY <1>2 DEF Change, TypeOK
  <2> QED BY <1>0, <1>2, <2>1, ChangeComes DEF NoEventForgotten, OvertakenComes, Probing
<1>3. CASE WorkerGet
  <2>1. /\ worker.pc = "idle" /\ UNCHANGED <<ver, handled, lost>>
        /\ worker'.pc = "begin"
    BY <1>3, BridgeConstants DEF WorkerGet, WorkerState
  <2>2. \A x \in Objects : Coming(x) => Coming(x)' \/ Probing(x)'
    BY <2>1, ComingKept DEF Probing
  <2> QED BY <2>1, <2>2 DEF NoEventForgotten, OvertakenComes, Probing
<1>4. CASE BeginProcessing \/ TakeMask \/ ProbeUnknown \/ RequeueMerge \/ RequeueMark
  <2>1. /\ UNCHANGED <<ver, handled, lost, notes, sub, dirty, waiting>>
        /\ worker.pc \in {"begin", "take", "probe", "remerge", "remark"}
        /\ worker'.pc \in {"take", "probe", "remerge", "remark", "readd"}
        /\ worker'.obj = worker.obj
    BY <1>0, <1>4 DEF BeginProcessing, TakeMask, ProbeUnknown, RequeueMerge, RequeueMark,
       WorkerState
  <2> QED BY <2>1 DEF NoEventForgotten, OvertakenComes, Probing, Coming
<1>5. CASE ProbeKnown \/ ProbeDegraded
  <2>1. /\ UNCHANGED <<ver, handled, lost, notes, sub, dirty, waiting>>
        /\ worker.pc = "probe" /\ worker'.pc = "tell"
        /\ worker'.obj = worker.obj /\ worker'.ver = ver[worker.obj]
    BY <1>0, <1>5 DEF ProbeKnown, ProbeDegraded, WorkerState, AfterBudget
  <2> QED BY <2>1 DEF NoEventForgotten, OvertakenComes, Probing, Coming
<1>6. CASE RequeueAdd
  <2>1. /\ UNCHANGED <<ver, handled, lost, notes, sub, dirty>>
        /\ waiting' = waiting \cup {worker.obj}
        /\ worker.pc = "readd" /\ worker'.pc = "end" /\ worker'.obj = worker.obj
    BY <1>0, <1>6 DEF RequeueAdd, Delayed, WorkerState
  <2> QED BY <2>1 DEF NoEventForgotten, OvertakenComes, Probing, Coming
<1>7. CASE TellTracker
  <2>1. /\ UNCHANGED <<ver, notes, sub, dirty, waiting>>
        /\ handled'[worker.obj] = worker.ver
        /\ \A x \in Objects \ {worker.obj} : handled'[x] = handled[x]
        /\ \A x \in Objects \ {worker.obj} : x \in lost => x \in lost'
        /\ worker.pc = "tell" /\ worker'.pc = "end" /\ worker'.obj = worker.obj
    BY <1>0, <1>7 DEF TellTracker, TypeOK, WorkerState
  <2>2. \A x \in Objects : Coming(x) => Coming(x)'
    BY <2>1 DEF Coming
  <2>3. \A x \in Objects : x = worker.obj => handled'[x] = ver'[x] \/ Coming(x)'
    BY <2>1, <2>2 DEF OvertakenComes
  <2>4. NoEventForgotten'
    BY <2>1, <2>2, <2>3 DEF NoEventForgotten, Probing
  <2> QED BY <2>1, <2>4 DEF OvertakenComes
<1>8. CASE Panic
  <2>1. /\ UNCHANGED <<ver, handled, notes, sub, dirty, waiting>>
        /\ lost' = lost \cup {worker.obj}
        /\ worker'.pc = "end" /\ worker'.obj = worker.obj
    BY <1>0, <1>8 DEF Panic, WorkerState
  <2> QED BY <2>1 DEF NoEventForgotten, OvertakenComes, Probing, Coming
<1>9. CASE EndProcessing \/ WorkerDone
  <2>1. /\ UNCHANGED <<ver, handled, lost, notes, sub, dirty, waiting>>
        /\ worker.pc \in {"end", "done"} /\ worker'.pc \in {"done", "idle"}
    BY <1>0, <1>9, BridgeConstants DEF EndProcessing, WorkerDone, WorkerState
  <2> QED BY <2>1 DEF NoEventForgotten, OvertakenComes, Probing, Coming
<1> QED BY <1>1, <1>2, <1>3, <1>4, <1>5, <1>6, <1>7, <1>8, <1>9 DEF Next, Worker

\* No change is forgotten by the bridge, whatever is deduplicated, requeued or
\* overtaken: for any number of coordinates, changes and requeues.
THEOREM NothingForgotten == Spec => []NoEventForgotten
<1>1. Init => TypeOK /\ NoEventForgotten /\ OvertakenComes
  BY BridgeTypeInit, ForgottenInit
<1>2. TypeOK /\ NoEventForgotten /\ OvertakenComes /\ [Next]_vars
        => (TypeOK /\ NoEventForgotten /\ OvertakenComes)'
  BY BridgeTypeNext, ForgottenNext
<1> QED BY <1>1, <1>2, PTL DEF Spec

----------------------------------------------------------------------------
\* The in-flight marks.

\* What is noted never runs ahead of the indexer: a change is noted after it
\* happened, on its way through the notes and a submit.
LEMMA NotedInStoreNext ==
    ASSUME TypeOK, NotedInStore, [Next]_vars
    PROVE  NotedInStore'
<1> USE DEF storeVars, queueVars, trackerVars
<1>1. ASSUME NEW o \in Objects, Change(o) PROVE NotedInStore'
  <2>1. /\ UNCHANGED <<noted, sub>>
        /\ ver' = [ver EXCEPT ![o] = @ + 1] /\ ver \in [Objects -> Nat]
    BY <1>1 DEF Change, TypeOK
  <2>2. \A x \in Objects : ver[x] <= ver'[x] /\ ver[x] \in Nat /\ ver'[x] \in Nat
    BY <2>1
  <2>3. PICK m \in {"update", "membership"} :
           notes' = Append(notes, [obj |-> o, mask |-> {m}, ver |-> ver[o] + 1])
    BY <1>1 DEF Change
  <2> DEFINE n == [obj |-> o, mask |-> {m}, ver |-> ver[o] + 1]
  <2>4. n \in Note /\ n.obj = o /\ n.ver = ver'[o]
    BY <2>1, <2>2 DEF Note, Bits
  <2> HIDE DEF n
  <2>5. notes \in Seq(Note) /\ notes' = Append(notes, n)
    BY <2>3 DEF TypeOK, n
  <2>6. \A i \in DOMAIN notes' : (i \in DOMAIN notes /\ notes'[i] = notes[i]) \/ notes'[i] = n
    BY <2>4, <2>5
  <2>7. \A i \in DOMAIN notes : notes[i].obj \in Objects /\ notes[i].ver \in Nat
    <3>1. \A i \in DOMAIN notes : notes[i] \in Note
      BY <2>5
    <3>2. \A e \in Note : e.obj \in Objects /\ e.ver \in Nat
      BY DEF Note
    <3> QED BY <3>1, <3>2
  <2>8. \A i \in DOMAIN notes' : notes'[i].ver <= ver'[notes'[i].obj]
    BY <2>2, <2>4, <2>6, <2>7 DEF NotedInStore
  <2>9. /\ \A x \in Objects : noted[x] \in Nat
        /\ \A s \in Submitters : sub[s].obj \in Objects /\ sub[s].ver \in Nat
    BY DEF TypeOK, Call
  <2> QED BY <2>1, <2>2, <2>8, <2>9 DEF NotedInStore
<1>2. CASE Handler
  <2>1. /\ UNCHANGED <<ver, noted>> /\ notes \in Seq(Note) /\ notes # <<>>
        /\ notes' = Tail(notes)
        /\ sub'["informer"].obj = Head(notes).obj /\ sub'["informer"].ver = Head(notes).ver
        /\ \A s \in Submitters \ {"informer"} : sub'[s] = sub[s]
    BY <1>2 DEF Handler, TypeOK, Submitters
  <2>2. Head(notes) = notes[1] /\ 1 \in DOMAIN notes
    BY <2>1
  <2>3. \A i \in DOMAIN notes' : i + 1 \in DOMAIN notes /\ notes'[i] = notes[i + 1]
    BY <2>1
  <2> QED BY <2>1, <2>2, <2>3 DEF NotedInStore
<1>3. ASSUME NEW o \in Objects, Audit(o) PROVE NotedInStore'
  <2>1. /\ UNCHANGED <<ver, noted, notes>>
        /\ sub'["reconcile"].obj = o /\ sub'["reconcile"].ver = 0
        /\ \A s \in Submitters \ {"reconcile"} : sub'[s] = sub[s]
    BY <1>3 DEF Audit, TypeOK, Submitters
  <2>2. ver[o] \in Nat
    BY DEF TypeOK
  <2> QED BY <2>1, <2>2 DEF NotedInStore
<1>4. ASSUME NEW s \in Submitters, SubmitMerge(s) \/ SubmitMark(s) PROVE NotedInStore'
  <2>1. /\ UNCHANGED <<ver, notes>>
        /\ \A q \in Submitters : sub'[q].obj = sub[q].obj /\ sub'[q].ver = sub[q].ver
    <3>1. /\ sub \in [Submitters -> Call]
          /\ \/ sub' = [sub EXCEPT ![s].pc = "mark"]
             \/ sub' = [sub EXCEPT ![s].pc = "add"]
      BY <1>4 DEF SubmitMerge, SubmitMark, TypeOK
    <3>2. CASE sub' = [sub EXCEPT ![s].pc = "mark"]
      BY <1>4, <3>1, <3>2 DEF SubmitMerge, SubmitMark, Call
    <3>3. CASE sub' = [sub EXCEPT ![s].pc = "add"]
      BY <1>4, <3>1, <3>3 DEF SubmitMerge, SubmitMark, Call
    <3> QED BY <3>1, <3>2, <3>3
  <2>2. \A x \in Objects : \/ noted'[x] = noted[x]
                           \/ x = sub[s].obj /\ noted'[x] = sub[s].ver
    BY <1>4 DEF SubmitMerge, SubmitMark, TypeOK
  <2> QED BY <2>1, <2>2 DEF NotedInStore
<1>5. ASSUME NEW s \in Submitters, SubmitAdd(s) PROVE NotedInStore'
  <2>1. /\ UNCHANGED <<ver, notes, noted>>
        /\ sub'[s].obj = NoObject /\ sub'[s].ver = 0
        /\ \A q \in Submitters \ {s} : sub'[q] = sub[q]
    BY <1>5 DEF SubmitAdd, TypeOK, NoCall
  <2>2. ver[NoObject] \in Nat
    BY BridgeConstants DEF TypeOK
  <2> QED BY <2>1, <2>2 DEF NotedInStore
<1>6. CASE \/ \E o \in Objects : BackoffEnds(o)
           \/ Servability \/ Worker \/ UNCHANGED vars
  <2>1. UNCHANGED <<ver, notes, sub, noted>>
    BY <1>6 DEF BackoffEnds, Servability, Worker, WorkerGet, BeginProcessing, TakeMask,
       ProbeKnown, ProbeUnknown, ProbeDegraded, RequeueMerge, RequeueMark, RequeueAdd,
       TellTracker, Panic, EndProcessing, WorkerDone, vars
  <2> QED BY <2>1 DEF NotedInStore
<1> QED BY <1>1, <1>2, <1>3, <1>4, <1>5, <1>6 DEF Next, Submit

\* No step lets a noted change out of queued and processing before the tracker
\* is told.
LEMMA InFlightNext ==
    ASSUME TypeOK, NotedInStore, HeldIsProcessing, InFlightCovered, [Next]_vars
    PROVE  HeldIsProcessing' /\ InFlightCovered'
<1> USE DEF storeVars, queueVars, trackerVars
<1>0. worker \in WorkerState /\ worker.obj \in Objects /\ worker.ver \in Nat
  BY DEF TypeOK, WorkerState
<1>1. CASE \/ \E o \in Objects : Change(o) \/ Audit(o) \/ BackoffEnds(o)
           \/ Servability \/ Handler \/ UNCHANGED vars
           \/ \E s \in Submitters : SubmitMerge(s) \/ SubmitAdd(s)
  <2>1. UNCHANGED <<worker, noted, handled, lost, queued, processing>>
    BY <1>1 DEF Change, Audit, BackoffEnds, Servability, Handler, vars, SubmitMerge, SubmitAdd
  <2> QED BY <2>1 DEF HeldIsProcessing, InFlightCovered
<1>2. ASSUME NEW s \in Submitters, SubmitMark(s) PROVE HeldIsProcessing' /\ InFlightCovered'
  <2>1. /\ UNCHANGED <<worker, handled, lost, processing>>
        /\ queued' = queued \cup {sub[s].obj}
        /\ \A x \in Objects \ {sub[s].obj} : noted'[x] = noted[x]
    BY <1>2 DEF SubmitMark, TypeOK
  <2> QED BY <1>0, <2>1 DEF HeldIsProcessing, InFlightCovered
<1>3. CASE WorkerGet
  <2>1. UNCHANGED <<noted, handled, lost, queued, processing>> /\ worker'.pc = "begin"
    BY <1>3, BridgeConstants DEF WorkerGet, WorkerState
  <2> QED BY <2>1 DEF HeldIsProcessing, InFlightCovered, Held
<1>4. CASE BeginProcessing
  <2>1. /\ UNCHANGED <<noted, handled, lost>>
        /\ queued' = queued \ {worker.obj} /\ processing' = processing \cup {worker.obj}
        /\ worker'.pc = "take" /\ worker'.obj = worker.obj
    BY <1>0, <1>4 DEF BeginProcessing, WorkerState
  <2> QED BY <2>1 DEF HeldIsProcessing, InFlightCovered, Held
<1>5. CASE TakeMask \/ ProbeUnknown \/ RequeueMerge
  <2>1. /\ UNCHANGED <<noted, handled, lost, queued, processing>>
        /\ worker.pc \in Held /\ worker'.pc \in {"probe", "remerge", "remark"}
        /\ worker'.obj = worker.obj
    BY <1>0, <1>5 DEF TakeMask, ProbeUnknown, RequeueMerge, WorkerState, Held
  <2> QED BY <2>1 DEF HeldIsProcessing, InFlightCovered
<1>6. CASE ProbeKnown \/ ProbeDegraded
  <2>1. /\ UNCHANGED <<noted, handled, lost, queued, processing>>
        /\ worker.pc \in Held /\ worker'.pc = "tell"
        /\ worker'.obj = worker.obj /\ worker'.ver = ver[worker.obj]
    BY <1>0, <1>6 DEF ProbeKnown, ProbeDegraded, WorkerState, AfterBudget, Held
  <2>2. noted[worker.obj] <= ver[worker.obj]
    BY <1>0 DEF NotedInStore
  <2> QED BY <2>1, <2>2 DEF HeldIsProcessing, InFlightCovered
<1>7. CASE RequeueMark
  <2>1. /\ UNCHANGED <<noted, handled, lost, processing>>
        /\ queued' = queued \cup {worker.obj}
        /\ worker.pc \in Held /\ worker'.pc = "readd" /\ worker'.obj = worker.obj
    BY <1>0, <1>7 DEF RequeueMark, WorkerState, Marked, Held
  <2> QED BY <2>1 DEF HeldIsProcessing, InFlightCovered
<1>8. CASE RequeueAdd
  <2>1. /\ UNCHANGED <<noted, handled, lost, queued, processing>>
        /\ worker.pc = "readd" /\ worker'.pc = "end" /\ worker'.obj = worker.obj
    BY <1>0, <1>8 DEF RequeueAdd, WorkerState
  <2> QED BY <2>1 DEF HeldIsProcessing, InFlightCovered, Held
<1>9. CASE TellTracker
  <2>1. /\ UNCHANGED <<noted, queued, processing>>
        /\ handled'[worker.obj] = worker.ver
        /\ \A x \in Objects \ {worker.obj} : handled'[x] = handled[x]
        /\ lost' = lost \ {worker.obj}
        /\ worker.pc = "tell" /\ worker'.pc = "end" /\ worker'.obj = worker.obj
    BY <1>0, <1>9 DEF TellTracker, TypeOK, WorkerState
  <2>2. noted[worker.obj] <= handled'[worker.obj] \/ worker.obj \in queued
    BY <2>1 DEF HeldIsProcessing
  <2>3. noted[worker.obj] \in Nat
    BY <1>0 DEF TypeOK
  <2>4. HeldIsProcessing'
    BY <2>1, <2>2 DEF HeldIsProcessing, Held
  <2>5. worker.obj \in processing
    BY <2>1 DEF HeldIsProcessing, Held
  <2> QED BY <2>1, <2>4, <2>5 DEF InFlightCovered
<1>10. CASE Panic
  <2>1. /\ UNCHANGED <<noted, handled, queued, processing>>
        /\ lost' = lost \cup {worker.obj}
        /\ worker.pc \in Held /\ worker'.pc = "end" /\ worker'.obj = worker.obj
    BY <1>0, <1>10 DEF Panic, WorkerState, Held
  <2> QED BY <2>1 DEF HeldIsProcessing, InFlightCovered
<1>11. CASE EndProcessing
  <2>1. /\ UNCHANGED <<noted, handled, lost, queued>>
        /\ processing' = processing \ {worker.obj}
        /\ worker.pc = "end" /\ worker'.pc = "done"
    BY <1>0, <1>11 DEF EndProcessing, WorkerState
  <2>2. HeldIsProcessing'
    BY <2>1 DEF HeldIsProcessing, Held
  <2>3. noted[worker.obj] > handled[worker.obj] /\ worker.obj \notin lost => worker.obj \in queued
    <3>1. noted[worker.obj] \in Nat /\ handled[worker.obj] \in Nat
      BY <1>0 DEF TypeOK
    <3> QED BY <2>1, <3>1 DEF HeldIsProcessing
  <2> QED BY <2>1, <2>2, <2>3 DEF InFlightCovered
<1>12. CASE WorkerDone
  <2>1. UNCHANGED <<noted, handled, lost, queued, processing>> /\ worker'.pc = "idle"
    BY <1>12, BridgeConstants DEF WorkerDone
  <2> QED BY <2>1 DEF HeldIsProcessing, InFlightCovered, Held
<1> QED BY <1>1, <1>2, <1>3, <1>4, <1>5, <1>6, <1>7, <1>8, <1>9, <1>10, <1>11, <1>12
        DEF Next, Worker, Submit

\* What depWatchInFlight answers is sound: a marked change is in queued or in
\* processing until the tracker was told, however submits and the worker interleave.
THEOREM InFlightAlwaysCovered == Spec => []InFlightCovered
<1> DEFINE Inv == TypeOK /\ NotedInStore /\ HeldIsProcessing /\ InFlightCovered
<1>1. Init => Inv
  <2>1. Init => NotedInStore
    BY BridgeConstants DEF Init, NotedInStore, NoCall
  <2>2. Init => HeldIsProcessing /\ InFlightCovered
    BY BridgeConstants DEF Init, HeldIsProcessing, InFlightCovered, Held
  <2> QED BY <2>1, <2>2, BridgeTypeInit
<1>2. Inv /\ [Next]_vars => Inv'
  BY BridgeTypeNext, NotedInStoreNext, InFlightNext
<1>3. Inv => InFlightCovered
  OBVIOUS
<1> QED BY <1>1, <1>2, <1>3, PTL DEF Spec

----------------------------------------------------------------------------
\* The transition masks.

\* No step loses a bit of a mask, and every mask in the map has somebody who
\* will fetch it.
LEMMA MasksNext ==
    ASSUME TypeOK, MaskFetched, MasksNotLost, [Next]_vars
    PROVE  MaskFetched' /\ MasksNotLost'
<1> USE DEF storeVars, queueVars, trackerVars
<1> DEFINE With(o) == IF worker.obj = o THEN worker.mask ELSE {}
           Kept == \A o \in Objects : unseen[o] \subseteq masks[o] \cup With(o)
<1>0. worker \in WorkerState /\ worker.obj \in Objects /\ worker.mask \in SUBSET Bits
  BY DEF TypeOK, WorkerState
<1>1. SUFFICES MaskFetched' /\ Kept'
  BY DEF MaskFetched, MasksNotLost, Probing
<1>2. Kept
  BY DEF MasksNotLost
<1>3. CASE \/ \E o \in Objects : Change(o) \/ Audit(o) \/ BackoffEnds(o)
           \/ Servability \/ Handler \/ UNCHANGED vars
           \/ \E s \in Submitters : SubmitMark(s) \/ SubmitAdd(s)
  <2>1. UNCHANGED <<worker, masks, unseen>>
    BY <1>3 DEF Change, Audit, BackoffEnds, Servability, Handler, vars, SubmitMark, SubmitAdd
  <2>2. \A x \in Objects : Coming(x) => Coming(x)'
    BY <2>1, ComingKept
  <2> QED BY <1>2, <2>1, <2>2 DEF MaskFetched
<1>4. ASSUME NEW s \in Submitters, SubmitMerge(s) PROVE MaskFetched' /\ Kept'
  <2>1. /\ sub[s].obj \in Objects /\ UNCHANGED worker
        /\ masks' = [masks EXCEPT ![sub[s].obj] = @ \cup sub[s].mask]
        /\ unseen' = [unseen EXCEPT ![sub[s].obj] = @ \cup sub[s].mask]
        /\ sub'[s].obj = sub[s].obj /\ sub'[s].pc = "mark"
    BY <1>4 DEF SubmitMerge, TypeOK, Call, mergeMask
  <2>2. /\ \A x \in Objects : Coming(x) => Coming(x)'
        /\ Coming(sub[s].obj)'
    BY <2>1, ComingKept DEF Coming
  <2>3. \A x \in Objects \ {sub[s].obj} : masks'[x] = masks[x] /\ unseen'[x] = unseen[x]
    BY <2>1 DEF TypeOK
  <2>4. /\ masks'[sub[s].obj] = masks[sub[s].obj] \cup sub[s].mask
        /\ unseen'[sub[s].obj] = unseen[sub[s].obj] \cup sub[s].mask
    BY <2>1 DEF TypeOK
  <2>5. Kept'
    BY <1>2, <2>1, <2>3, <2>4
  <2> QED BY <2>1, <2>2, <2>3, <2>5 DEF MaskFetched
<1>5. CASE WorkerGet
  <2>1. /\ UNCHANGED <<masks, unseen>> /\ worker.pc = "idle" /\ worker'.pc = "begin"
        /\ worker'.mask = {}
    BY <1>5, BridgeConstants DEF WorkerGet, WorkerState
  <2>2. worker.mask = {}
    BY <2>1 DEF MaskFetched
  <2>3. \A x \in Objects : Coming(x) => Coming(x)' \/ worker'.obj = x
    BY <2>1, ComingKept
  <2> QED BY <1>2, <2>1, <2>2, <2>3 DEF MaskFetched
<1>6. CASE BeginProcessing \/ ProbeUnknown \/ ProbeKnown \/ ProbeDegraded \/ RequeueMark
  <2>1. /\ UNCHANGED <<masks, unseen, notes, sub, dirty, waiting>>
        /\ worker'.obj = worker.obj /\ worker'.mask = worker.mask
        /\ \/ worker.pc = "begin" /\ worker'.pc = "take"
           \/ worker.pc = "probe" /\ worker'.pc \in {"remerge", "tell"}
           \/ worker.pc = "remark" /\ worker'.pc = "readd"
    BY <1>0, <1>6 DEF BeginProcessing, ProbeUnknown, ProbeKnown, ProbeDegraded, RequeueMark,
       AfterBudget, WorkerState
  <2>2. Kept'
    BY <1>2, <2>1
  <2> QED BY <2>1, <2>2 DEF MaskFetched, Coming
<1>7. CASE TakeMask
  <2>1. /\ UNCHANGED <<unseen, notes, sub, dirty, waiting>>
        /\ masks' = [masks EXCEPT ![worker.obj] = {}] /\ masks \in [Objects -> SUBSET Bits]
        /\ worker.pc = "take" /\ worker'.pc = "probe"
        /\ worker'.obj = worker.obj /\ worker'.mask = masks[worker.obj]
    BY <1>0, <1>7 DEF TakeMask, WorkerState, TypeOK
  <2>2. worker.mask = {}
    BY <2>1 DEF MaskFetched
  <2>3. Kept'
    BY <1>0, <1>2, <2>1, <2>2
  <2> QED BY <1>0, <2>1, <2>3 DEF MaskFetched, Coming
<1>8. CASE RequeueMerge
  <2>1. /\ UNCHANGED <<unseen, notes, sub, dirty, waiting>>
        /\ masks' = [masks EXCEPT ![worker.obj] = @ \cup worker.mask]
        /\ masks \in [Objects -> SUBSET Bits]
        /\ worker'.pc = "remark" /\ worker'.obj = worker.obj /\ worker'.mask = {}
        /\ worker.pc = "remerge"
    BY <1>0, <1>8 DEF RequeueMerge, WorkerState, TypeOK, mergeMask
  <2>2. Kept'
    BY <1>0, <1>2, <2>1
  <2> QED BY <1>0, <2>1, <2>2 DEF MaskFetched, Coming
<1>9. CASE RequeueAdd
  <2>1. /\ UNCHANGED <<masks, unseen, notes, sub, dirty>>
        /\ waiting' = waiting \cup {worker.obj}
        /\ worker.pc = "readd" /\ worker'.pc = "end"
        /\ worker'.obj = worker.obj /\ worker'.mask = worker.mask
    BY <1>0, <1>9 DEF RequeueAdd, Delayed, WorkerState
  <2>2. Kept'
    BY <1>2, <2>1
  <2> QED BY <2>1, <2>2 DEF MaskFetched, Coming
<1>10. CASE TellTracker \/ Panic
  <2>1. /\ UNCHANGED <<masks, notes, sub, dirty, waiting>>
        /\ unseen' = [unseen EXCEPT ![worker.obj] = @ \ (worker.mask \ masks[worker.obj])]
        /\ unseen \in [Objects -> SUBSET Bits]
        /\ worker.pc \in {"probe", "tell"} /\ worker'.pc = "end"
        /\ worker'.obj = worker.obj /\ worker'.mask = {}
    BY <1>0, <1>10 DEF TellTracker, Panic, WorkerState, TypeOK
  <2>2. Kept'
    BY <1>0, <1>2, <2>1
  <2> QED BY <2>1, <2>2 DEF MaskFetched, Coming
<1>11. CASE EndProcessing \/ WorkerDone
  <2>1. /\ UNCHANGED <<masks, unseen, notes, sub, dirty, waiting>>
        /\ worker.pc \in {"end", "done"} /\ worker'.mask \in {worker.mask, {}}
    BY <1>0, <1>11, BridgeConstants DEF EndProcessing, WorkerDone, WorkerState
  <2>2. worker.mask = {} /\ worker'.mask = {}
    BY <2>1 DEF MaskFetched
  <2>3. Kept'
    BY <1>2, <2>1, <2>2
  <2> QED BY <2>1, <2>2, <2>3 DEF MaskFetched, Coming
<1> QED BY <1>3, <1>4, <1>5, <1>6, <1>7, <1>8, <1>9, <1>10, <1>11 DEF Next, Worker, Submit

\* The queue coalesces a coordinate's submits, the masks do not: no transition a
\* handler merged is gone before the tracker is told, for any number of submits.
THEOREM MasksKept == Spec => []MasksNotLost
<1>1. Init => TypeOK /\ MaskFetched /\ MasksNotLost
  BY BridgeConstants, BridgeTypeInit DEF Init, MaskFetched, MasksNotLost
<1>2. TypeOK /\ MaskFetched /\ MasksNotLost /\ [Next]_vars
        => (TypeOK /\ MaskFetched /\ MasksNotLost)'
  BY BridgeTypeNext, MasksNext
<1> QED BY <1>1, <1>2, PTL DEF Spec

----------------------------------------------------------------------------
\* The bridge implements EventFeed (its safety part).

\* At the start the tracker knows what the indexer holds.
LEMMA TellsInit == Init => TellsInOrder
  BY BridgeConstants DEF Init, TellsInOrder

\* Versions only grow and one worker tells them in the order it probed them.
LEMMA TellsNext ==
    ASSUME TypeOK, TellsInOrder, [Next]_vars
    PROVE  TellsInOrder'
<1> USE DEF storeVars, queueVars, trackerVars
<1>0. /\ worker \in WorkerState /\ worker.obj \in Objects /\ worker.ver \in Nat
      /\ \A o \in Objects : handled[o] \in Nat /\ ver[o] \in Nat
  BY DEF TypeOK, WorkerState
<1>1. CASE \/ \E o \in Objects : Audit(o) \/ BackoffEnds(o)
           \/ Servability \/ Handler \/ UNCHANGED vars
           \/ \E s \in Submitters : Submit(s)
  <2>1. UNCHANGED <<ver, alive, worker, handled>>
    BY <1>1 DEF Audit, BackoffEnds, Servability, Handler, vars, Submit, SubmitMerge,
       SubmitMark, SubmitAdd
  <2> QED BY <2>1 DEF TellsInOrder
<1>2. ASSUME NEW o \in Objects, Change(o) PROVE TellsInOrder'
  <2>1. /\ UNCHANGED <<worker, handled>>
        /\ ver'[o] = ver[o] + 1 /\ \A x \in Objects \ {o} : ver'[x] = ver[x]
        /\ \A x \in Objects \ {o} : x \in alive' <=> x \in alive
    BY <1>2 DEF Change, TypeOK
  <2> QED BY <1>0, <2>1 DEF TellsInOrder
<1>3. CASE \/ WorkerGet \/ BeginProcessing \/ TakeMask \/ ProbeUnknown \/ RequeueMerge
           \/ RequeueMark \/ RequeueAdd \/ Panic \/ EndProcessing \/ WorkerDone
  <2>1. UNCHANGED <<ver, alive, handled>>
    BY <1>3 DEF WorkerGet, BeginProcessing, TakeMask, ProbeUnknown, RequeueMerge,
       RequeueMark, RequeueAdd, Panic, EndProcessing, WorkerDone
  <2>2. worker'.pc # "tell"
    BY <1>0, <1>3, BridgeConstants DEF WorkerGet, BeginProcessing, TakeMask, ProbeUnknown,
       RequeueMerge, RequeueMark, RequeueAdd, Panic, EndProcessing, WorkerDone, WorkerState
  <2> QED BY <2>1, <2>2 DEF TellsInOrder
<1>4. CASE ProbeKnown \/ ProbeDegraded
  <2>1. /\ UNCHANGED <<ver, alive, handled>>
        /\ worker'.obj = worker.obj /\ worker'.ver = ver[worker.obj]
        /\ worker'.state \in {IF worker.obj \in alive THEN "EXISTS" ELSE "ABSENT",
                              "UNKNOWN_DEGRADED"}
    BY <1>0, <1>4 DEF ProbeKnown, ProbeDegraded, WorkerState
  <2> QED BY <1>0, <2>1 DEF TellsInOrder
<1>5. CASE TellTracker
  <2>1. /\ UNCHANGED <<ver, alive>> /\ worker.pc = "tell" /\ worker'.pc = "end"
        /\ handled'[worker.obj] = worker.ver
        /\ \A x \in Objects \ {worker.obj} : handled'[x] = handled[x]
    BY <1>0, <1>5 DEF TellTracker, TypeOK, WorkerState
  <2> QED BY <1>0, <2>1 DEF TellsInOrder
<1> QED BY <1>1, <1>2, <1>3, <1>4, <1>5 DEF Next, Worker

\* A step of the bridge is a change, a telling or a loss of the feed, or nothing.
LEMMA FeedStep ==
    ASSUME TypeOK, TellsInOrder, [Next]_vars
    PROVE  [Feed!Next]_(Feed!vars)
<1> USE DEF storeVars, queueVars, trackerVars
<1> DEFINE Owed == {o \in Objects : handled[o] # ver[o]}
<1>0. /\ worker \in WorkerState /\ worker.obj \in Objects /\ worker.ver \in Nat
      /\ worker.state \in States
      /\ \A o \in Objects : handled[o] \in Nat /\ ver[o] \in Nat
  BY DEF TypeOK, WorkerState
<1>1. ASSUME UNCHANGED <<ver, alive, handled, told, lost>> PROVE UNCHANGED Feed!vars
  BY <1>1 DEF Feed!vars
<1>2. CASE \/ \E o \in Objects : Audit(o) \/ BackoffEnds(o)
           \/ Servability \/ Handler \/ UNCHANGED vars
           \/ \E s \in Submitters : Submit(s)
           \/ WorkerGet \/ BeginProcessing \/ TakeMask \/ ProbeKnown \/ ProbeUnknown
           \/ ProbeDegraded \/ RequeueMerge \/ RequeueMark \/ RequeueAdd
           \/ EndProcessing \/ WorkerDone
  <2>1. UNCHANGED <<ver, alive, handled, told, lost>>
    BY <1>2 DEF Audit, BackoffEnds, Servability, Handler, vars, Submit, SubmitMerge,
       SubmitMark, SubmitAdd, WorkerGet, BeginProcessing, TakeMask, ProbeKnown,
       ProbeUnknown, ProbeDegraded, RequeueMerge, RequeueMark, RequeueAdd, EndProcessing,
       WorkerDone
  <2> QED BY <1>1, <2>1
<1>3. ASSUME NEW o \in Objects, Change(o) PROVE Feed!Change(o)
  <2>1. /\ UNCHANGED <<handled, told, lost>>
        /\ alive' \in {alive \cup {o}, alive \ {o}}
        /\ ver'[o] = ver[o] + 1 /\ \A x \in Objects \ {o} : ver'[x] = ver[x]
    BY <1>3 DEF Change, TypeOK
  <2>2. ver'[o] # handled[o]
    BY <1>0, <2>1 DEF TellsInOrder
  <2>3. Owed' = Owed \cup {o}
    BY <2>1, <2>2
  <2> QED BY <2>1, <2>3 DEF Feed!Change
<1>4. CASE TellTracker
  <2>0. PICK o \in Objects : o = worker.obj
    BY <1>0
  <2>1. /\ UNCHANGED <<ver, alive>> /\ worker.pc = "tell"
        /\ handled'[o] = worker.ver /\ \A x \in Objects \ {o} : handled'[x] = handled[x]
        /\ told' = [told EXCEPT ![o] = worker.state] /\ lost' = lost \ {o}
    BY <1>0, <1>4, <2>0 DEF TellTracker, TypeOK
  <2>2. CASE worker.ver = ver[o]
    <3>1. Owed' = Owed \ {o}
      BY <1>0, <2>1, <2>2
    <3>2. worker.state \in {IF o \in alive THEN "EXISTS" ELSE "ABSENT", "UNKNOWN_DEGRADED"}
      BY <2>0, <2>1, <2>2 DEF TellsInOrder
    <3>3. Feed!Tell(o)
      BY <2>1, <3>1, <3>2 DEF Feed!Tell
    <3> QED BY <3>3 DEF Feed!Next
  <2>3. CASE worker.ver # ver[o]
    <3>1. handled[o] # ver[o]
      BY <1>0, <2>0, <2>1, <2>3 DEF TellsInOrder
    <3>2. Owed' = Owed /\ o \in Owed
      BY <1>0, <2>1, <2>3, <3>1
    <3>3. Feed!Tell(o)
      BY <1>0, <2>1, <3>2 DEF Feed!Tell, States, Feed!States
    <3> QED BY <3>3 DEF Feed!Next
  <2> QED BY <2>2, <2>3
<1>5. CASE Panic
  <2>1. Feed!Lose(worker.obj)
    BY <1>5 DEF Panic, Feed!Lose
  <2> QED BY <1>0, <2>1 DEF Feed!Next
<1>6. ASSUME NEW o \in Objects, Change(o) PROVE Feed!Next
  BY <1>3, <1>6 DEF Feed!Next
<1> QED BY <1>2, <1>4, <1>5, <1>6 DEF Next, Worker

\* The bridge with its queue, worker, budget and masks implements the feed: the
\* tracker hears of changes only through tellings that carry what the indexer
\* held or "degraded", and a telling that a change overtook settles nothing.
THEOREM BridgeImplementsFeed == Spec => Feed!Spec
<1>1. Init => Feed!Init
  BY DEF Init, Feed!Init
<1>2. Init => TypeOK /\ TellsInOrder
  BY BridgeTypeInit, TellsInit
<1>3. TypeOK /\ TellsInOrder /\ [Next]_vars => (TypeOK /\ TellsInOrder)'
  BY BridgeTypeNext, TellsNext
<1>4. TypeOK /\ TellsInOrder /\ [Next]_vars => [Feed!Next]_(Feed!vars)
  BY FeedStep
<1> QED BY <1>1, <1>2, <1>3, <1>4, PTL DEF Spec, Feed!Spec

=============================================================================
