------------------------- MODULE StoreSwap_proofs --------------------------
(***************************************************************************)
(* Proofs about StoreSwap, for every number of versions, schema changes,     *)
(* copies and moves.                                                         *)
(***************************************************************************)
EXTENDS StoreSwap, TLAPS

\* A copy that may call the consumer: the registered one, or one whose swap has
\* passed its step 3, until its Run has returned.
Acting(b) == ~done[b] /\ (b = 0 \/ passed[b])

\* Past step 3, and before it.
Delivering == {"unmute", "compute", "deliver"}
Installing == {"sync", "close", "wait"}

\* Who calls is acting.
CallersAct == \A c \in Copies : Calls(c) => Acting(c)

\* Nothing but steps 4 and 6 puts a signal in a queue.
SignalsPassed ==
    \A c \in Copies : \A i \in 1..Len(queue[c]) : queue[c][i].kind # "note" => passed[c]

\* Where a copy is in its swap.
Phases ==
    \A c \in Copies :
        /\ swap[c] \in Delivering => passed[c]
        /\ swap[c] \in Installing => ~passed[c] /\ c # 0
        /\ swap[c] = "sync" \/ c >= built =>
             live # c /\ c \notin retiring /\ \A d \in Copies : c \notin waits[d]
        /\ c >= built => swap[c] = "off" /\ ~passed[c] /\ ~stopped[c]

BuildOpen ==
    build # NoBuild =>
        /\ live # NoCopy
        /\ build.inst < built /\ swap[build.inst] = "sync" /\ ~stopped[build.inst]
        /\ 0 < build.acc /\ build.acc < built

\* The acting copy is live, or retiring: an install that has not passed step 3
\* waits for it.
ActorKnown ==
    /\ \A b \in Copies, d \in Copies : Acting(b) /\ Acting(d) => b = d
    /\ live # NoCopy => \A b \in Copies : Acting(b) => b = live \/ b \in retiring
    /\ \A c \in Copies : live = c /\ swap[c] \in {"close", "wait"} =>
         \A b \in Copies : Acting(b) => b \in waits[c]

----------------------------------------------------------------------------
\* Copies are numbered.
LEMMA CopyFacts ==
    /\ Copies \subseteq Int /\ 0 \in Copies /\ NoCopy \notin Copies
    /\ \A c \in Copies : 0 <= c
  BY ConstantsAssumption DEF Copies, NoCopy

\* What Phases, BuildOpen and ActorKnown speak of.
phaseVars == <<stopped, done, passed, swap, waits, live, build, built, retiring>>

\* The steps, by name.
LEMMA Steps ==
    ASSUME Next
    PROVE  \/ Write \/ RequestDivergence \/ RequestSchema \/ CleanPass \/ Teardown \/ CleanPassEnds
           \/ \E c \in Copies :
                \/ Watch(c) \/ Distribute(c) \/ RunReturns(c)
                \/ DeliverSuppressed(c) \/ DeliverMuted(c) \/ DeliverLive(c) \/ UnmuteArrives(c)
                \/ SwapSkipped(c) \/ SwapDeliver(c) \/ Record(c) \/ SwapRecord(c)
                \/ GiveUp(c) \/ Install(c) \/ CloseRetiring(c) \/ CheckLater(c)
                \/ Unmute(c) \/ ComputeM(c) \/ DeliverM(c)
                \/ ListRefused(c) \/ \E v \in Versions : List(c, v)
  BY Zenon DEF Next, Environment, Own, Informer, Listener, InstallBuild, Lists

\* The steps of the informers and the listeners leave the swap alone, but for the
\* end of a Run.
LEMMA PhaseFrame ==
    ASSUME NEW c \in Copies,
           \/ Watch(c) \/ Distribute(c) \/ (\E v \in Versions : List(c, v))
           \/ DeliverSuppressed(c) \/ DeliverMuted(c) \/ DeliverLive(c) \/ UnmuteArrives(c)
           \/ SwapSkipped(c) \/ SwapDeliver(c) \/ Record(c) \/ SwapRecord(c)
    PROVE  UNCHANGED phaseVars
  BY DEF phaseVars, Watch, Distribute, List, DeliverSuppressed, DeliverMuted, DeliverLive,
     UnmuteArrives, SwapSkipped, SwapDeliver, Record, SwapRecord, runVars, swapVars, buildVars

PhaseInv == Phases /\ BuildOpen /\ ActorKnown

\* A step that touches none of these keeps where the copies are in their swaps.
LEMMA PhaseKept ==
    ASSUME PhaseInv, UNCHANGED phaseVars
    PROVE  PhaseInv'
  BY DEF phaseVars, PhaseInv, Phases, BuildOpen, ActorKnown, Acting

\* A request constructs a copy, or joins the open build.
LEMMA PhaseRequest ==
    ASSUME BuildTypeOK, FlagTypeOK, PhaseInv, NEW r, RequestBuild(r)
    PROVE  PhaseInv'
<1> USE CopyFacts
<1>1. CASE build = NoBuild \/ r = "schema"
  <2>1. /\ built \in Copies /\ built > 0 /\ built' = built + 1
        /\ swap' = [swap EXCEPT ![built] = "sync"]
        /\ build' = [inst |-> built, acc |-> IF build = NoBuild THEN built ELSE build.acc]
        /\ live # NoCopy
        /\ UNCHANGED <<done, waits, passed, live, retiring>>
        /\ stopped' = IF build = NoBuild THEN stopped ELSE [stopped EXCEPT ![build.inst] = TRUE]
    BY <1>1, ConstantsAssumption DEF RequestBuild, Construct, BuildTypeOK, Copies
  <2>2. Phases'
    BY <2>1 DEF Phases, PhaseInv, BuildOpen, BuildTypeOK, FlagTypeOK, Delivering, Installing
  <2>3. /\ ~stopped'[built]
        /\ build = NoBuild \/ (0 < build.acc /\ build.acc < built /\ build.acc \in Copies)
    BY <2>1 DEF Phases, BuildOpen, PhaseInv, BuildTypeOK, FlagTypeOK
  <2>7. build'.inst = built /\ build'.acc = (IF build = NoBuild THEN built ELSE build.acc)
    BY <2>1
  <2>8. swap'[built] = "sync"
    BY <2>1 DEF BuildTypeOK
  <2>6. /\ build'.inst = built /\ swap'[built] = "sync"
        /\ 0 < build'.acc /\ build'.acc < built + 1
    <3>1. built \in Int /\ built > 0
      BY <2>1
    <3>2. CASE build = NoBuild
      BY <3>1, <3>2, <2>7, <2>8
    <3>3. CASE build # NoBuild
      <4>1. build.acc \in Int /\ 0 < build.acc /\ build.acc < built
        BY <2>3, <3>3
      <4> QED BY <3>1, <3>3, <4>1, <2>7, <2>8
    <3> QED BY <3>2, <3>3
  <2>5. BuildOpen'
    BY <2>1, <2>3, <2>6 DEF BuildOpen
  <2>4. ActorKnown'
    BY <2>1 DEF ActorKnown, PhaseInv, Acting, BuildTypeOK, Phases
  <2> QED BY <2>2, <2>5, <2>4 DEF PhaseInv
<1>2. CASE ~(build = NoBuild \/ r = "schema")
  BY <1>2, PhaseKept DEF RequestBuild, phaseVars
<1> QED BY <1>1, <1>2

\* The open build is given up.
LEMMA PhaseAbort ==
    ASSUME BuildTypeOK, FlagTypeOK, PhaseInv, build # NoBuild, Abort,
           UNCHANGED <<done, passed, swap, waits, live, built, retiring>>
    PROVE  PhaseInv'
<1>1. build.inst \in Copies /\ build.inst < built /\ built \in Int
  BY DEF BuildTypeOK, PhaseInv, BuildOpen
<1>2. Phases'
  BY <1>1, CopyFacts DEF PhaseInv, Phases, Abort, FlagTypeOK
<1> QED BY <1>2 DEF PhaseInv, BuildOpen, ActorKnown, Acting, Abort

\* The phases of the copies' swaps, step by step: only the install that is waited
\* for by nobody later may let its copy act.
LEMMA PhaseStep ==
    ASSUME BuildTypeOK, FlagTypeOK, PhaseInv, Next
    PROVE  PhaseInv'
<1> USE CopyFacts
<1>1. CASE Write
  BY <1>1, PhaseKept DEF Write, phaseVars, runVars, swapVars, buildVars
<1>2. CASE RequestDivergence
  BY <1>2, PhaseRequest DEF RequestDivergence
<1>3. CASE RequestSchema
  BY <1>3, PhaseRequest DEF RequestSchema
<1>4. CASE CleanPass
  BY <1>4, PhaseAbort, PhaseKept DEF CleanPass, phaseVars, swapVars
<1>5. CASE Teardown
  <2>1. /\ live' = NoCopy /\ build' = NoBuild /\ retiring' = {}
        /\ UNCHANGED <<done, passed, swap, waits, built>>
        /\ stopped' = [c \in Copies |-> stopped[c] \/ c \in retiring \cup {live, build.inst}]
    BY <1>5 DEF Teardown
  <2>2. build = NoBuild \/ (build.inst \in Copies /\ build.inst < built)
    BY DEF BuildTypeOK, PhaseInv, BuildOpen
  <2>3. NoBuild.inst \notin Copies
    BY DEF NoBuild
  <2>5. \A c \in Copies : c >= built => ~stopped'[c]
    BY <2>1, <2>2, <2>3 DEF PhaseInv, Phases, BuildTypeOK, FlagTypeOK
  <2>4. Phases'
    BY <2>1, <2>5 DEF PhaseInv, Phases
  <2> QED BY <2>1, <2>4 DEF PhaseInv, BuildOpen, ActorKnown, Acting
<1>6. CASE CleanPassEnds
  BY <1>6, PhaseKept DEF CleanPassEnds, phaseVars, runVars, swapVars, buildVars
<1>7. ASSUME NEW c \in Copies, RunReturns(c) PROVE PhaseInv'
  <2>1. /\ done' = [done EXCEPT ![c] = TRUE]
        /\ UNCHANGED <<stopped, passed, swap, waits, live, build, built, retiring>>
    BY <1>7 DEF RunReturns, swapVars, buildVars
  <2>2. Phases' /\ BuildOpen'
    BY <2>1 DEF PhaseInv, Phases, BuildOpen
  <2>3. \A b \in Copies : Acting(b)' => Acting(b)
    BY <2>1 DEF Acting, FlagTypeOK
  <2>4. ActorKnown'
    BY <2>1, <2>3 DEF PhaseInv, ActorKnown
  <2> QED BY <2>2, <2>4 DEF PhaseInv
<1>8. ASSUME NEW c \in Copies, GiveUp(c) PROVE PhaseInv'
  <2>1. /\ swap[c] = "sync" /\ swap' = [swap EXCEPT ![c] = "off"] /\ stopped[c]
        /\ UNCHANGED <<stopped, done, passed, waits, live, build, built, retiring>>
    BY <1>8 DEF GiveUp, At, runVars, buildVars
  <2>2. Phases'
    BY <2>1 DEF PhaseInv, Phases, BuildTypeOK, Installing, Delivering
  <2>4. ActorKnown'
    BY <2>1 DEF PhaseInv, ActorKnown, Acting, BuildTypeOK
  <2>5. BuildOpen'
    BY <2>1 DEF PhaseInv, BuildOpen, BuildTypeOK
  <2> QED BY <2>2, <2>4, <2>5 DEF PhaseInv
<1>9. ASSUME NEW c \in Copies, Install(c) PROVE PhaseInv'
  <2>1. /\ swap[c] = "sync" /\ swap' = [swap EXCEPT ![c] = "close"]
        /\ build.inst = c /\ live # NoCopy /\ live' = c /\ build' = NoBuild
        /\ retiring' = retiring \cup {live}
        /\ waits' = [waits EXCEPT ![c] = retiring \cup {live}]
        /\ UNCHANGED <<stopped, done, passed, built>>
    BY <1>9 DEF Install, At, Retired, runVars
  <2>2. Phases'
    BY <2>1 DEF PhaseInv, Phases, BuildTypeOK, Installing, Delivering
  <2>3. BuildOpen'
    BY <2>1 DEF BuildOpen
  <2>4. ActorKnown'
    BY <2>1 DEF PhaseInv, ActorKnown, Acting, BuildTypeOK
  <2> QED BY <2>2, <2>3, <2>4 DEF PhaseInv
<1>10. ASSUME NEW c \in Copies, CloseRetiring(c) PROVE PhaseInv'
  <2>1. /\ swap[c] = "close" /\ swap' = [swap EXCEPT ![c] = "wait"]
        /\ stopped' = [r \in Copies |-> stopped[r] \/ r \in waits[c]]
        /\ UNCHANGED <<done, passed, waits, live, build, built, retiring>>
    BY <1>10 DEF CloseRetiring, At, buildVars
  <2>2. Phases'
    BY <2>1 DEF PhaseInv, Phases, BuildTypeOK, Installing, Delivering
  <2>3. BuildOpen'
    BY <2>1 DEF PhaseInv, Phases, BuildOpen, BuildTypeOK
  <2>4. ActorKnown'
    BY <2>1 DEF PhaseInv, ActorKnown, Acting, BuildTypeOK
  <2> QED BY <2>2, <2>3, <2>4 DEF PhaseInv
<1>11. ASSUME NEW c \in Copies, CheckLater(c) PROVE PhaseInv'
  <2>1. /\ \A b \in waits[c] : done[b]
        /\ swap[c] = "wait"
        /\ retiring' = retiring \ waits[c] /\ waits' = [waits EXCEPT ![c] = {}]
        /\ UNCHANGED <<stopped, done, live, build, built>>
    BY <1>11 DEF CheckLater, AllReturned, At, runVars
  <2>2. CASE live = c
    <3>1. swap' = [swap EXCEPT ![c] = "unmute"] /\ passed' = [passed EXCEPT ![c] = TRUE]
      BY <1>11, <2>2 DEF CheckLater, At
    <3>2. \A b \in Copies : ~Acting(b)
      BY <2>1, <2>2 DEF PhaseInv, ActorKnown, Acting
    <3>3. \A b \in Copies : Acting(b)' => b = c
      BY <2>1, <3>1, <3>2 DEF Acting, FlagTypeOK
    <3>4. ActorKnown'
      BY <2>1, <2>2, <3>1, <3>3 DEF ActorKnown, BuildTypeOK
    <3>5. Phases' /\ BuildOpen'
      BY <2>1, <2>2, <3>1 DEF PhaseInv, Phases, BuildOpen, BuildTypeOK, FlagTypeOK, Installing,
         Delivering
    <3> QED BY <3>4, <3>5 DEF PhaseInv
  <2>3. CASE live # c
    <3>1. swap' = [swap EXCEPT ![c] = "off"] /\ passed' = passed
      BY <1>11, <2>3 DEF CheckLater, At
    <3>2. \A b \in Copies : Acting(b)' = Acting(b)
      BY <2>1, <3>1 DEF Acting
    <3>3. ActorKnown'
      BY <2>1, <2>3, <3>1, <3>2 DEF PhaseInv, ActorKnown, BuildTypeOK, Acting
    <3>4. Phases' /\ BuildOpen'
      BY <2>1, <3>1 DEF PhaseInv, Phases, BuildOpen, BuildTypeOK, Installing, Delivering
    <3> QED BY <3>3, <3>4 DEF PhaseInv
  <2> QED BY <2>2, <2>3
<1>12. ASSUME NEW c \in Copies, Unmute(c) \/ ComputeM(c) \/ DeliverM(c) PROVE PhaseInv'
  <2>1. /\ swap[c] \in Delivering
        /\ \E q \in {"compute", "deliver", "off"} : swap' = [swap EXCEPT ![c] = q]
        /\ UNCHANGED <<stopped, done, passed, waits, live, build, built, retiring>>
    BY <1>12 DEF Unmute, ComputeM, DeliverM, At, Delivering, runVars, buildVars
  <2>2. Phases' /\ BuildOpen'
    BY <2>1 DEF PhaseInv, Phases, BuildOpen, BuildTypeOK, Installing, Delivering
  <2>3. ActorKnown'
    BY <2>1 DEF PhaseInv, ActorKnown, Acting, BuildTypeOK
  <2> QED BY <2>2, <2>3 DEF PhaseInv
<1>13. ASSUME NEW c \in Copies, ListRefused(c) PROVE PhaseInv'
  <2>1. build # NoBuild
    BY <1>13 DEF ListRefused, NoBuild
  <2> QED BY <1>13, <2>1, PhaseAbort DEF ListRefused, swapVars
<1> QED BY <1>1, <1>2, <1>3, <1>4, <1>5, <1>6, <1>7, <1>8, <1>9, <1>10, <1>11, <1>12, <1>13,
           Steps, PhaseFrame, PhaseKept

----------------------------------------------------------------------------
\* What a listener takes leaves the rest of its queue as it was.
LEMMA SignalsTaken ==
    ASSUME AdapterTypeOK, SignalsPassed, NEW c \in Copies, NEW k, Takes(c, k), passed' = passed
    PROVE  SignalsPassed'
<1>1. queue[c] \in Seq(Notes) /\ queue[c] # <<>> /\ queue' = [queue EXCEPT ![c] = Tail(@)]
  BY DEF Takes, AdapterTypeOK
<1>2. \A i \in 1..Len(Tail(queue[c])) : i + 1 \in 1..Len(queue[c]) /\ Tail(queue[c])[i] = queue[c][i + 1]
  BY <1>1
<1>3. \A d \in Copies : queue'[d] = IF d = c THEN Tail(queue[c]) ELSE queue[d]
  BY <1>1 DEF AdapterTypeOK
<1>4. ASSUME NEW d \in Copies, NEW i \in 1..Len(queue'[d]), queue'[d][i].kind # "note"
      PROVE  passed[d]
  <2>1. CASE d # c
    BY <1>3, <1>4, <2>1 DEF SignalsPassed
  <2>2. CASE d = c
    <3>1. queue'[d] = Tail(queue[c])
      BY <1>3, <2>2
    <3>2. i + 1 \in 1..Len(queue[c]) /\ queue[c][i + 1].kind # "note"
      BY <1>2, <1>4, <3>1
    <3> QED BY <2>2, <3>2 DEF SignalsPassed
  <2> QED BY <2>1, <2>2
<1> QED BY <1>4 DEF SignalsPassed

\* A notification is sent; a signal only by a copy past step 3.
LEMMA SignalsSent ==
    ASSUME AdapterTypeOK, SignalsPassed, NEW c \in Copies, NEW n \in Notes,
           n.kind = "note" \/ passed[c],
           queue' = [queue EXCEPT ![c] = Append(@, n)] \/ queue' = queue,
           passed' = passed
    PROVE  SignalsPassed'
<1>1. CASE queue' = queue
  BY <1>1 DEF SignalsPassed
<1>2. CASE queue' = [queue EXCEPT ![c] = Append(@, n)]
  <2>1. queue[c] \in Seq(Notes)
    BY DEF AdapterTypeOK
  <2>2. \A i \in 1..Len(Append(queue[c], n)) :
           \/ i \in 1..Len(queue[c]) /\ Append(queue[c], n)[i] = queue[c][i]
           \/ Append(queue[c], n)[i] = n
    BY <2>1
  <2>3. \A d \in Copies : queue'[d] = IF d = c THEN Append(queue[c], n) ELSE queue[d]
    BY <1>2 DEF AdapterTypeOK
  <2>4. ASSUME NEW d \in Copies, NEW i \in 1..Len(queue'[d]), queue'[d][i].kind # "note"
        PROVE  passed[d]
    <3>1. CASE d # c
      BY <2>3, <2>4, <3>1 DEF SignalsPassed
    <3>2. CASE d = c
      <4>1. queue'[d] = Append(queue[c], n)
        BY <2>3, <3>2
      <4> QED BY <2>2, <2>4, <3>2, <4>1 DEF SignalsPassed
    <3> QED BY <3>1, <3>2
  <2> QED BY <2>4 DEF SignalsPassed
<1> QED BY <1>1, <1>2

\* Bodies and notifications.
LEMMA BodyFacts ==
    /\ NoObject \in Bodies /\ Idle.pc = "idle"
    /\ \A k \in {"note", "unmute", "swap"} : Signal(k) \in Notes /\ Signal(k).kind = k
    /\ \A o \in Bodies : Note(o) \in Notes /\ Note(o).kind = "note"
    /\ \A v \in Versions : schema \in 0..MaxSchema => Body(v) \in Bodies
  BY ConstantsAssumption DEF NoObject, Bodies, Versions, Idle, Signal, Note, Notes, Body

\* Unmute and swap signals come from copies past step 3 only.
LEMMA SignalsStep ==
    ASSUME AdapterTypeOK, ObjectTypeOK, FlagTypeOK, BuildTypeOK, Phases, SignalsPassed, Next
    PROVE  SignalsPassed'
<1>1. ASSUME queue' = queue, passed' = passed PROVE SignalsPassed'
  BY <1>1 DEF SignalsPassed
<1>2. ASSUME Write \/ RequestDivergence \/ RequestSchema \/ CleanPass \/ Teardown \/ CleanPassEnds
      PROVE  SignalsPassed'
  BY <1>1, <1>2 DEF Write, RequestDivergence, RequestSchema, RequestBuild, CleanPass, Teardown,
     CleanPassEnds, adapterVars, swapVars
<1>3. ASSUME NEW c \in Copies,
             \/ Watch(c) \/ Record(c) \/ SwapRecord(c) \/ GiveUp(c) \/ Install(c)
             \/ CloseRetiring(c) \/ ComputeM(c) \/ ListRefused(c)
      PROVE  SignalsPassed'
  BY <1>1, <1>3 DEF Watch, Record, SwapRecord, GiveUp, Install, CloseRetiring, ComputeM, ListRefused,
     adapterVars, swapVars
<1>4. ASSUME NEW c \in Copies,
             \/ DeliverSuppressed(c) \/ DeliverMuted(c) \/ DeliverLive(c) \/ UnmuteArrives(c)
             \/ SwapSkipped(c) \/ SwapDeliver(c)
      PROVE  SignalsPassed'
  BY <1>4, SignalsTaken DEF DeliverSuppressed, DeliverMuted, DeliverLive, UnmuteArrives, SwapSkipped,
     SwapDeliver, swapVars
<1>5. ASSUME NEW c \in Copies, NEW v \in Versions, List(c, v) PROVE SignalsPassed'
  <2>1. Note(Body(v)) \in Notes /\ Note(Body(v)).kind = "note"
    BY BodyFacts DEF ObjectTypeOK
  <2>2. queue' = [queue EXCEPT ![c] = Append(@, Note(Body(v)))] \/ queue' = queue
    BY <1>5 DEF List, AdapterTypeOK
  <2> QED BY <1>5, <2>1, <2>2, SignalsSent DEF List, swapVars
<1>6. ASSUME NEW c \in Copies, Distribute(c) PROVE SignalsPassed'
  <2>1. Note(out[c]) \in Notes /\ Note(out[c]).kind = "note"
    BY BodyFacts DEF ObjectTypeOK
  <2>2. queue' = [queue EXCEPT ![c] = Append(@, Note(out[c]))] \/ queue' = queue
    BY <1>6 DEF Distribute, Sent, AdapterTypeOK
  <2> QED BY <1>6, <2>1, <2>2, SignalsSent DEF Distribute, swapVars
<1>7. ASSUME NEW c \in Copies, Unmute(c) PROVE SignalsPassed'
  <2>1. Signal("unmute") \in Notes
    BY BodyFacts
  <2>2. queue' = [queue EXCEPT ![c] = Append(@, Signal("unmute"))] \/ queue' = queue
    BY <1>7 DEF Unmute, Sent, AdapterTypeOK
  <2>3. passed[c]
    BY <1>7 DEF Unmute, At, Phases, Delivering
  <2> QED BY <1>7, <2>1, <2>2, <2>3, SignalsSent DEF Unmute
<1>8. ASSUME NEW c \in Copies, DeliverM(c) PROVE SignalsPassed'
  <2>1. Signal("swap") \in Notes
    BY BodyFacts
  <2>2. queue' = [queue EXCEPT ![c] = Append(@, Signal("swap"))] \/ queue' = queue
    BY <1>8 DEF DeliverM, Sent, AdapterTypeOK
  <2>3. passed[c]
    BY <1>8 DEF DeliverM, At, Phases, Delivering
  <2> QED BY <1>8, <2>1, <2>2, <2>3, SignalsSent DEF DeliverM
<1>9. ASSUME NEW c \in Copies, RunReturns(c) PROVE SignalsPassed'
  BY <1>9 DEF RunReturns, SignalsPassed, AdapterTypeOK, swapVars
<1>10. ASSUME NEW c \in Copies, CheckLater(c) PROVE SignalsPassed'
  BY <1>10 DEF CheckLater, SignalsPassed, FlagTypeOK, adapterVars
<1> QED BY <1>2, <1>3, <1>4, <1>5, <1>6, <1>7, <1>8, <1>9, <1>10, Steps

\* Who calls the consumer after a step acted before it, or was just unmuted.
LEMMA CallersStep ==
    ASSUME AdapterTypeOK, FlagTypeOK, SignalsPassed, CallersAct, Next
    PROVE  CallersAct'
<1>1. ASSUME busy' = busy, muted' = muted, done' = done, passed' = passed PROVE CallersAct'
  BY <1>1 DEF CallersAct, Calls, Acting
<1>2. ASSUME Write \/ RequestDivergence \/ RequestSchema \/ CleanPass \/ Teardown \/ CleanPassEnds
      PROVE  CallersAct'
  BY <1>1, <1>2 DEF Write, RequestDivergence, RequestSchema, RequestBuild, CleanPass, Teardown,
     CleanPassEnds, adapterVars, swapVars, runVars
<1>3. ASSUME NEW c \in Copies,
             \/ Watch(c) \/ Distribute(c) \/ (\E v \in Versions : List(c, v))
             \/ DeliverSuppressed(c) \/ DeliverMuted(c) \/ SwapSkipped(c)
             \/ GiveUp(c) \/ Install(c) \/ CloseRetiring(c) \/ Unmute(c) \/ ComputeM(c)
             \/ DeliverM(c) \/ ListRefused(c)
      PROVE  CallersAct'
  BY <1>1, <1>3 DEF Watch, Distribute, List, DeliverSuppressed, DeliverMuted, SwapSkipped, GiveUp,
     Install, CloseRetiring, Unmute, ComputeM, DeliverM, ListRefused, adapterVars, swapVars, runVars
<1>4. ASSUME NEW c \in Copies, NEW k, Takes(c, k), k # "note" PROVE Acting(c)
  <2>1. queue[c] \in Seq(Notes) /\ queue[c] # <<>> /\ queue[c][1].kind # "note" /\ ~done[c]
    BY <1>4 DEF Takes, First, AdapterTypeOK
  <2>2. 1 \in 1..Len(queue[c])
    BY <2>1
  <2> QED BY <2>1, <2>2 DEF SignalsPassed, Acting
<1>5. ASSUME NEW c \in Copies, DeliverLive(c) \/ SwapDeliver(c) \/ UnmuteArrives(c)
      PROVE  CallersAct'
  <2>1. /\ UNCHANGED <<done, passed>> /\ Acting(c)
        /\ \A d \in Copies : d # c => busy'[d] = busy[d] /\ muted'[d] = muted[d]
    BY <1>4, <1>5 DEF DeliverLive, SwapDeliver, UnmuteArrives, CallersAct, Calls, runVars, swapVars,
       AdapterTypeOK, FlagTypeOK
  <2> QED BY <2>1 DEF CallersAct, Calls, Acting
<1>6. ASSUME NEW c \in Copies, Record(c) \/ SwapRecord(c) PROVE CallersAct'
  <2>1. UNCHANGED <<done, passed, muted>> /\ busy' = [busy EXCEPT ![c] = Idle]
    BY <1>6 DEF Record, SwapRecord, runVars, swapVars
  <2> QED BY <2>1 DEF CallersAct, Calls, Acting, AdapterTypeOK
<1>7. ASSUME NEW c \in Copies, RunReturns(c) PROVE CallersAct'
  BY <1>7 DEF RunReturns, CallersAct, Calls, Acting, FlagTypeOK, swapVars
<1>8. ASSUME NEW c \in Copies, CheckLater(c) PROVE CallersAct'
  BY <1>8 DEF CheckLater, CallersAct, Calls, Acting, FlagTypeOK, adapterVars, runVars
<1> QED BY <1>2, <1>3, <1>5, <1>6, <1>7, <1>8, Steps

----------------------------------------------------------------------------
\* A swap past its install holds an account until it has delivered, was absorbed
\* or torn down, and nobody else holds the same.
Accounts ==
    /\ \A c \in Copies :
         (account[c] # NoCopy) <=> (swap[c] \notin {"off", "sync"} /\ (passed[c] \/ c = live))
    /\ \A c \in Copies, d \in Copies : account[c] # NoCopy /\ account[c] = account[d] => c = d
    /\ \A c \in Copies : account[c] < built /\ (build # NoBuild => account[c] # build.acc)
    /\ clean < built

accountsVars == <<account, swap, passed, live, built, build, clean>>

\* A step that touches none of these keeps the accounts where they are.
LEMMA AccountsKept ==
    ASSUME Accounts, UNCHANGED accountsVars
    PROVE  Accounts'
  BY DEF Accounts, accountsVars

\* A request opens an account nobody has, or uses that of the open build.
LEMMA AccountsRequest ==
    ASSUME BuildTypeOK, FlagTypeOK, RequestTypeOK, PhaseInv, Accounts, NEW r, RequestBuild(r)
    PROVE  Accounts'
<1> USE CopyFacts
<1>1. CASE build = NoBuild \/ r = "schema"
  <2>1. /\ built \in Copies /\ built > 0 /\ built' = built + 1
        /\ swap' = [swap EXCEPT ![built] = "sync"]
        /\ build' = [inst |-> built, acc |-> IF build = NoBuild THEN built ELSE build.acc]
        /\ UNCHANGED <<account, passed, live, clean>>
    BY <1>1, ConstantsAssumption DEF RequestBuild, Construct, BuildTypeOK, Copies
  <2>8. build'.acc = (IF build = NoBuild THEN built ELSE build.acc)
    BY <2>1
  <2>2. swap[built] = "off"
    BY <2>1 DEF PhaseInv, Phases
  <2>3. \A c \in Copies : account[c] \in Int /\ account[c] < built
    <3>1. \A c \in Copies : account[c] \in Copies \cup {NoCopy}
      BY DEF BuildTypeOK
    <3>2. Copies \cup {NoCopy} \subseteq Int
      BY DEF NoCopy
    <3> QED BY <3>1, <3>2 DEF Accounts
  <2>4. clean \in Int
    BY DEF RequestTypeOK, NoCopy
  <2>5. \A c \in Copies : account'[c] # build'.acc
    BY <2>1, <2>3, <2>8 DEF Accounts
  <2>6. \A c \in Copies : account'[c] < built' /\ clean' < built'
    BY <2>1, <2>3, <2>4 DEF Accounts
  <2>7. \A c \in Copies : (swap'[c] \notin {"off", "sync"}) <=> (swap[c] \notin {"off", "sync"})
    BY <2>1, <2>2 DEF BuildTypeOK
  <2> QED BY <2>1, <2>5, <2>6, <2>7 DEF Accounts
<1>2. CASE ~(build = NoBuild \/ r = "schema")
  BY <1>2, AccountsKept DEF RequestBuild, accountsVars
<1> QED BY <1>1, <1>2

\* The build is given up and, in a clean pass, its account noted.
LEMMA AccountsAbort ==
    ASSUME BuildTypeOK, PhaseInv, Accounts, build # NoBuild, build' = NoBuild,
           clean' \in {clean, build.acc}, UNCHANGED <<account, swap, passed, live, built>>
    PROVE  Accounts'
  BY DEF Accounts, PhaseInv, BuildOpen

\* The accounts, step by step.
LEMMA AccountsStep ==
    ASSUME BuildTypeOK, FlagTypeOK, RequestTypeOK, PhaseInv, Accounts, Next
    PROVE  Accounts'
<1> USE CopyFacts
<1>1. ASSUME Write PROVE Accounts'
  BY <1>1, AccountsKept DEF Write, accountsVars, swapVars, buildVars, accountVars
<1>2. ASSUME RequestDivergence \/ RequestSchema PROVE Accounts'
  BY <1>2, AccountsRequest DEF RequestDivergence, RequestSchema
<1>3. ASSUME CleanPass PROVE Accounts'
  <2>1. clean' = build.acc /\ build # NoBuild /\ UNCHANGED <<account, swap, passed, live, built>>
    BY <1>3 DEF CleanPass, swapVars
  <2>2. CASE build' = NoBuild
    BY <2>1, <2>2, AccountsAbort
  <2>3. CASE build' = build
    BY <2>1, <2>3 DEF Accounts, PhaseInv, BuildOpen
  <2> QED BY <1>3, <2>2, <2>3 DEF CleanPass, Abort
<1>4. ASSUME Teardown PROVE Accounts'
  <2>1. /\ live \in Copies /\ live' = NoCopy /\ build' = NoBuild
        /\ account' = [account EXCEPT ![live] = IF passed[live] THEN @ ELSE NoCopy]
        /\ UNCHANGED <<swap, passed, built, clean>>
    BY <1>4 DEF Teardown, BuildTypeOK
  <2>2. \A c \in Copies : account'[c] = IF c = live /\ ~passed[c] THEN NoCopy ELSE account[c]
    BY <2>1 DEF BuildTypeOK
  <2>3. \A c \in Copies : account'[c] < built
    BY <2>2 DEF Accounts, BuildTypeOK, NoCopy
  <2> QED BY <2>1, <2>2, <2>3 DEF Accounts
<1>5. ASSUME CleanPassEnds PROVE Accounts'
  <2>1. clean' = NoCopy /\ UNCHANGED <<account, swap, passed, live, built, build>>
    BY <1>5 DEF CleanPassEnds, swapVars, buildVars
  <2> QED BY <2>1 DEF Accounts, BuildTypeOK, NoCopy
<1>6. ASSUME NEW c \in Copies,
             \/ Watch(c) \/ Distribute(c) \/ (\E v \in Versions : List(c, v)) \/ RunReturns(c)
             \/ DeliverSuppressed(c) \/ DeliverMuted(c) \/ DeliverLive(c) \/ UnmuteArrives(c)
             \/ SwapSkipped(c) \/ SwapDeliver(c) \/ Record(c) \/ SwapRecord(c)
      PROVE  Accounts'
  BY <1>6, AccountsKept DEF accountsVars, Watch, Distribute, List, RunReturns, DeliverSuppressed,
     DeliverMuted, DeliverLive, UnmuteArrives, SwapSkipped, SwapDeliver, Record, SwapRecord, swapVars,
     buildVars, accountVars
<1>7. ASSUME NEW c \in Copies, GiveUp(c) PROVE Accounts'
  <2>1. /\ swap[c] = "sync" /\ swap' = [swap EXCEPT ![c] = "off"]
        /\ UNCHANGED <<account, passed, live, built, build, clean>>
    BY <1>7 DEF GiveUp, At, buildVars, accountVars
  <2> QED BY <2>1 DEF Accounts, BuildTypeOK
<1>8. ASSUME NEW c \in Copies, Install(c) PROVE Accounts'
  <2>1. /\ swap[c] = "sync" /\ swap' = [swap EXCEPT ![c] = "close"]
        /\ build # NoBuild /\ live \in Copies /\ live' = c /\ build' = NoBuild
        /\ UNCHANGED <<passed, built, clean>>
    BY <1>8 DEF Install, At, BuildTypeOK, NoBuild
  <2>2. build.acc \in Copies /\ build.acc < built /\ build.acc # NoCopy
    BY <2>1 DEF BuildTypeOK, PhaseInv, BuildOpen
  <2>3. live # c
    BY <2>1 DEF PhaseInv, Phases
  <2>4. \A d \in Copies :
          account'[d] = CASE d = c -> build.acc
                          [] d # c /\ d = live /\ ~passed[live] -> NoCopy
                          [] OTHER -> account[d]
    BY <1>8, <2>3 DEF Install, Absorbs, BuildTypeOK
  <2>5. \A d \in Copies : swap'[d] = IF d = c THEN "close" ELSE swap[d]
    BY <2>1 DEF BuildTypeOK
  <2>6. \A d \in Copies : account'[d] < built
    BY <2>2, <2>4 DEF Accounts, BuildTypeOK, NoCopy
  <2>7. \A d \in Copies : (account'[d] # NoCopy) <=>
                            (swap'[d] \notin {"off", "sync"} /\ (passed[d] \/ d = c))
    BY <2>2, <2>3, <2>4, <2>5 DEF Accounts
  <2>8. \A d \in Copies, e \in Copies : account'[d] # NoCopy /\ account'[d] = account'[e] => d = e
    BY <2>1, <2>2, <2>3, <2>4 DEF Accounts
  <2> QED BY <2>1, <2>6, <2>7, <2>8 DEF Accounts
<1>9. ASSUME NEW c \in Copies, CloseRetiring(c) \/ Unmute(c) \/ ComputeM(c) PROVE Accounts'
  <2>1. /\ swap[c] \notin {"off", "sync"}
        /\ \E q \in {"wait", "compute", "deliver"} : swap' = [swap EXCEPT ![c] = q]
        /\ UNCHANGED <<account, passed, live, built, build, clean>>
    BY <1>9 DEF CloseRetiring, Unmute, ComputeM, At, buildVars, accountVars
  <2> QED BY <2>1 DEF Accounts, BuildTypeOK
<1>10. ASSUME NEW c \in Copies, CheckLater(c) PROVE Accounts'
  <2>1. swap[c] = "wait" /\ ~passed[c] /\ UNCHANGED <<account, live, built, build, clean>>
    BY <1>10 DEF CheckLater, At, PhaseInv, Phases, Installing, accountVars
  <2>2. CASE live = c
    <3>1. swap' = [swap EXCEPT ![c] = "unmute"] /\ passed' = [passed EXCEPT ![c] = TRUE]
      BY <1>10, <2>2 DEF CheckLater, At
    <3> QED BY <2>1, <2>2, <3>1 DEF Accounts, BuildTypeOK, FlagTypeOK
  <2>3. CASE live # c
    <3>1. swap' = [swap EXCEPT ![c] = "off"] /\ passed' = passed
      BY <1>10, <2>3 DEF CheckLater, At
    <3> QED BY <2>1, <2>3, <3>1 DEF Accounts, BuildTypeOK
  <2> QED BY <2>2, <2>3
<1>11. ASSUME NEW c \in Copies, DeliverM(c) PROVE Accounts'
  <2>1. /\ swap[c] = "deliver" /\ swap' = [swap EXCEPT ![c] = "off"]
        /\ account' = [account EXCEPT ![c] = NoCopy]
        /\ UNCHANGED <<passed, live, built, build, clean>>
    BY <1>11 DEF DeliverM, At, buildVars
  <2>2. \A d \in Copies : account'[d] = (IF d = c THEN NoCopy ELSE account[d])
                           /\ swap'[d] = (IF d = c THEN "off" ELSE swap[d])
    BY <2>1 DEF BuildTypeOK
  <2>3. NoCopy < built /\ (build # NoBuild => NoCopy # build.acc)
    BY DEF BuildTypeOK, NoCopy
  <2> QED BY <2>1, <2>2, <2>3 DEF Accounts
<1>12. ASSUME NEW c \in Copies, ListRefused(c) PROVE Accounts'
  <2>1. build # NoBuild
    BY <1>12 DEF ListRefused, NoBuild
  <2> QED BY <1>12, <2>1, AccountsAbort DEF ListRefused, Abort, swapVars
<1> QED BY <1>1, <1>2, <1>3, <1>4, <1>5, <1>6, <1>7, <1>8, <1>9, <1>10, <1>11, <1>12, Steps

----------------------------------------------------------------------------
\* Every request has ended or is in exactly one account ...
Counted ==
    /\ \A i \in 1..Len(asked) : i \in ended \/ \E a \in Copies : i \in reasons[a]
    /\ \A a \in Copies, b \in Copies : a # b => reasons[a] \cap reasons[b] = {}

\* ... and an account that holds requests has somebody to end it.
Held == \A a \in Copies : reasons[a] # {} => Responsible(a)

\* A step that touches no request keeps them counted.
LEMMA CountedKept ==
    ASSUME Counted, UNCHANGED <<asked, reasons, ended>>
    PROVE  Counted'
  BY DEF Counted

\* A new request is in the account of the open build, or of the one it opens.
LEMMA CountedRequest ==
    ASSUME RequestTypeOK, BuildTypeOK, Counted, NEW r, RequestBuild(r)
    PROVE  Counted'
<1> DEFINE id == Len(asked) + 1
           acc == IF build = NoBuild THEN built ELSE build.acc
<1>1. acc \in Copies
  <2>1. CASE build = NoBuild
    BY <2>1, ConstantsAssumption DEF RequestBuild, Construct, BuildTypeOK, Copies
  <2>2. CASE build # NoBuild
    BY <2>2 DEF BuildTypeOK
  <2> QED BY <2>1, <2>2
<1>2. asked' = Append(asked, r) /\ reasons' = [reasons EXCEPT ![acc] = @ \cup {id}] /\ ended' = ended
  BY DEF RequestBuild
<1>3. Len(asked) \in Nat /\ Len(asked') = id
  BY <1>2 DEF RequestTypeOK
<1>4. \A a \in Copies : id \notin reasons[a]
  BY <1>3 DEF RequestTypeOK
<1>5. \A a \in Copies : reasons'[a] = IF a = acc THEN reasons[a] \cup {id} ELSE reasons[a]
  BY <1>1, <1>2 DEF RequestTypeOK
<1>6. \A i \in 1..Len(asked') : i = id \/ i \in 1..Len(asked)
  BY <1>3
<1> HIDE DEF id, acc
<1>7. \A i \in 1..Len(asked') : i \in ended' \/ \E a \in Copies : i \in reasons'[a]
  <2> TAKE i \in 1..Len(asked')
  <2>1. CASE i = id
    BY <1>1, <1>5, <2>1
  <2>2. CASE i \in 1..Len(asked) /\ i \notin ended
    <3>1. PICK a \in Copies : i \in reasons[a]
      BY <2>2 DEF Counted
    <3>2. i \in reasons'[a]
      BY <1>5, <3>1
    <3> QED BY <3>1, <3>2
  <2> QED BY <1>2, <1>6, <2>1, <2>2
<1>8. \A a \in Copies, b \in Copies : a # b => reasons'[a] \cap reasons'[b] = {}
  <2> TAKE a \in Copies, b \in Copies
  <2> HAVE a # b
  <2>1. reasons[a] \cap reasons[b] = {} /\ id \notin reasons[a] /\ id \notin reasons[b]
    BY <1>4 DEF Counted
  <2>2. /\ reasons'[a] = (IF a = acc THEN reasons[a] \cup {id} ELSE reasons[a])
        /\ reasons'[b] = (IF b = acc THEN reasons[b] \cup {id} ELSE reasons[b])
    BY <1>5
  <2> QED BY <2>1, <2>2
<1> QED BY <1>7, <1>8 DEF Counted

\* An absorbed account gives its requests to the one that takes it over.
LEMMA CountedAbsorbs ==
    ASSUME RequestTypeOK, Counted, NEW m \in Copies, NEW o \in Copies, m # o,
           reasons' = [reasons EXCEPT ![m] = @ \cup reasons[o], ![o] = {}],
           UNCHANGED <<asked, ended>>
    PROVE  Counted'
<1>1. \A a \in Copies : reasons'[a] = CASE a = m -> reasons[m] \cup reasons[o]
                                         [] a = o -> {} [] OTHER -> reasons[a]
  BY DEF RequestTypeOK
<1>2. ASSUME NEW i \in 1..Len(asked'), i \notin ended' PROVE \E a \in Copies : i \in reasons'[a]
  <2>1. PICK a \in Copies : i \in reasons[a]
    BY <1>2 DEF Counted
  <2>4. reasons'[m] = reasons[m] \cup reasons[o]
    BY <1>1
  <2>2. CASE a \in {m, o}
    BY <2>1, <2>2, <2>4
  <2>3. CASE a \notin {m, o}
    BY <1>1, <2>1, <2>3
  <2> QED BY <2>2, <2>3
<1>3. ASSUME NEW a \in Copies, NEW b \in Copies, a # b PROVE reasons'[a] \cap reasons'[b] = {}
  <2>1. /\ reasons[a] \cap reasons[b] = {}
        /\ a # m => reasons[a] \cap reasons[m] = {}
        /\ b # m => reasons[b] \cap reasons[m] = {}
        /\ a # o => reasons[a] \cap reasons[o] = {}
        /\ b # o => reasons[b] \cap reasons[o] = {}
    BY <1>3 DEF Counted
  <2>2. /\ reasons'[m] = reasons[m] \cup reasons[o] /\ reasons'[o] = {}
        /\ a \notin {m, o} => reasons'[a] = reasons[a]
        /\ b \notin {m, o} => reasons'[b] = reasons[b]
    BY <1>1
  <2>3. CASE a = o \/ b = o
    BY <2>2, <2>3
  <2>4. CASE a = m /\ b # o
    BY <1>3, <2>1, <2>2, <2>4
  <2>5. CASE b = m /\ a # o
    BY <1>3, <2>1, <2>2, <2>5
  <2>6. CASE a \notin {m, o} /\ b \notin {m, o}
    BY <2>1, <2>2, <2>6
  <2> QED BY <2>3, <2>4, <2>5, <2>6
<1> QED BY <1>2, <1>3 DEF Counted

\* Requests stay counted: each step ends them, moves them or leaves them.
LEMMA CountedStep ==
    ASSUME RequestTypeOK, BuildTypeOK, PhaseInv, Accounts, Counted, Next
    PROVE  Counted'
<1> USE CopyFacts
<1>1. ASSUME Write \/ CleanPass PROVE Counted'
  BY <1>1, CountedKept DEF Write, CleanPass, accountVars
<1>2. ASSUME RequestDivergence \/ RequestSchema PROVE Counted'
  BY <1>2, CountedRequest DEF RequestDivergence, RequestSchema
<1>3. ASSUME Teardown PROVE Counted'
  <2>1. PICK open \in SUBSET Copies :
          /\ ended' = ended \cup UNION {reasons[a] : a \in open}
          /\ reasons' = [a \in Copies |-> IF a \in open THEN {} ELSE reasons[a]]
          /\ asked' = asked
    <3> DEFINE open == (IF build = NoBuild THEN {} ELSE {build.acc})
                       \cup (IF passed[live] \/ account[live] = NoCopy THEN {} ELSE {account[live]})
    <3>1. live \in Copies
      BY <1>3 DEF Teardown, BuildTypeOK
    <3>2. open \in SUBSET Copies
      BY <3>1 DEF BuildTypeOK
    <3>3. /\ ended' = ended \cup UNION {reasons[a] : a \in open}
          /\ reasons' = [a \in Copies |-> IF a \in open THEN {} ELSE reasons[a]]
          /\ asked' = asked
      BY <1>3 DEF Teardown
    <3> QED BY <3>2, <3>3
  <2>2. \A a \in Copies : reasons'[a] = IF a \in open THEN {} ELSE reasons[a]
    BY <2>1
  <2>3. \A i, a : a \in open /\ i \in reasons[a] => i \in ended'
    BY <2>1
  <2>4. ended \subseteq ended'
    BY <2>1
  <2> QED BY <2>1, <2>2, <2>3, <2>4 DEF Counted
<1>4. ASSUME CleanPassEnds PROVE Counted'
  <2> DEFINE gives == {i \in reasons[clean] : asked[i] = "divergence"}
  <2>1. /\ clean \in Copies /\ asked' = asked /\ ended' = ended \cup gives
        /\ reasons' = [reasons EXCEPT ![clean] = @ \ gives]
    BY <1>4 DEF CleanPassEnds, RequestTypeOK
  <2> HIDE DEF gives
  <2>2. \A a \in Copies : reasons'[a] = IF a = clean THEN reasons[a] \ gives ELSE reasons[a]
    BY <2>1 DEF RequestTypeOK
  <2> QED BY <2>1, <2>2 DEF Counted
<1>5. ASSUME NEW c \in Copies,
             \/ Watch(c) \/ Distribute(c) \/ (\E v \in Versions : List(c, v)) \/ RunReturns(c)
             \/ DeliverSuppressed(c) \/ DeliverMuted(c) \/ DeliverLive(c) \/ UnmuteArrives(c)
             \/ SwapSkipped(c) \/ SwapDeliver(c) \/ Record(c) \/ SwapRecord(c)
             \/ GiveUp(c) \/ CloseRetiring(c) \/ CheckLater(c) \/ Unmute(c) \/ ComputeM(c)
      PROVE  Counted'
  BY <1>5, CountedKept DEF Watch, Distribute, List, RunReturns, DeliverSuppressed,
     DeliverMuted, DeliverLive, UnmuteArrives, SwapSkipped, SwapDeliver, Record, SwapRecord,
     GiveUp, CloseRetiring, CheckLater, Unmute, ComputeM, accountVars
<1>6. ASSUME NEW c \in Copies, Install(c) PROVE Counted'
  <2>1. UNCHANGED <<asked, ended>> /\ live \in Copies /\ build # NoBuild
    BY <1>6 DEF Install, BuildTypeOK, NoBuild
  <2>2. CASE Absorbs
    <3>1. /\ build.acc \in Copies /\ account[live] \in Copies /\ build.acc # account[live]
      BY <2>1, <2>2 DEF Absorbs, BuildTypeOK, Accounts
    <3>2. reasons' = [reasons EXCEPT ![build.acc] = @ \cup reasons[account[live]], ![account[live]] = {}]
      BY <1>6, <2>2 DEF Install
    <3> QED BY <2>1, <3>1, <3>2, CountedAbsorbs
  <2>3. CASE ~Absorbs
    BY <1>6, <2>1, <2>3, CountedKept DEF Install
  <2> QED BY <2>2, <2>3
<1>7. ASSUME NEW a \in Copies, asked' = asked, ended' = ended \cup reasons[a],
             reasons' = [reasons EXCEPT ![a] = {}]
      PROVE  Counted'
  <2>1. \A b \in Copies : reasons'[b] = IF b = a THEN {} ELSE reasons[b]
    BY <1>7 DEF RequestTypeOK
  <2> QED BY <1>7, <2>1 DEF Counted
<1>8. ASSUME NEW c \in Copies, DeliverM(c) PROVE Counted'
  <2>1. account[c] \in Copies
    BY <1>8 DEF DeliverM, At, Accounts, PhaseInv, Phases, Delivering, BuildTypeOK
  <2> QED BY <1>7, <1>8, <2>1 DEF DeliverM
<1>9. ASSUME NEW c \in Copies, ListRefused(c) PROVE Counted'
  <2>1. build.acc \in Copies
    BY <1>9 DEF ListRefused, BuildTypeOK, NoBuild
  <2> QED BY <1>7, <1>9, <2>1 DEF ListRefused
<1> QED BY <1>1, <1>2, <1>3, <1>4, <1>5, <1>6, <1>8, <1>9, Steps

----------------------------------------------------------------------------
\* The swap that installed with account a goes on.
Swapping(a) == \E c \in Copies : account[c] = a /\ swap[c] # "off" /\ (passed[c] \/ c = live)

\* Who ends an account, with the swap named.
LEMMA ResponsibleDef ==
    ASSUME NEW a \in Copies
    PROVE  Responsible(a) <=> \/ build.acc = a
                              \/ clean = a /\ Only(a, "divergence")
                              \/ Swapping(a)
  BY DEF Responsible, Swapping

\* A swap that holds an account goes on, so what it holds is responsible.
LEMMA SwappingDef ==
    ASSUME Accounts, NEW a \in Copies
    PROVE  Swapping(a) <=> \E c \in Copies : account[c] = a
  BY CopyFacts DEF Accounts, Swapping

\* The same after the step.
LEMMA SwappingNext ==
    ASSUME Accounts', NEW a \in Copies
    PROVE  Swapping(a)' <=> \E c \in Copies : account'[c] = a
  BY CopyFacts DEF Accounts, Swapping

\* A step that moves no account leaves who ends it.
LEMMA HeldKept ==
    ASSUME Accounts, Accounts', Held, account' = account, build' = build, clean' = clean,
           asked' = asked, reasons' = reasons
    PROVE  Held'
  BY SwappingDef, SwappingNext, ResponsibleDef DEF Held, Responsible, Only, Swapping

\* An account with requests keeps somebody who ends it.
LEMMA HeldStep ==
    ASSUME RequestTypeOK, BuildTypeOK, PhaseInv, Accounts, Accounts', Held, Next
    PROVE  Held'
<1> USE CopyFacts
<1>1. ASSUME NEW a \in Copies, reasons'[a] # {},
             \/ build'.acc = a
             \/ clean' = a /\ \A i \in reasons'[a] : asked'[i] = "divergence"
             \/ \E c \in Copies : account'[c] = a
      PROVE  Responsible(a)'
  BY <1>1, SwappingNext DEF Responsible, Swapping, Only
<1>2. ASSUME NEW a \in Copies, reasons[a] # {}
      PROVE  \/ build.acc = a
             \/ clean = a /\ \A i \in reasons[a] : asked[i] = "divergence"
             \/ \E c \in Copies : account[c] = a
  BY <1>2 DEF Held, Responsible, Only
<1>3. ASSUME Write PROVE Held'
  BY <1>3, HeldKept DEF Write, swapVars, buildVars, accountVars
<1>4. ASSUME NEW r, RequestBuild(r) PROVE Held'
  <2> DEFINE id == Len(asked) + 1
             acc == IF build = NoBuild THEN built ELSE build.acc
  <2>1. /\ asked' = Append(asked, r) /\ reasons' = [reasons EXCEPT ![acc] = @ \cup {id}]
        /\ UNCHANGED <<account, clean>>
    BY <1>4 DEF RequestBuild
  <2>2. build'.acc = acc
    BY <1>4 DEF RequestBuild
  <2>3. build = NoBuild \/ build.acc = acc
    OBVIOUS
  <2>4. NoBuild.acc \notin Copies
    BY DEF NoBuild
  <2>5. \A a \in Copies : a # acc => reasons'[a] = reasons[a]
    BY <2>1 DEF RequestTypeOK
  <2>6. \A a \in Copies : \A i \in reasons[a] : asked'[i] = asked[i]
    BY <2>1 DEF RequestTypeOK
  <2> HIDE DEF id, acc
  <2>7. ASSUME NEW a \in Copies, reasons'[a] # {} PROVE Responsible(a)'
    <3>1. CASE a = acc
      BY <1>1, <2>2, <2>7, <3>1
    <3>2. CASE a # acc
      <4>1. reasons'[a] = reasons[a] /\ reasons[a] # {} /\ build.acc # a
        BY <2>3, <2>4, <2>5, <2>7, <3>2
      <4>2. CASE clean = a /\ \A i \in reasons[a] : asked[i] = "divergence"
        BY <1>1, <2>1, <2>6, <2>7, <4>1, <4>2
      <4>3. CASE \E c \in Copies : account[c] = a
        BY <1>1, <2>1, <2>7, <4>3
      <4> QED BY <1>2, <4>1, <4>2, <4>3
    <3> QED BY <3>1, <3>2
  <2> QED BY <2>7 DEF Held
<1>5. ASSUME CleanPass PROVE Held'
  <2>1. /\ clean' = build.acc /\ clean = NoCopy
        /\ build' = build \/ \A i \in reasons[build.acc] : asked[i] = "divergence"
        /\ UNCHANGED <<account, asked, reasons>>
    BY <1>5 DEF CleanPass, Only, swapVars
  <2>2. ASSUME NEW a \in Copies, reasons'[a] # {} PROVE Responsible(a)'
    BY <1>1, <1>2, <2>1, <2>2
  <2> QED BY <2>2 DEF Held
<1>6. ASSUME Teardown PROVE Held'
  <2>1. /\ live \in Copies
        /\ account' = [account EXCEPT ![live] = IF passed[live] THEN @ ELSE NoCopy]
        /\ UNCHANGED <<clean, asked>>
    BY <1>6 DEF Teardown, BuildTypeOK
  <2> DEFINE open == (IF build = NoBuild THEN {} ELSE {build.acc})
                     \cup (IF passed[live] \/ account[live] = NoCopy THEN {} ELSE {account[live]})
  <2>2. reasons' = [a \in Copies |-> IF a \in open THEN {} ELSE reasons[a]]
    BY <1>6 DEF Teardown
  <2>3. ASSUME NEW a \in Copies, reasons'[a] # {} PROVE Responsible(a)'
    <3>1. a \notin open /\ reasons'[a] = reasons[a] /\ reasons[a] # {}
      BY <2>2, <2>3
    <3>2. build.acc # a
      BY <3>1 DEF NoBuild
    <3>3. CASE clean = a /\ \A i \in reasons[a] : asked[i] = "divergence"
      BY <1>1, <2>1, <2>3, <3>1, <3>3
    <3>4. CASE \E c \in Copies : account[c] = a
      <4>1. PICK c \in Copies : account[c] = a
        BY <3>4
      <4>2. account'[c] = a
        BY <2>1, <3>1, <4>1 DEF BuildTypeOK
      <4> QED BY <1>1, <2>3, <4>2
    <3> QED BY <1>2, <3>1, <3>2, <3>3, <3>4
  <2> QED BY <2>3 DEF Held
<1>7. ASSUME CleanPassEnds PROVE Held'
  <2> DEFINE gives == {i \in reasons[clean] : asked[i] = "divergence"}
  <2>1. /\ clean \in Copies /\ reasons' = [reasons EXCEPT ![clean] = @ \ gives]
        /\ UNCHANGED <<account, asked, build>>
    BY <1>7 DEF CleanPassEnds, RequestTypeOK, swapVars, buildVars
  <2>2. ASSUME NEW a \in Copies, reasons'[a] # {} PROVE Responsible(a)'
    <3>1. CASE a = clean
      <4>1. reasons'[a] = reasons[a] \ gives
        BY <2>1, <3>1 DEF RequestTypeOK
      <4>2. reasons[a] # {} /\ \E i \in reasons[a] : asked[i] # "divergence"
        BY <2>2, <3>1, <4>1
      <4> QED BY <1>1, <1>2, <2>1, <2>2, <4>2
    <3>2. CASE a # clean
      <4>1. reasons'[a] = reasons[a]
        BY <2>1, <3>2 DEF RequestTypeOK
      <4> QED BY <1>1, <1>2, <2>1, <2>2, <3>2, <4>1
    <3> QED BY <3>1, <3>2
  <2> QED BY <2>2 DEF Held
<1>8. ASSUME NEW c \in Copies,
             \/ Watch(c) \/ Distribute(c) \/ (\E v \in Versions : List(c, v)) \/ RunReturns(c)
             \/ DeliverSuppressed(c) \/ DeliverMuted(c) \/ DeliverLive(c) \/ UnmuteArrives(c)
             \/ SwapSkipped(c) \/ SwapDeliver(c) \/ Record(c) \/ SwapRecord(c)
             \/ GiveUp(c) \/ CloseRetiring(c) \/ CheckLater(c) \/ Unmute(c) \/ ComputeM(c)
      PROVE  Held'
  BY <1>8, HeldKept DEF Watch, Distribute, List, RunReturns, DeliverSuppressed,
     DeliverMuted, DeliverLive, UnmuteArrives, SwapSkipped, SwapDeliver, Record, SwapRecord,
     GiveUp, CloseRetiring, CheckLater, Unmute, ComputeM, swapVars, buildVars, accountVars
<1>9. ASSUME NEW c \in Copies, Install(c) PROVE Held'
  <2>1. /\ swap[c] = "sync" /\ live \in Copies /\ live # c /\ build # NoBuild
        /\ UNCHANGED <<clean, asked>>
    BY <1>9 DEF Install, At, BuildTypeOK, NoBuild, PhaseInv, Phases
  <2>2. build.acc \in Copies
    BY <2>1 DEF BuildTypeOK
  <2>3. account'[c] = build.acc
    BY <1>9, <2>1 DEF Install, BuildTypeOK
  <2>4. \A d \in Copies : d # c /\ ~(Absorbs /\ d = live) => account'[d] = account[d]
    BY <1>9 DEF Install, BuildTypeOK
  <2>5. \A a \in Copies : a # build.acc =>
          reasons'[a] = IF Absorbs /\ a = account[live] THEN {} ELSE reasons[a]
    BY <1>9, <2>1, <2>2 DEF Install, RequestTypeOK
  <2>6. account[c] = NoCopy
    BY <2>1 DEF Accounts
  <2>7. ASSUME NEW a \in Copies, reasons'[a] # {} PROVE Responsible(a)'
    <3>1. CASE a = build.acc
      BY <1>1, <2>3, <2>7, <3>1
    <3>2. CASE a # build.acc
      <4>1. ~(Absorbs /\ a = account[live]) /\ reasons'[a] = reasons[a]
        BY <2>5, <2>7, <3>2
      <4>2. CASE clean = a /\ \A i \in reasons[a] : asked[i] = "divergence"
        BY <1>1, <2>1, <2>7, <4>1, <4>2
      <4>3. CASE \E d \in Copies : account[d] = a
        <5>1. PICK d \in Copies : account[d] = a
          BY <4>3
        <5>2. account'[d] = a
          BY <2>4, <2>6, <4>1, <5>1
        <5> QED BY <1>1, <2>7, <5>2
      <4> QED BY <1>2, <2>7, <3>2, <4>1, <4>2, <4>3
    <3> QED BY <3>1, <3>2
  <2> QED BY <2>7 DEF Held
<1>10. ASSUME NEW c \in Copies, DeliverM(c) PROVE Held'
  <2>1. /\ account[c] \in Copies /\ account' = [account EXCEPT ![c] = NoCopy]
        /\ reasons' = [reasons EXCEPT ![account[c]] = {}]
        /\ UNCHANGED <<build, clean, asked>>
    BY <1>10 DEF DeliverM, At, Accounts, PhaseInv, Phases, Delivering, BuildTypeOK, buildVars
  <2>2. ASSUME NEW a \in Copies, reasons'[a] # {} PROVE Responsible(a)'
    <3>1. a # account[c] /\ reasons'[a] = reasons[a]
      BY <2>1, <2>2 DEF RequestTypeOK
    <3>2. \A d \in Copies : account[d] = a => account'[d] = a
      BY <2>1, <3>1 DEF BuildTypeOK
    <3> QED BY <1>1, <1>2, <2>1, <2>2, <3>1, <3>2
  <2> QED BY <2>2 DEF Held
<1>11. ASSUME NEW c \in Copies, ListRefused(c) PROVE Held'
  <2>1. /\ build.acc \in Copies /\ reasons' = [reasons EXCEPT ![build.acc] = {}]
        /\ UNCHANGED <<account, clean, asked>>
    BY <1>11 DEF ListRefused, BuildTypeOK, NoBuild, swapVars
  <2>2. ASSUME NEW a \in Copies, reasons'[a] # {} PROVE Responsible(a)'
    <3>1. a # build.acc /\ reasons'[a] = reasons[a]
      BY <2>1, <2>2 DEF RequestTypeOK
    <3> QED BY <1>1, <1>2, <2>1, <2>2, <3>1
  <2> QED BY <2>2 DEF Held
<1> QED BY <1>3, <1>4, <1>5, <1>6, <1>7, <1>8, <1>9, <1>10, <1>11, Steps
        DEF RequestDivergence, RequestSchema

----------------------------------------------------------------------------
\* The types, part by part.
LEMMA ObjectStep ==
    ASSUME ObjectTypeOK, Next
    PROVE  ObjectTypeOK'
<1>1. ASSUME UNCHANGED <<objectVars, informerVars>> PROVE ObjectTypeOK'
  BY <1>1 DEF ObjectTypeOK, objectVars, informerVars
<1>2. ASSUME RequestDivergence \/ CleanPass \/ Teardown \/ CleanPassEnds PROVE ObjectTypeOK'
  BY <1>1, <1>2 DEF RequestDivergence, RequestBuild, CleanPass, Teardown, CleanPassEnds, objectVars
<1>3. ASSUME Write PROVE ObjectTypeOK'
  BY <1>3, ConstantsAssumption DEF Write, ObjectTypeOK, Versions, informerVars
<1>4. ASSUME RequestSchema PROVE ObjectTypeOK'
  BY <1>4, ConstantsAssumption DEF RequestSchema, RequestBuild, ObjectTypeOK, informerVars
<1>5. ASSUME NEW c \in Copies,
             \/ DeliverSuppressed(c) \/ DeliverMuted(c) \/ DeliverLive(c) \/ UnmuteArrives(c)
             \/ SwapSkipped(c) \/ SwapDeliver(c) \/ Record(c) \/ SwapRecord(c)
             \/ GiveUp(c) \/ Install(c) \/ CloseRetiring(c) \/ CheckLater(c) \/ Unmute(c)
             \/ ComputeM(c) \/ DeliverM(c) \/ ListRefused(c)
      PROVE  ObjectTypeOK'
  BY <1>1, <1>5 DEF DeliverSuppressed, DeliverMuted, DeliverLive, UnmuteArrives, SwapSkipped,
     SwapDeliver, Record, SwapRecord, GiveUp, Install, CloseRetiring, CheckLater, Unmute, ComputeM,
     DeliverM, ListRefused
<1>6. ASSUME NEW c \in Copies, NEW v \in Versions, List(c, v) PROVE ObjectTypeOK'
  <2>1. Body(v) \in Bodies
    BY BodyFacts DEF ObjectTypeOK
  <2> QED BY <1>6, <2>1 DEF List, ObjectTypeOK, objectVars
<1>7. ASSUME NEW c \in Copies, Watch(c) PROVE ObjectTypeOK'
  <2>1. pos[c] + 1 \in Versions
    BY <1>7, ConstantsAssumption DEF Watch, ObjectTypeOK, Versions
  <2>2. Body(pos[c] + 1) \in Bodies
    BY <2>1, BodyFacts DEF ObjectTypeOK
  <2> QED BY <1>7, <2>1, <2>2 DEF Watch, ObjectTypeOK, objectVars
<1>8. ASSUME NEW c \in Copies, Distribute(c) \/ RunReturns(c) PROVE ObjectTypeOK'
  BY <1>8, BodyFacts DEF Distribute, RunReturns, ObjectTypeOK, objectVars
<1> QED BY <1>2, <1>3, <1>4, <1>5, <1>6, <1>7, <1>8, Steps

Calling == [pc : {"idle", "call", "swapCall"}, obj : Bodies]
Suppressions == [kind : {"none", "note"}, obj : Bodies]

\* The calls and suppressions the adapter builds.
LEMMA RecordFacts ==
    /\ Idle \in Calling /\ Signal("none") \in Suppressions
    /\ \A o \in Bodies : /\ [pc |-> "call", obj |-> o] \in Calling
                         /\ [pc |-> "swapCall", obj |-> o] \in Calling
                         /\ Note(o) \in Suppressions
  BY BodyFacts DEF Calling, Suppressions, Idle, Signal, Note

\* What a listener takes is a notification.
LEMMA TakenTyped ==
    ASSUME AdapterTypeOK, NEW c \in Copies, NEW k, Takes(c, k)
    PROVE  First(c).obj \in Bodies /\ queue' \in [Copies -> Seq(Notes)]
<1>1. queue[c] \in Seq(Notes) /\ queue[c] # <<>>
  BY DEF Takes, AdapterTypeOK
<1>2. Head(queue[c]) \in Notes /\ Tail(queue[c]) \in Seq(Notes)
  BY <1>1
<1> QED BY <1>2 DEF Takes, First, AdapterTypeOK, Notes

\* What is sent is one too.
LEMMA SentTyped ==
    ASSUME AdapterTypeOK, NEW c \in Copies, NEW n \in Notes
    PROVE  Sent(c, n) \in [Copies -> Seq(Notes)]
<1>1. Append(queue[c], n) \in Seq(Notes)
  BY DEF AdapterTypeOK
<1> QED BY <1>1 DEF Sent, AdapterTypeOK

\* The adapters and their queues keep their types.
LEMMA AdapterStep ==
    ASSUME ObjectTypeOK, AdapterTypeOK, Next
    PROVE  AdapterTypeOK'
<1>1. ASSUME UNCHANGED adapterVars PROVE AdapterTypeOK'
  BY <1>1 DEF AdapterTypeOK, adapterVars
<1>2. ASSUME Write \/ RequestDivergence \/ RequestSchema \/ CleanPass \/ Teardown \/ CleanPassEnds
      PROVE  AdapterTypeOK'
  BY <1>1, <1>2 DEF Write, RequestDivergence, RequestSchema, RequestBuild, CleanPass, Teardown,
     CleanPassEnds
<1>3. ASSUME NEW c \in Copies,
             \/ Watch(c) \/ GiveUp(c) \/ Install(c) \/ CloseRetiring(c) \/ CheckLater(c)
             \/ ComputeM(c) \/ ListRefused(c)
      PROVE  AdapterTypeOK'
  BY <1>1, <1>3 DEF Watch, GiveUp, Install, CloseRetiring, CheckLater, ComputeM, ListRefused
<1>4. ASSUME NEW c \in Copies, NEW v \in Versions, List(c, v) PROVE AdapterTypeOK'
  <2>1. Note(Body(v)) \in Notes
    BY BodyFacts DEF ObjectTypeOK
  <2>2. Append(queue[c], Note(Body(v))) \in Seq(Notes)
    BY <2>1 DEF AdapterTypeOK
  <2>3. queue' \in [Copies -> Seq(Notes)]
    BY <1>4, <2>2 DEF List, AdapterTypeOK
  <2> QED BY <1>4, <2>3 DEF List, AdapterTypeOK
<1>5. ASSUME NEW c \in Copies, Distribute(c) PROVE AdapterTypeOK'
  <2>1. Note(out[c]) \in Notes
    BY BodyFacts DEF ObjectTypeOK
  <2>2. queue' \in [Copies -> Seq(Notes)]
    BY <1>5, <2>1, SentTyped DEF Distribute
  <2> QED BY <1>5, <2>2 DEF Distribute, AdapterTypeOK
<1>6. ASSUME NEW c \in Copies, RunReturns(c) PROVE AdapterTypeOK'
  <2>1. queue' \in [Copies -> Seq(Notes)]
    BY <1>6 DEF RunReturns, AdapterTypeOK
  <2>2. suppress' \in [Copies -> Suppressions]
    BY <1>6, RecordFacts DEF RunReturns, AdapterTypeOK, Suppressions
  <2>3. seen' \in [Copies -> Bodies]
    BY <1>6, BodyFacts DEF RunReturns, AdapterTypeOK
  <2> QED BY <1>6, <2>1, <2>2, <2>3 DEF RunReturns, AdapterTypeOK, Suppressions
<1>7. ASSUME NEW c \in Copies, DeliverSuppressed(c) PROVE AdapterTypeOK'
  <2>1. First(c).obj \in Bodies /\ queue' \in [Copies -> Seq(Notes)]
    BY <1>7, TakenTyped DEF DeliverSuppressed
  <2>2. suppress' \in [Copies -> Suppressions] /\ seen' \in [Copies -> Bodies]
    BY <1>7, <2>1, RecordFacts DEF DeliverSuppressed, AdapterTypeOK, Suppressions
  <2> QED BY <1>7, <2>1, <2>2 DEF DeliverSuppressed, AdapterTypeOK, Suppressions
<1>8. ASSUME NEW c \in Copies, DeliverMuted(c) PROVE AdapterTypeOK'
  <2>1. First(c).obj \in Bodies /\ queue' \in [Copies -> Seq(Notes)]
    BY <1>8, TakenTyped DEF DeliverMuted
  <2> QED BY <1>8, <2>1 DEF DeliverMuted, AdapterTypeOK
<1>9. ASSUME NEW c \in Copies, DeliverLive(c) PROVE AdapterTypeOK'
  <2>1. First(c).obj \in Bodies /\ queue' \in [Copies -> Seq(Notes)]
    BY <1>9, TakenTyped DEF DeliverLive
  <2>2. busy' \in [Copies -> Calling]
    BY <1>9, <2>1, RecordFacts DEF DeliverLive, AdapterTypeOK, Calling
  <2> QED BY <1>9, <2>1, <2>2 DEF DeliverLive, AdapterTypeOK, Calling
<1>10. ASSUME NEW c \in Copies, UnmuteArrives(c) \/ SwapSkipped(c) PROVE AdapterTypeOK'
  <2>1. queue' \in [Copies -> Seq(Notes)]
    BY <1>10, TakenTyped DEF UnmuteArrives, SwapSkipped
  <2> QED BY <1>10, <2>1 DEF UnmuteArrives, SwapSkipped, AdapterTypeOK
<1>11. ASSUME NEW c \in Copies, SwapDeliver(c) PROVE AdapterTypeOK'
  <2>1. store[c] \in Bodies /\ queue' \in [Copies -> Seq(Notes)]
    BY <1>11, TakenTyped DEF SwapDeliver, ObjectTypeOK
  <2>2. busy' \in [Copies -> Calling]
    BY <1>11, <2>1, RecordFacts DEF SwapDeliver, AdapterTypeOK, Calling
  <2> QED BY <1>11, <2>1, <2>2 DEF SwapDeliver, AdapterTypeOK, Calling
<1>12. ASSUME NEW c \in Copies, Record(c) PROVE AdapterTypeOK'
  <2>1. busy[c].obj \in Bodies /\ busy' \in [Copies -> Calling]
    BY <1>12, RecordFacts DEF Record, AdapterTypeOK, Calling
  <2> QED BY <1>12, <2>1 DEF Record, AdapterTypeOK, Calling
<1>13. ASSUME NEW c \in Copies, SwapRecord(c) PROVE AdapterTypeOK'
  <2>1. busy[c].obj \in Bodies /\ busy' \in [Copies -> Calling]
    BY <1>13, RecordFacts DEF SwapRecord, AdapterTypeOK, Calling
  <2>2. SuppressedAfter(c, busy[c].obj) \in Suppressions
    BY <2>1, RecordFacts DEF SuppressedAfter, AdapterTypeOK, Suppressions
  <2>3. suppress' \in [Copies -> Suppressions]
    BY <1>13, <2>2 DEF SwapRecord, AdapterTypeOK, Suppressions
  <2> QED BY <1>13, <2>1, <2>3 DEF SwapRecord, AdapterTypeOK, Calling, Suppressions
<1>14. ASSUME NEW c \in Copies, Unmute(c) PROVE AdapterTypeOK'
  <2>1. queue' \in [Copies -> Seq(Notes)]
    BY <1>14, BodyFacts, SentTyped DEF Unmute
  <2> QED BY <1>14, <2>1 DEF Unmute, AdapterTypeOK
<1>15. ASSUME NEW c \in Copies, DeliverM(c) PROVE AdapterTypeOK'
  <2>1. queue' \in [Copies -> Seq(Notes)]
    BY <1>15, BodyFacts, SentTyped DEF DeliverM, AdapterTypeOK
  <2> QED BY <1>15, <2>1 DEF DeliverM, AdapterTypeOK
<1> QED BY <1>2, <1>3, <1>4, <1>5, <1>6, <1>7, <1>8, <1>9, <1>10, <1>11, <1>12, <1>13, <1>14, <1>15,
           Steps

\* What FlagTypeOK speaks of.
flagVars == <<muted, blurred, stopped, done, inM, passed, behind>>

\* The flags of the copies stay Boolean.
LEMMA FlagStep ==
    ASSUME FlagTypeOK, Next
    PROVE  FlagTypeOK'
<1>1. ASSUME UNCHANGED flagVars PROVE FlagTypeOK'
  BY <1>1 DEF FlagTypeOK, flagVars
<1>2. ASSUME Write \/ CleanPassEnds PROVE FlagTypeOK'
  BY <1>1, <1>2 DEF Write, CleanPassEnds, flagVars, adapterVars, runVars, swapVars
<1>3. ASSUME NEW c \in Copies,
             \/ Watch(c) \/ Distribute(c) \/ (\E v \in Versions : List(c, v))
             \/ DeliverMuted(c) \/ DeliverLive(c) \/ SwapSkipped(c) \/ SwapDeliver(c) \/ Record(c)
             \/ GiveUp(c) \/ Install(c)
      PROVE  FlagTypeOK'
  BY <1>1, <1>3 DEF Watch, Distribute, List, DeliverMuted, DeliverLive, SwapSkipped, SwapDeliver,
     Record, GiveUp, Install, flagVars, adapterVars, runVars, swapVars
<1>4. ASSUME stopped' \in [Copies -> BOOLEAN], UNCHANGED <<muted, blurred, done, inM, passed, behind>>
      PROVE  FlagTypeOK'
  BY <1>4 DEF FlagTypeOK
<1>5. ASSUME RequestDivergence \/ RequestSchema PROVE FlagTypeOK'
  <2>1. stopped' \in [Copies -> BOOLEAN]
    BY <1>5 DEF RequestDivergence, RequestSchema, RequestBuild, FlagTypeOK
  <2> QED BY <1>4, <1>5, <2>1 DEF RequestDivergence, RequestSchema, RequestBuild, adapterVars
<1>6. ASSUME CleanPass \/ (\E c \in Copies : ListRefused(c)) PROVE FlagTypeOK'
  <2>1. stopped' \in [Copies -> BOOLEAN]
    BY <1>6 DEF CleanPass, ListRefused, Abort, FlagTypeOK
  <2> QED BY <1>4, <1>6, <2>1 DEF CleanPass, ListRefused, adapterVars, swapVars
<1>7. ASSUME Teardown PROVE FlagTypeOK'
  <2>1. stopped' \in [Copies -> BOOLEAN]
    BY <1>7 DEF Teardown, FlagTypeOK
  <2> QED BY <1>4, <1>7, <2>1 DEF Teardown, adapterVars
<1>8. ASSUME NEW c \in Copies, CloseRetiring(c) PROVE FlagTypeOK'
  <2>1. stopped' \in [Copies -> BOOLEAN]
    BY <1>8 DEF CloseRetiring, FlagTypeOK
  <2> QED BY <1>4, <1>8, <2>1 DEF CloseRetiring, adapterVars
<1>9. ASSUME NEW c \in Copies, RunReturns(c) \/ UnmuteArrives(c) PROVE FlagTypeOK'
  BY <1>9 DEF RunReturns, UnmuteArrives, FlagTypeOK, runVars, swapVars
<1>10. ASSUME NEW c \in Copies, DeliverSuppressed(c) \/ SwapRecord(c) PROVE FlagTypeOK'
  <2>1. PICK p \in BOOLEAN : blurred' = [blurred EXCEPT ![c] = p]
    BY <1>10 DEF DeliverSuppressed, SwapRecord, FlagTypeOK
  <2>2. UNCHANGED <<muted, stopped, done, inM, passed, behind>>
    BY <1>10 DEF DeliverSuppressed, SwapRecord, runVars, swapVars
  <2> QED BY <2>1, <2>2 DEF FlagTypeOK
<1>11. ASSUME NEW c \in Copies, CheckLater(c) PROVE FlagTypeOK'
  BY <1>11 DEF CheckLater, FlagTypeOK, adapterVars, runVars
<1>12. ASSUME NEW c \in Copies, Unmute(c) PROVE FlagTypeOK'
  <2>1. behind' \in [Copies -> BOOLEAN]
    BY <1>12 DEF Unmute, FlagTypeOK
  <2> QED BY <1>12, <2>1 DEF Unmute, FlagTypeOK, runVars
<1>13. ASSUME NEW c \in Copies, ComputeM(c) \/ DeliverM(c) PROVE FlagTypeOK'
  <2>1. inM' \in [Copies -> BOOLEAN]
    BY <1>13 DEF ComputeM, DeliverM, Differs, Same, Absent, FlagTypeOK
  <2> QED BY <1>13, <2>1 DEF ComputeM, DeliverM, FlagTypeOK, adapterVars, runVars
<1> QED BY <1>2, <1>3, <1>5, <1>6, <1>7, <1>8, <1>9, <1>10, <1>11, <1>12, <1>13, Steps

\* The copies, builds and accounts keep their types; a copy that installs was
\* neither live nor retiring, so it never waits for itself.
LEMMA BuildStep ==
    ASSUME BuildTypeOK, PhaseInv, Accounts, Next
    PROVE  BuildTypeOK'
<1> USE CopyFacts
<1>1. ASSUME UNCHANGED <<live, comparator, build, built, retiring, waits, swap, account>>
      PROVE  BuildTypeOK'
  BY <1>1 DEF BuildTypeOK
<1>2. ASSUME Write \/ CleanPassEnds PROVE BuildTypeOK'
  BY <1>1, <1>2 DEF Write, CleanPassEnds, swapVars, buildVars
<1>3. ASSUME NEW c \in Copies,
             \/ Watch(c) \/ Distribute(c) \/ (\E v \in Versions : List(c, v)) \/ RunReturns(c)
             \/ DeliverSuppressed(c) \/ DeliverMuted(c) \/ DeliverLive(c) \/ UnmuteArrives(c)
             \/ SwapSkipped(c) \/ SwapDeliver(c) \/ Record(c) \/ SwapRecord(c)
      PROVE  BuildTypeOK'
  BY <1>1, <1>3 DEF Watch, Distribute, List, RunReturns, DeliverSuppressed, DeliverMuted, DeliverLive,
     UnmuteArrives, SwapSkipped, SwapDeliver, Record, SwapRecord, swapVars, buildVars
<1>4. ASSUME CleanPass \/ (\E c \in Copies : ListRefused(c)) PROVE BuildTypeOK'
  BY <1>4 DEF CleanPass, ListRefused, Abort, BuildTypeOK, swapVars
<1>5. ASSUME NEW r, RequestBuild(r) PROVE BuildTypeOK'
  <2>1. UNCHANGED <<live, comparator, retiring, waits, account>>
    BY <1>5 DEF RequestBuild
  <2>2. CASE build = NoBuild \/ r = "schema"
    <3>1. /\ built \in Copies /\ built' = built + 1 /\ built' \in 1..MaxBuilds + 1
          /\ swap' = [swap EXCEPT ![built] = "sync"]
          /\ build' = [inst |-> built, acc |-> IF build = NoBuild THEN built ELSE build.acc]
      BY <1>5, <2>2, ConstantsAssumption DEF RequestBuild, Construct, BuildTypeOK, Copies
    <3>2. build' \in [inst : Copies, acc : Copies]
      BY <3>1 DEF BuildTypeOK
    <3> QED BY <2>1, <3>1, <3>2 DEF BuildTypeOK
  <2>3. CASE ~(build = NoBuild \/ r = "schema")
    BY <1>1, <1>5, <2>1, <2>3 DEF RequestBuild
  <2> QED BY <2>2, <2>3
<1>6. ASSUME Teardown PROVE BuildTypeOK'
  <2>1. account' \in [Copies -> Copies \cup {NoCopy}]
    BY <1>6 DEF Teardown, BuildTypeOK
  <2> QED BY <1>6, <2>1 DEF Teardown, BuildTypeOK
<1>7. ASSUME NEW c \in Copies, GiveUp(c) \/ CloseRetiring(c) \/ ComputeM(c) \/ Unmute(c)
      PROVE  BuildTypeOK'
  BY <1>7 DEF GiveUp, CloseRetiring, ComputeM, Unmute, At, BuildTypeOK, buildVars
<1>8. ASSUME NEW c \in Copies, Install(c) PROVE BuildTypeOK'
  <2>1. /\ swap[c] = "sync" /\ swap' = [swap EXCEPT ![c] = "close"]
        /\ live \in Copies /\ live' = c /\ build # NoBuild /\ build' = NoBuild
        /\ retiring' = retiring \cup {live}
        /\ waits' = [waits EXCEPT ![c] = retiring \cup {live}]
        /\ UNCHANGED <<comparator, built>>
    BY <1>8 DEF Install, At, Retired, BuildTypeOK, NoBuild
  <2>2. live # c /\ c \notin retiring
    BY <2>1 DEF PhaseInv, Phases
  <2>3. build.acc \in Copies
    BY <2>1 DEF BuildTypeOK
  <2>4. account' \in [Copies -> Copies \cup {NoCopy}]
    BY <1>8, <2>3 DEF Install, BuildTypeOK
  <2> QED BY <2>1, <2>2, <2>4 DEF BuildTypeOK
<1>9. ASSUME NEW c \in Copies, CheckLater(c) PROVE BuildTypeOK'
  BY <1>9 DEF CheckLater, At, BuildTypeOK
<1>10. ASSUME NEW c \in Copies, DeliverM(c) PROVE BuildTypeOK'
  BY <1>10 DEF DeliverM, At, BuildTypeOK, buildVars
<1> QED BY <1>2, <1>3, <1>4, <1>5, <1>6, <1>7, <1>8, <1>9, <1>10, Steps
        DEF RequestDivergence, RequestSchema

\* A step moves at most once.
LEMMA MovesStep ==
    ASSUME moves \in 0..MaxMoves, Next
    PROVE  moves' \in 0..MaxMoves
  BY ConstantsAssumption DEF Next, Environment, Own

\* The requests keep their types.
LEMMA RequestStep ==
    ASSUME RequestTypeOK, BuildTypeOK, PhaseInv, Accounts, Next
    PROVE  RequestTypeOK'
<1> USE CopyFacts
<1>1. moves' \in 0..MaxMoves
  BY MovesStep DEF RequestTypeOK
<1>2. ASSUME UNCHANGED <<reasons, clean, asked, ended>> PROVE RequestTypeOK'
  BY <1>1, <1>2 DEF RequestTypeOK
<1>3. ASSUME Write PROVE RequestTypeOK'
  BY <1>2, <1>3 DEF Write, accountVars
<1>4. ASSUME NEW c \in Copies,
             \/ Watch(c) \/ Distribute(c) \/ (\E v \in Versions : List(c, v)) \/ RunReturns(c)
             \/ DeliverSuppressed(c) \/ DeliverMuted(c) \/ DeliverLive(c) \/ UnmuteArrives(c)
             \/ SwapSkipped(c) \/ SwapDeliver(c) \/ Record(c) \/ SwapRecord(c)
             \/ GiveUp(c) \/ CloseRetiring(c) \/ CheckLater(c) \/ Unmute(c) \/ ComputeM(c)
      PROVE  RequestTypeOK'
  BY <1>2, <1>4 DEF Watch, Distribute, List, RunReturns, DeliverSuppressed, DeliverMuted, DeliverLive,
     UnmuteArrives, SwapSkipped, SwapDeliver, Record, SwapRecord, GiveUp, CloseRetiring, CheckLater,
     Unmute, ComputeM, accountVars
<1>5. ASSUME NEW r \in {"divergence", "schema"}, RequestBuild(r) PROVE RequestTypeOK'
  <2> DEFINE id == Len(asked) + 1
             acc == IF build = NoBuild THEN built ELSE build.acc
  <2>1. /\ asked' = Append(asked, r) /\ reasons' = [reasons EXCEPT ![acc] = @ \cup {id}]
        /\ UNCHANGED <<clean, ended>>
    BY <1>5 DEF RequestBuild
  <2>2. asked' \in Seq({"divergence", "schema"}) /\ Len(asked') = id /\ Len(asked) \in Nat
    BY <2>1 DEF RequestTypeOK
  <2>3. 1..Len(asked) \subseteq 1..Len(asked') /\ id \in 1..Len(asked')
    BY <2>2
  <2> HIDE DEF id, acc
  <2>4. reasons' \in [Copies -> SUBSET (1..Len(asked'))]
    <3>1. \A a \in Copies : reasons[a] \subseteq 1..Len(asked')
      BY <2>3 DEF RequestTypeOK
    <3> QED BY <2>1, <2>3, <3>1 DEF RequestTypeOK
  <2>5. ended' \subseteq 1..Len(asked')
    BY <2>1, <2>3 DEF RequestTypeOK
  <2> QED BY <1>1, <2>1, <2>2, <2>4, <2>5 DEF RequestTypeOK
<1>6. ASSUME CleanPass PROVE RequestTypeOK'
  BY <1>1, <1>6 DEF CleanPass, RequestTypeOK, BuildTypeOK
<1>7. ASSUME Teardown PROVE RequestTypeOK'
  <2> DEFINE open == (IF build = NoBuild THEN {} ELSE {build.acc})
                     \cup (IF passed[live] \/ account[live] = NoCopy THEN {} ELSE {account[live]})
  <2>1. /\ live \in Copies /\ UNCHANGED <<clean, asked>>
        /\ ended' = ended \cup UNION {reasons[a] : a \in open}
        /\ reasons' = [a \in Copies |-> IF a \in open THEN {} ELSE reasons[a]]
    BY <1>7 DEF Teardown, BuildTypeOK
  <2>2. open \subseteq Copies
    BY <2>1 DEF BuildTypeOK
  <2> HIDE DEF open
  <2> QED BY <1>1, <2>1, <2>2 DEF RequestTypeOK
<1>8. ASSUME CleanPassEnds PROVE RequestTypeOK'
  <2>1. PICK gives \in SUBSET reasons[clean] :
          /\ clean \in Copies /\ asked' = asked /\ ended' = ended \cup gives /\ clean' = NoCopy
          /\ reasons' = [reasons EXCEPT ![clean] = @ \ gives]
    BY <1>8 DEF CleanPassEnds, RequestTypeOK
  <2> QED BY <1>1, <2>1 DEF RequestTypeOK
<1>9. ASSUME NEW c \in Copies, Install(c) PROVE RequestTypeOK'
  <2>1. UNCHANGED <<asked, ended, clean>> /\ live \in Copies /\ build # NoBuild
    BY <1>9 DEF Install, BuildTypeOK, NoBuild
  <2>2. CASE Absorbs
    <3>1. build.acc \in Copies /\ account[live] \in Copies
      BY <2>1, <2>2 DEF Absorbs, BuildTypeOK
    <3>2. reasons' = [reasons EXCEPT ![build.acc] = @ \cup reasons[account[live]], ![account[live]] = {}]
      BY <1>9, <2>2 DEF Install
    <3> QED BY <1>1, <2>1, <3>1, <3>2 DEF RequestTypeOK
  <2>3. CASE ~Absorbs
    BY <1>2, <1>9, <2>1, <2>3 DEF Install
  <2> QED BY <2>2, <2>3
<1>10. ASSUME NEW a \in Copies, UNCHANGED <<asked, clean>>, ended' = ended \cup reasons[a],
             reasons' = [reasons EXCEPT ![a] = {}]
      PROVE  RequestTypeOK'
  BY <1>1, <1>10 DEF RequestTypeOK
<1>11. ASSUME NEW c \in Copies, DeliverM(c) PROVE RequestTypeOK'
  <2>1. account[c] \in Copies
    BY <1>11 DEF DeliverM, At, Accounts, PhaseInv, Phases, Delivering, BuildTypeOK
  <2> QED BY <1>10, <1>11, <2>1 DEF DeliverM
<1>12. ASSUME NEW c \in Copies, ListRefused(c) PROVE RequestTypeOK'
  <2>1. build.acc \in Copies
    BY <1>12 DEF ListRefused, BuildTypeOK, NoBuild
  <2> QED BY <1>10, <1>12, <2>1 DEF ListRefused
<1> QED BY <1>3, <1>4, <1>5, <1>6, <1>7, <1>8, <1>9, <1>11, <1>12, Steps
        DEF RequestDivergence, RequestSchema

----------------------------------------------------------------------------
\* The inductive invariant: the three properties hold because only an acting copy
\* calls, signals come from copies past step 3, and accounts pass from hand to hand.
IInv ==
    /\ TypeOK /\ CallersAct /\ SignalsPassed /\ PhaseInv
    /\ Accounts /\ Counted /\ Held

\* The registered copy and its delivered object are well typed.
LEMMA InitTyped ==
    ASSUME Init
    PROVE  TypeOK
<1> USE CopyFacts, ConstantsAssumption
<1>1. /\ NoObject \in Bodies /\ Body(0) \in Bodies /\ 0 \in Versions /\ 0 \in 0..MaxSchema
      /\ schema = 0
  BY BodyFacts DEF Init, Versions
<1>2. ObjectTypeOK
  BY <1>1 DEF Init, ObjectTypeOK
<1>3. AdapterTypeOK
  <2>1. queue \in [Copies -> Seq(Notes)]
    BY DEF Init
  <2>2. busy \in [Copies -> Calling] /\ suppress \in [Copies -> Suppressions]
    BY RecordFacts DEF Init
  <2> QED BY <1>1, <2>1, <2>2 DEF Init, AdapterTypeOK, Calling, Suppressions
<1>4. FlagTypeOK
  BY DEF Init, FlagTypeOK
<1>5. BuildTypeOK
  BY DEF Init, BuildTypeOK
<1>6. RequestTypeOK
  BY DEF Init, RequestTypeOK
<1> QED BY <1>2, <1>3, <1>4, <1>5, <1>6 DEF TypeOK

\* Nothing is swapped at the start.
LEMMA InitInv ==
    ASSUME Init
    PROVE  IInv
<1> USE CopyFacts
<1>1. TypeOK
  BY InitTyped
<1>2. CallersAct /\ SignalsPassed
  BY DEF Init, CallersAct, Calls, Acting, SignalsPassed
<1>3. PhaseInv
  BY DEF Init, PhaseInv, Phases, BuildOpen, ActorKnown, Acting, Delivering, Installing
<1>4. Accounts
  BY DEF Init, Accounts, NoCopy
<1>5. Counted /\ Held
  BY DEF Init, Counted, Held
<1> QED BY <1>1, <1>2, <1>3, <1>4, <1>5 DEF IInv

\* Stuttering keeps the invariant.
LEMMA InvKept ==
    ASSUME IInv, UNCHANGED vars
    PROVE  IInv'
<1> USE DEF vars, objectVars, informerVars, adapterVars, runVars, swapVars, buildVars, accountVars
<1>1. TypeOK'
  <2>1. ObjectTypeOK' /\ AdapterTypeOK'
    BY DEF IInv, TypeOK, ObjectTypeOK, AdapterTypeOK, Bodies, Notes
  <2>2. FlagTypeOK' /\ BuildTypeOK'
    BY DEF IInv, TypeOK, FlagTypeOK, BuildTypeOK
  <2>3. RequestTypeOK'
    BY DEF IInv, TypeOK, RequestTypeOK
  <2> QED BY <2>1, <2>2, <2>3 DEF TypeOK
<1>2. CallersAct' /\ SignalsPassed'
  BY DEF IInv, CallersAct, Calls, Acting, SignalsPassed
<1>3. PhaseInv' /\ Accounts'
  BY PhaseKept, AccountsKept DEF IInv, phaseVars, accountsVars
<1>4. Counted' /\ Held'
  BY <1>3, CountedKept, HeldKept DEF IInv
<1> QED BY <1>1, <1>2, <1>3, <1>4 DEF IInv

\* Every step keeps the invariant.
LEMMA InvStep ==
    ASSUME IInv, Next
    PROVE  IInv'
<1>1. /\ ObjectTypeOK /\ AdapterTypeOK /\ FlagTypeOK /\ BuildTypeOK /\ RequestTypeOK
      /\ CallersAct /\ SignalsPassed /\ PhaseInv /\ Phases /\ Accounts /\ Counted /\ Held
  BY DEF IInv, TypeOK, PhaseInv
<1>2. TypeOK'
  BY <1>1, ObjectStep, AdapterStep, FlagStep, BuildStep, RequestStep DEF TypeOK
<1>3. CallersAct' /\ SignalsPassed' /\ PhaseInv'
  BY <1>1, CallersStep, SignalsStep, PhaseStep
<1>4. Accounts' /\ Counted'
  BY <1>1, AccountsStep, CountedStep
<1>5. Held'
  BY <1>1, <1>4, HeldStep
<1> QED BY <1>2, <1>3, <1>4, <1>5 DEF IInv

\* IInv holds in every reachable state.
THEOREM Invariance == Spec => []IInv
<1>1. Init => IInv
  BY InitInv
<1>2. IInv /\ [Next]_vars => IInv'
  BY InvStep, InvKept
<1> QED BY <1>1, <1>2, PTL DEF Spec

\* Every variable keeps its type, and the live copy is never among those that its
\* own swap stops and waits for (installBuild, steps 1 and 2).
THEOREM TypeCorrect == Spec => []TypeOK
<1>1. IInv => TypeOK
  BY DEF IInv
<1> QED BY <1>1, Invariance, PTL

\* The consumer never has two callers, however many swaps chain (installBuild's
\* wait in step 2, and its check for a later install in step 3).
THEOREM OneCaller == Spec => []OneActor
<1>1. IInv => OneActor
  BY DEF IInv, PhaseInv, ActorKnown, CallersAct, OneActor
<1> QED BY <1>1, Invariance, PTL

\* A request for a build has ended, or one account holds it that somebody will
\* end (requestStoreBuildBound, noteCleanPass, installBuild, teardown).
THEOREM RequestsHeld == Spec => []RequestHeld
<1>1. IInv => RequestHeld
  BY DEF IInv, Counted, Held, RequestHeld
<1> QED BY <1>1, Invariance, PTL
=============================================================================
