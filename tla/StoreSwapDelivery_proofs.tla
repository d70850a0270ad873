---------------------- MODULE StoreSwapDelivery_proofs ----------------------
(***************************************************************************)
(* Proofs about what the consumer is told across the swaps of StoreSwap: no  *)
(* change is lost, and it steps back only where the code says it may.        *)
(***************************************************************************)
EXTENDS StoreSwap_proofs

\* The places of a copy's queue, and what is in them.
Places(c) == 1..Len(queue[c])
IsNote(c, i) == queue[c][i].kind = "note"
End(c) == Len(queue[c]) + 1
Signalled(c, k) == \E i \in Places(c) : queue[c][i].kind = k

\* The body the listener was last told of.
Latest(c) == IF busy[c].pc = "call" THEN busy[c].obj ELSE seen[c]

\* Nothing of the object is known to a copy that has not listed, or no longer runs.
Known(c) ==
    /\ pos[c] = -1 => /\ store[c] = NoObject /\ out[c] = NoObject /\ seen[c] = NoObject
                      /\ busy[c].pc # "call" /\ \A i \in Places(c) : ~IsNote(c, i)
    /\ pos[c] # -1 => store[c].ver = pos[c]
    /\ done[c] => queue[c] = <<>> /\ out[c] = NoObject

\* A copy is installed, and acts, only when it has listed.
Listed(c) == pos[c] = -1 /\ ~done[c] => ~Acting(c) /\ swap[c] \notin {"close", "wait"}

\* The last notification on its way is of the body in the store; without one the
\* listener has been told of it.
TailIsStore(c) ==
    /\ out[c] # NoObject => out[c] = store[c]
    /\ out[c] = NoObject =>
         \/ (\A i \in Places(c) : ~IsNote(c, i)) /\ Same(Latest(c), store[c])
         \/ \E i \in Places(c) : /\ IsNote(c, i) /\ queue[c][i].obj = store[c]
                                 /\ \A j \in Places(c) : i < j => ~IsNote(c, j)

\* Notifications are in the order of the versions.
InOrder(c) ==
    /\ Latest(c).ver <= store[c].ver
    /\ \A i \in Places(c) : IsNote(c, i) =>
         /\ Latest(c).ver < queue[c][i].obj.ver /\ queue[c][i].obj.ver <= store[c].ver
         /\ \A j \in Places(c) : i < j /\ IsNote(c, j) => queue[c][i].obj.ver < queue[c][j].obj.ver
    /\ out[c] # NoObject =>
         /\ Latest(c).ver < out[c].ver
         /\ \A i \in Places(c) : IsNote(c, i) => queue[c][i].obj.ver < out[c].ver

\* The consumer is in a call, or its record is up to date.
CallKnown ==
    /\ \A c \in Copies : /\ busy[c].pc = "idle" => busy[c] = Idle
                         /\ busy[c] # Idle => consumer = busy[c].obj /\ ~muted[c]
    /\ (\A c \in Copies : busy[c] = Idle) => acted = consumer

\* The unmute signal comes before all that needs it, and the swap signal once.
SignalOrder(c) ==
    /\ Acting(c) /\ swap[c] # "unmute" => ~muted[c] \/ Signalled(c, "unmute")
    /\ swap[c] = "unmute" => muted[c] /\ ~Signalled(c, "unmute")
    /\ muted[c] => ~Suppressing(c)
    /\ \A i \in Places(c) : queue[c][i].kind = "swap" =>
         /\ muted[c] => \E j \in Places(c) : j < i /\ queue[c][j].kind = "unmute"
         /\ \A j \in Places(c) : queue[c][j].kind = "swap" => i = j
    /\ Signalled(c, "swap") => swap[c] = "off" /\ busy[c].pc # "swapCall" /\ ~Suppressing(c)
    /\ busy[c].pc = "swapCall" \/ Suppressing(c) => swap[c] = "off" /\ Acting(c)
    /\ swap[c] # "deliver" => ~inM[c]

\* A notification that the consumer will be called with.
LiveNote(c, i) ==
    IsNote(c, i) /\ (muted[c] => \E j \in Places(c) : j < i /\ queue[c][j].kind = "unmute")
Pending(c) == out[c] # NoObject \/ \E i \in Places(c) : LiveNote(c, i)

\* The swap has still to compare the store with what the consumer acted on.
Comparing(c) == swap[c] \in {"unmute", "compute"} \/ inM[c] \/ Signalled(c, "swap")

\* S, delivered by a swap, has been seen or is on its way.
SwapKnown(c) ==
    /\ busy[c].pc = "swapCall" =>
         \/ Same(seen[c], busy[c].obj)
         \/ out[c] # NoObject /\ out[c] = busy[c].obj
         \/ \E i \in Places(c) : IsNote(c, i) /\ queue[c][i].obj = busy[c].obj
    /\ Suppressing(c) =>
         /\ consumer = suppress[c].obj
         /\ \/ out[c] # NoObject /\ Same(suppress[c].obj, out[c])
            \/ \E i \in Places(c) : IsNote(c, i) /\ Same(suppress[c].obj, queue[c][i].obj)

\* What the acting copy's store holds is what the consumer was told, or what it
\* will be told.
Caught(c) ==
    Acting(c) /\ ~Comparing(c) /\ ~Suppressing(c) /\ ~Pending(c) => Same(consumer, store[c])

\* A copy that was not behind tells the consumer of nothing older.
Forward(c) ==
    Acting(c) /\ swap[c] # "unmute" /\ ~behind[c] /\ ~blurred[c] =>
        /\ consumer.ver <= store[c].ver
        /\ ~Suppressing(c) /\ busy[c].pc # "swapCall" =>
             /\ out[c] # NoObject => consumer.ver <= out[c].ver
             /\ \A i \in Places(c) : LiveNote(c, i) => consumer.ver <= queue[c][i].obj.ver

\* The live copy runs, and its install is at work until it has passed step 3.
LiveRuns ==
    live # NoCopy => /\ ~stopped[live] /\ ~done[live]
                     /\ swap[live] = "off" => Acting(live)
                     /\ \A d \in Copies : live \notin waits[d]

DoneStopped == \A c \in Copies : done[c] => stopped[c] /\ busy[c] = Idle

\* The inductive invariant of the delivery, beside IInv.
DInv ==
    /\ LiveRuns /\ DoneStopped /\ CallKnown
    /\ \A c \in Copies : /\ Known(c) /\ Listed(c) /\ TailIsStore(c) /\ InOrder(c) /\ SignalOrder(c)
                         /\ SwapKnown(c) /\ Caught(c) /\ Forward(c)

----------------------------------------------------------------------------
\* The state of a copy's informer and adapter, and where its swap is.
copyState(c) == <<pos[c], store[c], out[c], queue[c], busy[c], muted[c], seen[c], suppress[c],
                  done[c], blurred[c]>>
swapState(c) == <<inM[c], passed[c], behind[c]>>

\* A step that changes no copy's state and lets no copy act: requests, the ends of
\* builds, the steps of an install that come before a copy acts.
Quiet ==
    /\ UNCHANGED <<gone, consumer, acted>>
    /\ \A d \in Copies :
         /\ UNCHANGED copyState(d) /\ UNCHANGED swapState(d)
         /\ \/ swap'[d] = swap[d]
            \/ /\ d # 0 /\ ~passed[d] /\ swap'[d] \notin Delivering /\ swap[d] \notin Delivering
               /\ swap'[d] \in {"close", "wait"} => swap[d] \in {"close", "wait"} \/ pos[d] # -1

\* A copy's install passes step 3.
Passes(c) ==
    /\ UNCHANGED <<gone, consumer, acted>>
    /\ \A d \in Copies : UNCHANGED copyState(d) /\ inM'[d] = inM[d] /\ behind'[d] = behind[d]
    /\ swap[c] = "wait" /\ c # 0 /\ ~passed[c] /\ swap'[c] = "unmute" /\ passed'[c]
    /\ \A d \in Copies : d # c => swap'[d] = swap[d] /\ passed'[d] = passed[d]

\* Nothing of another copy, its swap or the object changes.
Alone(c) ==
    /\ gone' = gone
    /\ \A d \in Copies : d # c => UNCHANGED copyState(d) /\ UNCHANGED swapState(d) /\ swap'[d] = swap[d]

\* Steps outside the copies.
LEMMA QuietSteps ==
    ASSUME IInv, \/ Write \/ RequestDivergence \/ RequestSchema \/ CleanPass \/ Teardown \/ CleanPassEnds
                 \/ \E c \in Copies : GiveUp(c) \/ Install(c) \/ CloseRetiring(c) \/ ListRefused(c)
    PROVE  Quiet
<1> USE CopyFacts DEF IInv, TypeOK, PhaseInv
<1>1. ASSUME Write \/ CleanPass \/ Teardown \/ CleanPassEnds \/ \E c \in Copies : ListRefused(c)
      PROVE  Quiet
  BY <1>1 DEF Write, CleanPass, Teardown, CleanPassEnds, ListRefused, Quiet, copyState, swapState,
     objectVars, informerVars, adapterVars, runVars, swapVars
<1>2. ASSUME NEW r, RequestBuild(r), gone' = gone PROVE Quiet
  <2>1. UNCHANGED <<gone, consumer, acted>> /\ \A d \in Copies : UNCHANGED copyState(d) /\ UNCHANGED swapState(d)
    BY <1>2 DEF RequestBuild, copyState, swapState, informerVars, adapterVars
  <2>2. swap' = swap \/ (swap' = [swap EXCEPT ![built] = "sync"])
    BY <1>2 DEF RequestBuild, Construct
  <2>3. \A d \in Copies : d = built => d # 0 /\ ~passed[d] /\ swap[d] = "off"
    BY DEF BuildTypeOK, Phases
  <2>4. \A d \in Copies : swap'[d] = swap[d] \/ (d = built /\ swap'[d] = "sync")
    BY <2>2 DEF BuildTypeOK
  <2> QED BY <2>1, <2>3, <2>4 DEF Quiet, Delivering
<1>3. ASSUME RequestDivergence \/ RequestSchema PROVE Quiet
  BY <1>2, <1>3 DEF RequestDivergence, RequestSchema, RequestBuild
<1>4. ASSUME NEW c \in Copies, GiveUp(c) \/ Install(c) \/ CloseRetiring(c) PROVE Quiet
  <2>1. UNCHANGED <<gone, consumer, acted>> /\ \A d \in Copies : UNCHANGED copyState(d) /\ UNCHANGED swapState(d)
    BY <1>4 DEF GiveUp, Install, CloseRetiring, copyState, swapState, objectVars, informerVars,
       adapterVars, runVars
  <2>2. PICK q \in {"off", "close", "wait"} :
          /\ swap' = [swap EXCEPT ![c] = q] /\ swap[c] \in {"sync", "close"}
          /\ q \in {"close", "wait"} => swap[c] = "close" \/ pos[c] # -1
    BY <1>4 DEF GiveUp, Install, CloseRetiring, At
  <2>3. c # 0 /\ ~passed[c]
    BY <2>2 DEF Phases, Installing
  <2>4. \A d \in Copies : swap'[d] = IF d = c THEN q ELSE swap[d]
    BY <2>2 DEF BuildTypeOK
  <2> QED BY <2>1, <2>2, <2>3, <2>4 DEF Quiet, Delivering
<1> QED BY <1>1, <1>3, <1>4

\* Step 3 lets the copy act, or gives up.
LEMMA CheckLaterEffect ==
    ASSUME IInv, NEW c \in Copies, CheckLater(c)
    PROVE  Quiet \/ Passes(c)
<1> USE DEF IInv, TypeOK, PhaseInv
<1>1. /\ UNCHANGED <<gone, consumer, acted>>
      /\ \A d \in Copies : UNCHANGED copyState(d) /\ inM'[d] = inM[d] /\ behind'[d] = behind[d]
  BY DEF CheckLater, copyState, objectVars, informerVars, adapterVars, runVars
<1>2. swap[c] = "wait" /\ c # 0 /\ ~passed[c]
  BY DEF CheckLater, At, Phases, Installing
<1>3. CASE live = c
  <2>1. swap' = [swap EXCEPT ![c] = "unmute"] /\ passed' = [passed EXCEPT ![c] = TRUE]
    BY <1>3 DEF CheckLater, At
  <2> QED BY <1>1, <1>2, <2>1 DEF Passes, BuildTypeOK, FlagTypeOK
<1>4. CASE live # c
  <2>1. swap' = [swap EXCEPT ![c] = "off"] /\ passed' = passed
    BY <1>4 DEF CheckLater, At
  <2> QED BY <1>1, <1>2, <2>1 DEF Quiet, swapState, BuildTypeOK, Delivering
<1> QED BY <1>3, <1>4

\* The steps of one copy's informer and listener, and of its install past step 3.
OwnStep(c) ==
    \/ Watch(c) \/ Distribute(c) \/ RunReturns(c) \/ \E v \in Versions : List(c, v)
    \/ DeliverSuppressed(c) \/ DeliverMuted(c) \/ DeliverLive(c) \/ UnmuteArrives(c)
    \/ SwapSkipped(c) \/ SwapDeliver(c) \/ Record(c) \/ SwapRecord(c)
    \/ Unmute(c) \/ ComputeM(c) \/ DeliverM(c)

\* They change nothing of another copy.
LEMMA Elsewhere ==
    ASSUME IInv, NEW c \in Copies, OwnStep(c)
    PROVE  Alone(c)
<1> USE DEF IInv, TypeOK, ObjectTypeOK, AdapterTypeOK, FlagTypeOK, BuildTypeOK, Alone, copyState, swapState,
       objectVars, informerVars, adapterVars, runVars, swapVars
<1>1. ASSUME Watch(c) \/ Record(c) \/ SwapRecord(c) \/ RunReturns(c) PROVE Alone(c)
  BY <1>1 DEF Watch, Record, SwapRecord, RunReturns
<1>2. ASSUME NEW v \in Versions, List(c, v) PROVE Alone(c)
  BY <1>2 DEF List
<1>3. ASSUME Distribute(c) PROVE Alone(c)
  BY <1>3 DEF Distribute, Sent
<1>4. ASSUME DeliverSuppressed(c) \/ DeliverMuted(c) PROVE Alone(c)
  BY <1>4 DEF DeliverSuppressed, DeliverMuted, Takes
<1>5. ASSUME DeliverLive(c) \/ UnmuteArrives(c) \/ SwapSkipped(c) \/ SwapDeliver(c) PROVE Alone(c)
  BY <1>5 DEF DeliverLive, UnmuteArrives, SwapSkipped, SwapDeliver, Takes
<1>6. ASSUME Unmute(c) PROVE Alone(c)
  BY <1>6 DEF Unmute, Sent, At
<1>7. ASSUME ComputeM(c) PROVE Alone(c)
  BY <1>7 DEF ComputeM, At
<1>8. ASSUME DeliverM(c) PROVE Alone(c)
  BY <1>8 DEF DeliverM, Sent, At
<1> QED BY <1>1, <1>2, <1>3, <1>4, <1>5, <1>6, <1>7, <1>8 DEF OwnStep

\* Every step is one of these.
LEMMA Kinds ==
    ASSUME IInv, Next
    PROVE  Quiet \/ \E c \in Copies : Passes(c) \/ OwnStep(c)
  BY Steps, QuietSteps, CheckLaterEffect, Zenon DEF OwnStep

----------------------------------------------------------------------------
\* What a listener takes is the first in its queue; the rest move up.
LEMMA Taken ==
    ASSUME IInv, NEW c \in Copies, NEW k, Takes(c, k)
    PROVE  /\ ~done[c] /\ busy[c] = Idle
           /\ 1 \in Places(c) /\ First(c) = queue[c][1] /\ queue[c][1].kind = k
           /\ First(c).obj \in Bodies
           /\ Places(c) \subseteq Int /\ Places(c)' \subseteq Int
           /\ \A i \in Places(c) : 1 <= i
           /\ \A i \in Places(c)' : i + 1 \in Places(c) /\ queue'[c][i] = queue[c][i + 1] /\ 1 <= i
           /\ \A i \in Places(c) : i # 1 => i - 1 \in Places(c)' /\ queue'[c][i - 1] = queue[c][i]
<1>1. queue[c] \in Seq(Notes) /\ queue[c] # <<>> /\ queue'[c] = Tail(queue[c]) /\ First(c) = queue[c][1]
  BY DEF IInv, TypeOK, AdapterTypeOK, Takes, First
<1>2. /\ Len(queue[c]) \in Nat /\ Len(queue[c]) > 0 /\ queue[c][1] \in Notes
      /\ Len(Tail(queue[c])) = Len(queue[c]) - 1
      /\ \A i \in 1..Len(Tail(queue[c])) : Tail(queue[c])[i] = queue[c][i + 1]
  BY <1>1
<1>3. /\ \A i \in Places(c)' : i + 1 \in Places(c) /\ queue'[c][i] = queue[c][i + 1] /\ 1 <= i
      /\ 1 \in Places(c)
  BY <1>1, <1>2 DEF Places
<1>4. \A i \in Places(c) : i # 1 => i - 1 \in Places(c)' /\ queue'[c][i - 1] = queue[c][i]
  BY <1>1, <1>2 DEF Places
<1> QED BY <1>1, <1>2, <1>3, <1>4 DEF Takes, Places, Notes

\* What is sent comes last.
LEMMA Added ==
    ASSUME IInv, NEW c \in Copies, NEW n, queue'[c] = Append(queue[c], n)
    PROVE  /\ Places(c) \subseteq Int /\ Places(c)' \subseteq Int
           /\ \A i \in Places(c) : i \in Places(c)' /\ queue'[c][i] = queue[c][i]
           /\ End(c) \in Places(c)' /\ queue'[c][End(c)] = n
           /\ \A i \in Places(c) : i < End(c)
           /\ \A i \in Places(c)' : i \in Places(c) \/ i = End(c)
<1>1. queue[c] \in Seq(Notes) /\ Len(queue[c]) \in Nat
  BY DEF IInv, TypeOK, AdapterTypeOK
<1>2. /\ Len(queue'[c]) = Len(queue[c]) + 1 /\ queue'[c][Len(queue[c]) + 1] = n
      /\ \A i \in 1..Len(queue[c]) : queue'[c][i] = queue[c][i]
  BY <1>1
<1>3. /\ Len(queue[c]) + 1 \in Places(c)' /\ \A i \in Places(c) : i < Len(queue[c]) + 1
      /\ \A i \in Places(c)' : i \in Places(c) \/ i = Len(queue[c]) + 1
  BY <1>1, <1>2 DEF Places
<1> QED BY <1>1, <1>2, <1>3 DEF Places, End

\* An empty queue has no places.
LEMMA Emptied ==
    ASSUME NEW c \in Copies, queue[c] = <<>>
    PROVE  Places(c) = {}
  BY DEF Places

\* What is in a queue is well typed.
LEMMA Queued ==
    ASSUME IInv, NEW c \in Copies
    PROVE  /\ Places(c) \subseteq Int
           /\ \A i \in Places(c) : queue[c][i] \in Notes /\ queue[c][i].obj \in Bodies
<1>1. queue[c] \in Seq(Notes)
  BY DEF IInv, TypeOK, AdapterTypeOK
<1>2. \A i \in 1..Len(queue[c]) : queue[c][i] \in Notes
  BY <1>1
<1>3. \A n \in Notes : n.obj \in Bodies
  BY DEF Notes
<1> QED BY <1>1, <1>2, <1>3 DEF Places

\* Bodies have integer versions, and NoObject an earlier one than any version.
LEMMA BodyOrder ==
    /\ NoObject.ver = -1
    /\ \A o \in Bodies : o.ver \in Int /\ o.ver >= -1
    /\ \A v \in Versions : v \in Int /\ v >= 0 /\ Body(v).ver = v /\ Body(v) # NoObject
    /\ \A v \in Versions : Note(Body(v)).kind = "note" /\ Note(Body(v)).obj = Body(v)
  BY ConstantsAssumption DEF NoObject, Bodies, Versions, Body, Note

\* Sameness is an equivalence.
LEMMA Sames ==
    /\ \A a : Same(a, a)
    /\ \A a, b : Same(a, b) => Same(b, a)
    /\ \A a, b, d : Same(a, b) /\ Same(b, d) => Same(a, d)
    /\ \A a, b : gone' = gone => (Same(a, b)' <=> Same(a, b))
  BY DEF Same, Absent

----------------------------------------------------------------------------
\* What each step of a copy does to it; the swap's own part of a copy is swapOf.

swapOf(c) == <<swap[c], inM[c], passed[c], behind[c]>>

\* The reflector stores the next version; its notification is still to be sent.
LEMMA WatchEffect ==
    ASSUME IInv, NEW c \in Copies, Watch(c)
    PROVE  /\ ~stopped[c] /\ pos[c] # -1 /\ out[c] = NoObject /\ pos[c] + 1 \in Versions
           /\ pos'[c] = pos[c] + 1 /\ store'[c] = Body(pos[c] + 1) /\ out'[c] = Body(pos[c] + 1)
           /\ UNCHANGED <<queue[c], busy[c], muted[c], seen[c], suppress[c], done[c], blurred[c]>>
           /\ UNCHANGED swapOf(c) /\ UNCHANGED <<consumer, acted>>
  BY ConstantsAssumption DEF IInv, TypeOK, ObjectTypeOK, Watch, adapterVars, runVars, swapVars, swapOf, Versions

\* The first LIST stores a version and queues its notification, when there is an object.
LEMMA ListEffect ==
    ASSUME IInv, NEW c \in Copies, NEW v \in Versions, List(c, v)
    PROVE  /\ ~stopped[c] /\ pos[c] = -1
           /\ pos'[c] = v /\ store'[c] = Body(v)
           /\ v \in gone => queue'[c] = queue[c]
           /\ v \notin gone => queue'[c] = Append(queue[c], Note(Body(v)))
           /\ UNCHANGED <<out[c], busy[c], muted[c], seen[c], suppress[c], done[c], blurred[c]>>
           /\ UNCHANGED swapOf(c) /\ UNCHANGED <<consumer, acted>>
  BY DEF IInv, TypeOK, ObjectTypeOK, AdapterTypeOK, List, runVars, swapVars, swapOf

\* What was stored last goes into the listener's queue, unless Run has returned.
LEMMA DistributeEffect ==
    ASSUME IInv, NEW c \in Copies, Distribute(c)
    PROVE  /\ out[c] # NoObject /\ out'[c] = NoObject
           /\ done[c] => queue'[c] = queue[c]
           /\ ~done[c] => queue'[c] = Append(queue[c], Note(out[c]))
           /\ UNCHANGED <<pos[c], store[c], busy[c], muted[c], seen[c], suppress[c], done[c], blurred[c]>>
           /\ UNCHANGED swapOf(c) /\ UNCHANGED <<consumer, acted>>
  BY DEF IInv, TypeOK, ObjectTypeOK, AdapterTypeOK, Distribute, Sent, runVars, swapVars, swapOf

\* The end of Run empties the copy.
LEMMA RunReturnsEffect ==
    ASSUME IInv, NEW c \in Copies, RunReturns(c)
    PROVE  /\ stopped[c] /\ busy[c] = Idle /\ done'[c]
           /\ pos'[c] = -1 /\ store'[c] = NoObject /\ out'[c] = NoObject /\ seen'[c] = NoObject
           /\ queue'[c] = <<>> /\ suppress'[c] = Signal("none") /\ muted'[c]
           /\ UNCHANGED busy[c] /\ UNCHANGED swapOf(c) /\ UNCHANGED <<consumer, acted>>
  BY DEF IInv, TypeOK, ObjectTypeOK, AdapterTypeOK, FlagTypeOK, RunReturns, swapVars, swapOf

\* A suppressed notification is seen, and ends the suppression when it is the body M delivered.
LEMMA DeliverSuppressedEffect ==
    ASSUME IInv, NEW c \in Copies, DeliverSuppressed(c)
    PROVE  /\ Takes(c, "note") /\ Suppressing(c)
           /\ seen'[c] = First(c).obj
           /\ Same(suppress[c].obj, First(c).obj) =>
                suppress'[c] = Signal("none") /\ (~blurred'[c] => First(c).obj = suppress[c].obj)
           /\ ~Same(suppress[c].obj, First(c).obj) => suppress'[c] = suppress[c]
           /\ ~blurred'[c] => ~blurred[c]
           /\ UNCHANGED <<pos[c], store[c], out[c], busy[c], muted[c], done[c]>>
           /\ UNCHANGED swapOf(c) /\ UNCHANGED <<consumer, acted>>
  BY DEF IInv, TypeOK, AdapterTypeOK, FlagTypeOK, DeliverSuppressed, Matches, informerVars, runVars,
     swapVars, swapOf

\* A muted notification is only seen.
LEMMA DeliverMutedEffect ==
    ASSUME IInv, NEW c \in Copies, DeliverMuted(c)
    PROVE  /\ Takes(c, "note") /\ ~Suppressing(c) /\ muted[c]
           /\ seen'[c] = First(c).obj
           /\ UNCHANGED <<pos[c], store[c], out[c], busy[c], muted[c], suppress[c], done[c], blurred[c]>>
           /\ UNCHANGED swapOf(c) /\ UNCHANGED <<consumer, acted>>
  BY DEF IInv, TypeOK, AdapterTypeOK, DeliverMuted, informerVars, runVars, swapVars, swapOf

\* A live notification reaches the consumer.
LEMMA DeliverLiveEffect ==
    ASSUME IInv, NEW c \in Copies, DeliverLive(c)
    PROVE  /\ Takes(c, "note") /\ ~Suppressing(c) /\ ~muted[c]
           /\ consumer' = First(c).obj
           /\ busy'[c] = [pc |-> "call", obj |-> First(c).obj]
           /\ busy'[c].pc = "call" /\ busy'[c].obj = First(c).obj
           /\ UNCHANGED <<pos[c], store[c], out[c], muted[c], seen[c], suppress[c], done[c], blurred[c]>>
           /\ UNCHANGED swapOf(c) /\ UNCHANGED acted
  BY DEF IInv, TypeOK, AdapterTypeOK, DeliverLive, informerVars, runVars, swapVars, swapOf

\* The unmute signal takes effect in the listener's order.
LEMMA UnmuteArrivesEffect ==
    ASSUME IInv, NEW c \in Copies, UnmuteArrives(c)
    PROVE  /\ Takes(c, "unmute") /\ ~muted'[c]
           /\ UNCHANGED <<pos[c], store[c], out[c], busy[c], seen[c], suppress[c], done[c], blurred[c]>>
           /\ UNCHANGED swapOf(c) /\ UNCHANGED <<consumer, acted>>
  BY DEF IInv, TypeOK, FlagTypeOK, UnmuteArrives, informerVars, runVars, swapVars, swapOf

\* A delivery of M that the consumer already acted on is skipped.
LEMMA SwapSkippedEffect ==
    ASSUME IInv, NEW c \in Copies, SwapSkipped(c)
    PROVE  /\ Takes(c, "swap") /\ Same(acted, store[c])
           /\ UNCHANGED <<pos[c], store[c], out[c], busy[c], muted[c], seen[c], suppress[c], done[c], blurred[c]>>
           /\ UNCHANGED swapOf(c) /\ UNCHANGED <<consumer, acted>>
  BY DEF SwapSkipped, informerVars, runVars, swapVars, swapOf

\* A delivery of M hands over what the store holds now.
LEMMA SwapDeliverEffect ==
    ASSUME IInv, NEW c \in Copies, SwapDeliver(c)
    PROVE  /\ Takes(c, "swap")
           /\ consumer' = store[c]
           /\ busy'[c] = [pc |-> "swapCall", obj |-> store[c]]
           /\ busy'[c].pc = "swapCall" /\ busy'[c].obj = store[c]
           /\ UNCHANGED <<pos[c], store[c], out[c], muted[c], seen[c], suppress[c], done[c], blurred[c]>>
           /\ UNCHANGED swapOf(c) /\ UNCHANGED acted
  BY DEF IInv, TypeOK, AdapterTypeOK, SwapDeliver, informerVars, runVars, swapVars, swapOf

\* The end of a live call records what was acted on and seen.
LEMMA RecordEffect ==
    ASSUME IInv, NEW c \in Copies, Record(c)
    PROVE  /\ busy[c].pc = "call" /\ busy'[c] = Idle
           /\ acted' = busy[c].obj /\ seen'[c] = busy[c].obj
           /\ UNCHANGED <<pos[c], store[c], out[c], queue[c], muted[c], suppress[c], done[c], blurred[c]>>
           /\ UNCHANGED swapOf(c) /\ UNCHANGED consumer
  BY DEF IInv, TypeOK, AdapterTypeOK, Record, informerVars, runVars, swapVars, swapOf

\* The end of a delivery of M records it and suppresses its own notification, unless already seen.
LEMMA SwapRecordEffect ==
    ASSUME IInv, NEW c \in Copies, SwapRecord(c)
    PROVE  /\ busy[c].pc = "swapCall" /\ busy'[c] = Idle
           /\ acted' = busy[c].obj
           /\ Same(seen[c], busy[c].obj) =>
                suppress'[c] = suppress[c] /\ (~blurred'[c] => seen[c] = busy[c].obj)
           /\ ~Same(seen[c], busy[c].obj) => suppress'[c] = Note(busy[c].obj)
           /\ ~blurred'[c] => ~blurred[c]
           /\ UNCHANGED <<pos[c], store[c], out[c], queue[c], muted[c], seen[c], done[c]>>
           /\ UNCHANGED swapOf(c) /\ UNCHANGED consumer
  BY DEF IInv, TypeOK, AdapterTypeOK, FlagTypeOK, SwapRecord, SuppressedAfter, informerVars, runVars,
     swapVars, swapOf

\* Step 4 sends the unmute signal and notes a store behind the consumer.
LEMMA UnmuteEffect ==
    ASSUME IInv, NEW c \in Copies, Unmute(c)
    PROVE  /\ swap[c] = "unmute" /\ swap'[c] = "compute"
           /\ done[c] => queue'[c] = queue[c]
           /\ ~done[c] => queue'[c] = Append(queue[c], Signal("unmute"))
           /\ ~behind'[c] => done[c] \/ ~(store[c].ver < consumer.ver)
           /\ UNCHANGED <<pos[c], store[c], out[c], busy[c], muted[c], seen[c], suppress[c], done[c], blurred[c]>>
           /\ UNCHANGED <<inM[c], passed[c]>> /\ UNCHANGED <<consumer, acted>>
  BY DEF IInv, TypeOK, AdapterTypeOK, FlagTypeOK, BuildTypeOK, Unmute, At, Sent, informerVars, runVars

\* Step 5 compares the store with what was acted on.
LEMMA ComputeMEffect ==
    ASSUME IInv, NEW c \in Copies, ComputeM(c)
    PROVE  /\ swap[c] = "compute" /\ swap'[c] = "deliver"
           /\ inM'[c] <=> ~Same(store[c], acted)
           /\ UNCHANGED copyState(c) /\ UNCHANGED <<passed[c], behind[c]>> /\ UNCHANGED <<consumer, acted>>
  BY DEF IInv, TypeOK, FlagTypeOK, BuildTypeOK, ComputeM, Differs, At, copyState, informerVars, adapterVars, runVars

\* Step 6 sends the delivery of M.
LEMMA DeliverMEffect ==
    ASSUME IInv, NEW c \in Copies, DeliverM(c)
    PROVE  /\ swap[c] = "deliver" /\ swap'[c] = "off" /\ ~inM'[c]
           /\ done[c] \/ ~inM[c] => queue'[c] = queue[c]
           /\ ~done[c] /\ inM[c] => queue'[c] = Append(queue[c], Signal("swap"))
           /\ UNCHANGED <<pos[c], store[c], out[c], busy[c], muted[c], seen[c], suppress[c], done[c], blurred[c]>>
           /\ UNCHANGED <<passed[c], behind[c]>> /\ UNCHANGED <<consumer, acted>>
  BY DEF IInv, TypeOK, AdapterTypeOK, FlagTypeOK, BuildTypeOK, DeliverM, At, Sent, informerVars, runVars

----------------------------------------------------------------------------
\* Only the end of a Run ends it; stop is never undone.
LEMMA DoneStep ==
    ASSUME IInv, DoneStopped, Next
    PROVE  DoneStopped'
<1> USE DEF IInv, TypeOK, FlagTypeOK, BuildTypeOK
<1>1. \A d \in Copies : stopped[d] => stopped'[d]
  <2>1. ASSUME RequestDivergence \/ RequestSchema \/ CleanPass \/ Teardown \/ \E c \in Copies : ListRefused(c)
        PROVE  \A d \in Copies : stopped[d] => stopped'[d]
    BY <2>1 DEF RequestDivergence, RequestSchema, RequestBuild, CleanPass, Teardown, ListRefused, Abort
  <2>2. ASSUME NEW c \in Copies, CloseRetiring(c) PROVE \A d \in Copies : stopped[d] => stopped'[d]
    BY <2>2 DEF CloseRetiring
  <2>3. ASSUME NEW c \in Copies, OwnStep(c) \/ GiveUp(c) \/ Install(c) \/ CheckLater(c) PROVE stopped' = stopped
    BY <2>3 DEF OwnStep, Watch, Distribute, RunReturns, List, DeliverSuppressed, DeliverMuted,
       DeliverLive, UnmuteArrives, SwapSkipped, SwapDeliver, Record, SwapRecord, Unmute, ComputeM,
       DeliverM, GiveUp, Install, CheckLater, runVars
  <2>4. ASSUME Write \/ CleanPassEnds PROVE stopped' = stopped
    BY <2>4 DEF Write, CleanPassEnds, runVars
  <2> QED BY <2>1, <2>2, <2>3, <2>4, Steps DEF OwnStep
<1>3. ASSUME Quiet \/ \E c \in Copies : Passes(c) PROVE DoneStopped'
  <2>1. \A d \in Copies : busy'[d] = busy[d] /\ done'[d] = done[d]
    BY <1>3 DEF Quiet, Passes, copyState
  <2> QED BY <1>1, <2>1 DEF DoneStopped
<1>4. ASSUME NEW c \in Copies, OwnStep(c), done'[c] => stopped[c] /\ busy'[c] = Idle PROVE DoneStopped'
  <2>1. \A d \in Copies : d # c => busy'[d] = busy[d] /\ done'[d] = done[d]
    BY <1>4, Elsewhere DEF Alone, copyState
  <2> QED BY <1>1, <1>4, <2>1 DEF DoneStopped
<1>5. ASSUME NEW c \in Copies, OwnStep(c) PROVE done'[c] => stopped[c] /\ busy'[c] = Idle
  <2>1. ASSUME RunReturns(c) PROVE stopped[c] /\ busy'[c] = Idle
    BY <2>1, RunReturnsEffect
  <2>2. ASSUME DeliverLive(c) \/ SwapDeliver(c) PROVE ~done'[c]
    BY <2>2, DeliverLiveEffect, SwapDeliverEffect, Taken
  <2>3. ASSUME Record(c) \/ SwapRecord(c) PROVE done'[c] = done[c] /\ busy'[c] = Idle
    BY <2>3, RecordEffect, SwapRecordEffect
  <2>4. ASSUME \/ Watch(c) \/ Distribute(c) \/ (\E v \in Versions : List(c, v))
               \/ DeliverSuppressed(c) \/ DeliverMuted(c) \/ UnmuteArrives(c) \/ SwapSkipped(c)
               \/ Unmute(c) \/ ComputeM(c) \/ DeliverM(c)
        PROVE  done' = done /\ busy' = busy
    BY <2>4 DEF Watch, Distribute, List, DeliverSuppressed, DeliverMuted, UnmuteArrives, SwapSkipped,
       Unmute, ComputeM, DeliverM, adapterVars, runVars
  <2> QED BY <1>5, <2>1, <2>2, <2>3, <2>4 DEF OwnStep, DoneStopped
<1> QED BY <1>3, <1>4, <1>5, Kinds

\* The live copy is stopped only by a teardown, which leaves none, and by the
\* install of another, which takes its place.
LEMMA LiveStep ==
    ASSUME IInv, DoneStopped, LiveRuns, Next
    PROVE  LiveRuns'
<1> USE CopyFacts DEF IInv, TypeOK, FlagTypeOK, BuildTypeOK
<1>1. ASSUME NEW c \in Copies, OwnStep(c) PROVE UNCHANGED <<live, waits, stopped>>
  BY <1>1 DEF OwnStep, Watch, Distribute, RunReturns, List, DeliverSuppressed, DeliverMuted,
     DeliverLive, UnmuteArrives, SwapSkipped, SwapDeliver, Record, SwapRecord, Unmute, ComputeM,
     DeliverM, runVars, buildVars, swapVars
<1>2. ASSUME NEW c \in Copies, OwnStep(c), ~RunReturns(c), ~DeliverM(c), ~ComputeM(c), ~Unmute(c) PROVE LiveRuns'
  <2>1. UNCHANGED <<done, passed, swap>>
    BY <1>2 DEF OwnStep, Watch, Distribute, List, DeliverSuppressed, DeliverMuted,
     DeliverLive, UnmuteArrives, SwapSkipped, SwapDeliver, Record, SwapRecord, runVars, swapVars
  <2> QED BY <1>1, <1>2, <2>1 DEF LiveRuns, Acting
<1>3. ASSUME NEW c \in Copies, RunReturns(c) PROVE LiveRuns'
  <2>1. UNCHANGED <<passed, swap, live, waits, stopped>> /\ stopped[c] /\ done' = [done EXCEPT ![c] = TRUE]
    BY <1>3 DEF RunReturns, swapVars, buildVars
  <2> QED BY <2>1 DEF LiveRuns, Acting
<1>4. ASSUME NEW c \in Copies, DeliverM(c) \/ ComputeM(c) \/ Unmute(c) PROVE LiveRuns'
  <2>1. UNCHANGED <<passed, done, live, waits, stopped>> /\ swap[c] \in Delivering /\ \A d \in Copies : d # c => swap'[d] = swap[d]
    BY <1>4 DEF DeliverM, ComputeM, Unmute, At, runVars, buildVars, Delivering
  <2>2. passed[c]
    BY <2>1 DEF PhaseInv, Phases
  <2> QED BY <2>1, <2>2 DEF LiveRuns, Acting
<1>5. ASSUME Write \/ CleanPassEnds PROVE LiveRuns'
  BY <1>5 DEF Write, CleanPassEnds, runVars, swapVars, buildVars, LiveRuns, Acting
<1>6. ASSUME Teardown PROVE LiveRuns'
  BY <1>6 DEF Teardown, LiveRuns
<1>7. ASSUME build # NoBuild PROVE live # build.inst
  BY <1>7 DEF PhaseInv, BuildOpen, Phases
<1>8. ASSUME NEW r, RequestBuild(r) PROVE LiveRuns'
  <2>1. UNCHANGED <<done, waits, passed, live>> /\ live \in Copies
    BY <1>8 DEF RequestBuild
  <2>2. ~stopped'[live]
    BY <1>7, <1>8, <2>1 DEF RequestBuild, LiveRuns
  <2>3. swap'[live] = swap[live]
    <3>1. live # built
      BY <2>1 DEF PhaseInv, Phases
    <3> QED BY <1>8, <2>1, <3>1 DEF RequestBuild, Construct
  <2> QED BY <2>1, <2>2, <2>3 DEF LiveRuns, Acting
<1>9. ASSUME Abort, build # NoBuild, UNCHANGED <<done, waits, passed, live, swap>> PROVE LiveRuns'
  <2>1. live # NoCopy => stopped'[live] = stopped[live]
    BY <1>7, <1>9 DEF Abort
  <2> QED BY <1>9, <2>1 DEF LiveRuns, Acting
<1>10. ASSUME CleanPass PROVE LiveRuns'
  <2>1. CASE Abort
    BY <1>9, <1>10, <2>1 DEF CleanPass, swapVars
  <2>2. CASE ~Abort
    BY <1>10, <2>2 DEF CleanPass, swapVars, LiveRuns, Acting
  <2> QED BY <2>1, <2>2
<1>11. ASSUME NEW c \in Copies, ListRefused(c) PROVE LiveRuns'
  BY <1>9, <1>11 DEF ListRefused, swapVars, NoBuild
<1>12. ASSUME NEW c \in Copies, GiveUp(c) PROVE LiveRuns'
  <2>1. UNCHANGED <<stopped, done, waits, passed, live>> /\ swap[c] = "sync" /\ \A d \in Copies : d # c => swap'[d] = swap[d]
    BY <1>12 DEF GiveUp, At, runVars, buildVars
  <2>2. live # c
    BY <2>1 DEF PhaseInv, Phases
  <2> QED BY <2>1, <2>2 DEF LiveRuns, Acting
<1>13. ASSUME NEW c \in Copies, Install(c) PROVE LiveRuns'
  <2>1. /\ UNCHANGED <<stopped, done>> /\ ~stopped[c] /\ swap[c] = "sync" /\ swap'[c] = "close"
        /\ live' = c /\ waits' = [waits EXCEPT ![c] = retiring \cup {live}]
    BY <1>13 DEF Install, At, Retired, runVars
  <2>2. live # c /\ c \notin retiring /\ \A d \in Copies : c \notin waits[d]
    BY <2>1 DEF PhaseInv, Phases
  <2> QED BY <2>1, <2>2 DEF LiveRuns, DoneStopped
<1>14. ASSUME NEW c \in Copies, CloseRetiring(c) PROVE LiveRuns'
  <2>1. /\ UNCHANGED <<done, waits, passed, live>> /\ swap'[c] = "wait" /\ \A d \in Copies : d # c => swap'[d] = swap[d]
        /\ stopped' = [r \in Copies |-> stopped[r] \/ r \in waits[c]]
    BY <1>14 DEF CloseRetiring, At, buildVars
  <2> QED BY <2>1 DEF LiveRuns, Acting
<1>15. ASSUME NEW c \in Copies, CheckLater(c) PROVE LiveRuns'
  <2>1. /\ UNCHANGED <<stopped, done, live>> /\ waits' = [waits EXCEPT ![c] = {}]
        /\ \A d \in Copies : d # c => swap'[d] = swap[d] /\ passed'[d] = passed[d]
        /\ live = c => swap'[c] = "unmute"
    BY <1>15 DEF CheckLater, At, runVars
  <2> QED BY <2>1 DEF LiveRuns, Acting
<1> QED BY <1>2, <1>3, <1>4, <1>5, <1>6, <1>8, <1>10, <1>11, <1>12, <1>13, <1>14, <1>15, Steps
        DEF OwnStep, RequestDivergence, RequestSchema

----------------------------------------------------------------------------
\* What is known of a copy from its own state stays known while that is unchanged.
LEMMA CopyKept ==
    ASSUME NEW c \in Copies, gone' = gone, UNCHANGED copyState(c)
    PROVE  /\ Known(c) => Known(c)'
           /\ TailIsStore(c) => TailIsStore(c)'
           /\ InOrder(c) => InOrder(c)'
  BY DEF copyState, Known, TailIsStore, InOrder, Places, IsNote, Latest, Same, Absent

\* A step of a copy that takes a notification, or a signal, and one that sends.
LEMMA TakenNotes ==
    ASSUME IInv, NEW c \in Copies, NEW k, Takes(c, k)
    PROVE  /\ IsNote(c, 1) <=> k = "note"
           /\ \A i \in Places(c)' : IsNote(c, i)' <=> IsNote(c, i + 1)
  BY Taken DEF IsNote

\* What a copy knows of the object before its LIST and after the end of its Run.
LEMMA KnownStep ==
    ASSUME IInv, DoneStopped, \A c \in Copies : Known(c), Next
    PROVE  \A c \in Copies : Known(c)'
<1>1. ASSUME NEW d \in Copies, Quiet \/ (\E c \in Copies : Passes(c) \/ (c # d /\ Alone(c))) PROVE Known(d)'
  BY <1>1, CopyKept DEF Quiet, Passes, Alone
<1>2. ASSUME NEW c \in Copies, OwnStep(c) PROVE Known(c)'
  <2>0. /\ Known(c) /\ pos[c] \in Versions \cup {-1} /\ Idle.pc = "idle" /\ (done[c] => stopped[c])
        /\ \A v \in Versions : v >= 0
    BY BodyFacts, BodyOrder DEF IInv, TypeOK, ObjectTypeOK, DoneStopped
  <2>1. CASE Watch(c)
    <3>1. /\ pos[c] # -1 /\ ~done'[c] /\ pos[c] + 1 \in Versions
          /\ pos'[c] = pos[c] + 1 /\ store'[c] = Body(pos[c] + 1)
      BY <2>0, <2>1, WatchEffect
    <3>2. pos'[c] # -1 /\ store'[c].ver = pos'[c]
      BY <3>1, BodyOrder
    <3> QED BY <3>1, <3>2 DEF Known
  <2>2. ASSUME NEW v \in Versions, List(c, v) PROVE Known(c)'
    <3>1. ~done'[c] /\ pos'[c] = v /\ store'[c] = Body(v)
      BY <2>0, <2>2, ListEffect
    <3>2. pos'[c] # -1 /\ store'[c].ver = pos'[c]
      BY <3>1, BodyOrder
    <3> QED BY <3>1, <3>2 DEF Known
  <2>3. CASE Distribute(c)
    BY <2>0, <2>3, DistributeEffect DEF Known
  <2>4. CASE RunReturns(c)
    <3>1. Places(c)' = {}
      BY <2>4, RunReturnsEffect DEF Places
    <3>2. /\ pos'[c] = -1 /\ store'[c] = NoObject /\ out'[c] = NoObject /\ seen'[c] = NoObject
          /\ queue'[c] = <<>> /\ busy'[c] = Idle
      BY <2>4, RunReturnsEffect
    <3> QED BY <2>0, <3>1, <3>2 DEF Known
  <2>5. CASE DeliverSuppressed(c) \/ DeliverMuted(c)
    <3>1. /\ Takes(c, "note") /\ UNCHANGED <<pos[c], store[c], out[c], busy[c], done[c]>>
      BY <2>5, DeliverSuppressedEffect, DeliverMutedEffect
    <3>2. ~done[c] /\ pos[c] # -1
      BY <2>0, <3>1, Taken, TakenNotes DEF Known
    <3> QED BY <2>0, <3>1, <3>2 DEF Known
  <2>6. CASE DeliverLive(c)
    <3>2. ~done[c] /\ pos[c] # -1
      BY <2>0, <2>6, DeliverLiveEffect, Taken, TakenNotes DEF Known
    <3> QED BY <2>0, <2>6, <3>2, DeliverLiveEffect DEF Known
  <2>7. CASE UnmuteArrives(c) \/ SwapSkipped(c) \/ SwapDeliver(c)
    <3>1. PICK k : Takes(c, k)
      BY <2>7, UnmuteArrivesEffect, SwapSkippedEffect, SwapDeliverEffect
    <3>2. UNCHANGED <<pos[c], store[c], out[c], seen[c], done[c]>> /\ (busy'[c] = busy[c] \/ busy'[c].pc = "swapCall")
      BY <2>7, UnmuteArrivesEffect, SwapSkippedEffect, SwapDeliverEffect
    <3>3. ~done[c] /\ \A i \in Places(c)' : i + 1 \in Places(c) /\ (IsNote(c, i)' <=> IsNote(c, i + 1))
      BY <3>1, Taken, TakenNotes
    <3> QED BY <2>0, <3>2, <3>3 DEF Known
  <2>8. CASE Record(c)
    <3>1. pos[c] # -1
      BY <2>0, <2>8, RecordEffect DEF Known
    <3> QED BY <2>0, <2>8, <3>1, RecordEffect DEF Known
  <2>9. CASE SwapRecord(c)
    <3>1. UNCHANGED <<pos[c], store[c], out[c], queue[c], seen[c], done[c]>> /\ busy'[c] = Idle
      BY <2>9, SwapRecordEffect
    <3> QED BY <2>0, <3>1 DEF Known, Places, IsNote
  <2>10. CASE ComputeM(c)
    BY <2>0, <2>10, ComputeMEffect, CopyKept, Elsewhere DEF OwnStep, Alone
  <2>11. ASSUME NEW k \in {"unmute", "swap"}, queue'[c] = queue[c] \/ (~done[c] /\ queue'[c] = Append(queue[c], Signal(k))),
                UNCHANGED <<pos[c], store[c], out[c], busy[c], seen[c], done[c]>>
         PROVE  Known(c)'
    <3>1. CASE queue'[c] = queue[c]
      BY <2>0, <2>11, <3>1 DEF Known, Places, IsNote
    <3>2. CASE queue'[c] # queue[c]
      <4>1. \A i \in Places(c)' : IsNote(c, i)' => i \in Places(c) /\ IsNote(c, i)
        <5>1. Signal(k).kind # "note"
          BY BodyFacts
        <5>2. queue'[c] = Append(queue[c], Signal(k))
          BY <2>11, <3>2
        <5>3. /\ \A i \in Places(c) : queue'[c][i] = queue[c][i]
              /\ \A i \in Places(c)' : i \in Places(c) \/ queue'[c][i] = Signal(k)
          BY <5>2, Added
        <5> QED BY <5>1, <5>3 DEF IsNote
      <4> QED BY <2>0, <2>11, <3>2, <4>1 DEF Known
    <3> QED BY <3>1, <3>2
  <2>12. CASE Unmute(c)
    BY <2>11, <2>12, UnmuteEffect
  <2>13. CASE DeliverM(c)
    BY <2>11, <2>13, DeliverMEffect
  <2> QED BY <1>2, <2>1, <2>2, <2>3, <2>4, <2>5, <2>6, <2>7, <2>8, <2>9, <2>10, <2>12, <2>13 DEF OwnStep
<1> QED BY <1>1, <1>2, Kinds, Elsewhere

\* A copy installs when it has listed.
LEMMA ListedStep ==
    ASSUME IInv, \A c \in Copies : Listed(c), Next
    PROVE  \A c \in Copies : Listed(c)'
<1>1. ASSUME NEW d \in Copies, Quiet PROVE Listed(d)'
  BY <1>1 DEF Quiet, Listed, copyState, swapState, Acting
<1>2. ASSUME NEW d \in Copies, NEW c \in Copies, Passes(c) PROVE Listed(d)'
  BY <1>2 DEF Passes, Listed, copyState, Acting
<1>3. ASSUME NEW d \in Copies, NEW c \in Copies, c # d, Alone(c) PROVE Listed(d)'
  BY <1>3 DEF Alone, Listed, copyState, swapState, Acting
<1>4. ASSUME NEW c \in Copies, OwnStep(c) PROVE Listed(c)'
  <2>1. pos[c] \in Versions \cup {-1} /\ \A v \in Versions : v >= 0 /\ v # -1
    BY BodyOrder DEF IInv, TypeOK, ObjectTypeOK
  <2>2. CASE Watch(c) \/ (\E v \in Versions : List(c, v)) \/ RunReturns(c)
    BY <2>1, <2>2, WatchEffect, ListEffect, RunReturnsEffect DEF Listed
  <2>3. CASE Unmute(c) \/ ComputeM(c) \/ DeliverM(c)
    BY <2>3, UnmuteEffect, ComputeMEffect, DeliverMEffect DEF Listed, Acting, copyState
  <2>4. CASE \/ Distribute(c) \/ DeliverSuppressed(c) \/ DeliverMuted(c) \/ DeliverLive(c) \/ UnmuteArrives(c)
             \/ SwapSkipped(c) \/ SwapDeliver(c) \/ Record(c) \/ SwapRecord(c)
    <3>1. UNCHANGED <<pos[c], done[c], swap[c], passed[c]>>
      BY <2>4 DEF Distribute, DeliverSuppressed, DeliverMuted, DeliverLive, UnmuteArrives,
         SwapSkipped, SwapDeliver, Record, SwapRecord, informerVars, runVars, swapVars
    <3> QED BY <3>1 DEF Listed, Acting
  <2> QED BY <1>4, <2>2, <2>3, <2>4 DEF OwnStep
<1> QED BY <1>1, <1>2, <1>3, <1>4, Kinds, Elsewhere

----------------------------------------------------------------------------
\* What the listener takes is what it was last told of.
LEMMA OrderTaken ==
    ASSUME IInv, NEW c \in Copies, NEW k, Takes(c, k), TailIsStore(c), InOrder(c), gone' = gone,
           UNCHANGED <<store[c], out[c]>>,
           Latest(c)' = IF k = "note" THEN First(c).obj ELSE Latest(c)
    PROVE  TailIsStore(c)' /\ InOrder(c)'
<1>1. /\ 1 \in Places(c) /\ First(c) = queue[c][1] /\ (IsNote(c, 1) <=> k = "note")
      /\ Places(c) \subseteq Int /\ Places(c)' \subseteq Int /\ \A i \in Places(c) : 1 <= i
      /\ \A i \in Places(c)' : /\ i + 1 \in Places(c) /\ queue'[c][i] = queue[c][i + 1] /\ 1 <= i
                               /\ IsNote(c, i)' <=> IsNote(c, i + 1)
      /\ \A i \in Places(c) : i # 1 => i - 1 \in Places(c)' /\ queue'[c][i - 1] = queue[c][i]
  BY Taken, TakenNotes
<1>2. \A i \in Places(c) : queue[c][i].obj.ver \in Int
  BY Queued, BodyOrder
<1>3. store[c].ver \in Int /\ out[c].ver \in Int
  BY BodyOrder DEF IInv, TypeOK, ObjectTypeOK
<1>4. TailIsStore(c)'
  <2>1. CASE out[c] # NoObject
    BY <2>1 DEF TailIsStore
  <2>2. CASE out[c] = NoObject
    <3>1. CASE (\A i \in Places(c) : ~IsNote(c, i)) /\ Same(Latest(c), store[c])
      <4>1. (\A i \in Places(c)' : ~IsNote(c, i)') /\ Latest(c)' = Latest(c)
        BY <1>1, <3>1
      <4>2. Same(Latest(c), store[c])'
        BY <3>1, <4>1 DEF Same, Absent
      <4> QED BY <2>2, <4>1, <4>2 DEF TailIsStore
    <3>2. ASSUME NEW i \in Places(c), IsNote(c, i), queue[c][i].obj = store[c],
                 \A j \in Places(c) : i < j => ~IsNote(c, j)
          PROVE  TailIsStore(c)'
      <4>1. CASE i = 1
        <5>1. \A j \in Places(c)' : ~IsNote(c, j)'
          BY <1>1, <3>2, <4>1
        <5>2. Latest(c)' = store'[c]
          BY <1>1, <3>2, <4>1
        <5>3. Same(Latest(c), store[c])'
          BY <5>2 DEF Same
        <5> QED BY <2>2, <5>1, <5>3 DEF TailIsStore
      <4>2. CASE i # 1
        <5>1. i - 1 \in Places(c)' /\ queue'[c][i - 1] = queue[c][i] /\ i \in Int
          BY <1>1, <4>2
        <5>2. IsNote(c, i - 1)'
          BY <3>2, <5>1 DEF IsNote
        <5>3. \A j \in Places(c)' : i - 1 < j => ~IsNote(c, j)'
          BY <1>1, <3>2, <5>1
        <5> QED BY <2>2, <3>2, <5>1, <5>2, <5>3 DEF TailIsStore
      <4> QED BY <4>1, <4>2
    <3> QED BY <2>2, <3>1, <3>2 DEF TailIsStore
  <2> QED BY <2>1, <2>2
<1>5. InOrder(c)'
  <2>1. Latest(c)'.ver \in Int /\ Latest(c)'.ver <= store'[c].ver
    BY <1>1, <1>2, <1>3, BodyOrder DEF InOrder, IInv, TypeOK, AdapterTypeOK, Latest
  <2>2. ASSUME NEW i \in Places(c)', IsNote(c, i)'
        PROVE  /\ Latest(c)'.ver < queue'[c][i].obj.ver /\ queue'[c][i].obj.ver <= store'[c].ver
               /\ \A j \in Places(c)' : i < j /\ IsNote(c, j)' => queue'[c][i].obj.ver < queue'[c][j].obj.ver
               /\ out[c] # NoObject => queue'[c][i].obj.ver < out[c].ver
    <3>1. i + 1 \in Places(c) /\ IsNote(c, i + 1) /\ queue'[c][i] = queue[c][i + 1] /\ 1 < i + 1
      BY <1>1, <2>2
    <3>2. Latest(c)'.ver < queue'[c][i].obj.ver
      BY <1>1, <3>1 DEF InOrder
    <3>3. \A j \in Places(c)' : i < j /\ IsNote(c, j)' => queue'[c][i].obj.ver < queue'[c][j].obj.ver
      BY <1>1, <3>1 DEF InOrder
    <3> QED BY <3>1, <3>2, <3>3 DEF InOrder
  <2>3. out[c] # NoObject => Latest(c)'.ver < out[c].ver
    BY <1>1 DEF InOrder
  <2> QED BY <2>1, <2>2, <2>3 DEF InOrder
<1> QED BY <1>4, <1>5

\* What is sent to the listener comes last; a signal is no notification.
LEMMA OrderSent ==
    ASSUME IInv, NEW c \in Copies, NEW n \in Notes, TailIsStore(c), InOrder(c), gone' = gone,
           queue'[c] = Append(queue[c], n),
           \/ n.kind # "note" /\ UNCHANGED <<store[c], out[c]>>
           \/ /\ n.kind = "note" /\ out'[c] = NoObject /\ n.obj = store'[c] /\ store'[c].ver \in Int
              /\ Latest(c).ver < n.obj.ver
              /\ \A i \in Places(c) : IsNote(c, i) => queue[c][i].obj.ver < n.obj.ver,
           Latest(c)' = Latest(c)
    PROVE  TailIsStore(c)' /\ InOrder(c)'
<1>0. PICK l : l = End(c)
  OBVIOUS
<1>a. l \in Places(c)' /\ queue'[c][l] = n
  BY <1>0, Added
<1>b. Places(c) \subseteq Int /\ Places(c)' \subseteq Int
  BY Added
<1>c. \A i \in Places(c) : i < l /\ i \in Places(c)' /\ queue'[c][i] = queue[c][i]
  BY <1>0, Added
<1>d. \A i \in Places(c)' : i \in Places(c) \/ i = l
  BY <1>0, Added
<1>e. l \notin Places(c)
  BY <1>a, <1>b, <1>c
<1>1. /\ l \in Places(c)' /\ queue'[c][l] = n /\ l \notin Places(c)
      /\ Places(c) \subseteq Int /\ Places(c)' \subseteq Int
      /\ \A i \in Places(c) : i < l /\ i \in Places(c)' /\ queue'[c][i] = queue[c][i]
      /\ \A i \in Places(c)' : i \in Places(c) \/ i = l
  BY <1>a, <1>b, <1>c, <1>d, <1>e
<1>2. \A i \in Places(c) : IsNote(c, i)' <=> IsNote(c, i)
  BY <1>1 DEF IsNote
<1>3. IsNote(c, l)' <=> n.kind = "note"
  BY <1>1 DEF IsNote
<1>4. /\ \A i \in Places(c) : queue[c][i].obj.ver \in Int
      /\ store[c].ver \in Int /\ out[c].ver \in Int /\ Latest(c).ver \in Int
  <2>1. \A i \in Places(c) : queue[c][i].obj.ver \in Int
    BY Queued, BodyOrder
  <2>2. store[c] \in Bodies /\ out[c] \in Bodies /\ Latest(c) \in Bodies
    BY DEF IInv, TypeOK, ObjectTypeOK, AdapterTypeOK, Latest
  <2> QED BY <2>1, <2>2, BodyOrder
<1>5. CASE n.kind # "note" /\ UNCHANGED <<store[c], out[c]>>
  <2>1. \A i \in Places(c)' : IsNote(c, i)' => i \in Places(c) /\ IsNote(c, i)
    BY <1>1, <1>2, <1>3, <1>5
  <2>2. TailIsStore(c)'
    <3>1. CASE out[c] # NoObject
      BY <1>5, <3>1 DEF TailIsStore
    <3>2. CASE out[c] = NoObject /\ (\A i \in Places(c) : ~IsNote(c, i)) /\ Same(Latest(c), store[c])
      <4>1. Same(Latest(c), store[c])'
        BY <1>5, <3>2 DEF Same, Absent
      <4> QED BY <1>5, <2>1, <3>2, <4>1 DEF TailIsStore
    <3>3. ASSUME out[c] = NoObject, NEW i \in Places(c), IsNote(c, i), queue[c][i].obj = store[c],
                 \A j \in Places(c) : i < j => ~IsNote(c, j)
          PROVE  TailIsStore(c)'
      <4>1. i \in Places(c)' /\ IsNote(c, i)' /\ queue'[c][i].obj = store'[c]
        BY <1>1, <1>2, <1>5, <3>3
      <4>2. \A j \in Places(c)' : i < j => ~IsNote(c, j)'
        BY <2>1, <3>3
      <4> QED BY <1>5, <3>3, <4>1, <4>2 DEF TailIsStore
    <3> QED BY <3>1, <3>2, <3>3 DEF TailIsStore
  <2>3. InOrder(c)'
    BY <1>1, <1>5, <2>1 DEF InOrder
  <2> QED BY <2>2, <2>3
<1>6. CASE /\ n.kind = "note" /\ out'[c] = NoObject /\ n.obj = store'[c] /\ store'[c].ver \in Int
           /\ Latest(c).ver < n.obj.ver
           /\ \A i \in Places(c) : IsNote(c, i) => queue[c][i].obj.ver < n.obj.ver
  <2>1. \A j \in Places(c)' : ~(l < j)
    BY <1>1
  <2>2. TailIsStore(c)'
    BY <1>1, <1>3, <1>6, <2>1 DEF TailIsStore
  <2>3. ASSUME NEW i \in Places(c)', IsNote(c, i)'
        PROVE  /\ Latest(c)'.ver < queue'[c][i].obj.ver /\ queue'[c][i].obj.ver <= store'[c].ver
               /\ \A j \in Places(c)' : i < j /\ IsNote(c, j)' => queue'[c][i].obj.ver < queue'[c][j].obj.ver
    <3>1. CASE i = l
      <4>1. queue'[c][i].obj = n.obj /\ n.obj.ver \in Int /\ Latest(c)'.ver < n.obj.ver
        BY <1>1, <1>6, <3>1
      <4> QED BY <1>6, <2>1, <3>1, <4>1
    <3>2. CASE i # l
      <4>1. i \in Places(c) /\ IsNote(c, i) /\ queue'[c][i] = queue[c][i]
        BY <1>1, <1>2, <2>3, <3>2
      <4>2. Latest(c)'.ver < queue'[c][i].obj.ver /\ queue'[c][i].obj.ver <= store'[c].ver
        BY <1>4, <1>6, <4>1 DEF InOrder
      <4>3. \A j \in Places(c) : i < j /\ IsNote(c, j) => queue[c][i].obj.ver < queue[c][j].obj.ver
        BY <4>1 DEF InOrder
      <4> QED BY <1>1, <1>2, <1>6, <4>1, <4>2, <4>3
    <3> QED BY <3>1, <3>2
  <2>4. Latest(c)'.ver <= store'[c].ver
    BY <1>4, <1>6
  <2>5. out'[c] = NoObject
    BY <1>6
  <2> QED BY <2>2, <2>3, <2>4, <2>5 DEF InOrder
<1> QED BY <1>5, <1>6

\* The listener is told of every body in the store's order, and of the last one.
LEMMA OrderStep ==
    ASSUME IInv, DoneStopped, \A c \in Copies : Known(c) /\ TailIsStore(c) /\ InOrder(c), Next
    PROVE  \A c \in Copies : TailIsStore(c)' /\ InOrder(c)'
<1>1. ASSUME NEW d \in Copies, Quiet \/ (\E c \in Copies : Passes(c) \/ (c # d /\ Alone(c)))
      PROVE  TailIsStore(d)' /\ InOrder(d)'
  BY <1>1, CopyKept DEF Quiet, Passes, Alone
<1>2. ASSUME NEW c \in Copies, OwnStep(c) PROVE TailIsStore(c)' /\ InOrder(c)'
  <2>0. Known(c) /\ TailIsStore(c) /\ InOrder(c) /\ gone' = gone /\ (done[c] => stopped[c])
    BY <1>2, Elsewhere DEF Alone, DoneStopped
  <2>a. Idle.pc = "idle" /\ NoObject.ver = -1 /\ NoObject \in Bodies
    BY BodyFacts, BodyOrder
  <2>b. store[c].ver \in Int /\ seen[c].ver \in Int /\ Latest(c).ver \in Int
    <3>1. store[c] \in Bodies /\ seen[c] \in Bodies /\ Latest(c) \in Bodies
      BY DEF IInv, TypeOK, ObjectTypeOK, AdapterTypeOK, Latest
    <3> QED BY <3>1, BodyOrder
  <2>1. CASE Watch(c)
    <3>1. /\ pos[c] # -1 /\ pos[c] + 1 \in Versions /\ store'[c] = Body(pos[c] + 1)
          /\ out'[c] = Body(pos[c] + 1)
          /\ UNCHANGED <<queue[c], busy[c], seen[c]>>
      BY <2>1, WatchEffect
    <3>2. out'[c] = store'[c] /\ store'[c].ver = pos[c] + 1 /\ store[c].ver = pos[c] /\ out'[c] # NoObject
      BY <2>0, <3>1, BodyOrder DEF Known
    <3>3. Places(c)' = Places(c) /\ Latest(c)' = Latest(c) /\ \A i \in Places(c) : IsNote(c, i)' <=> IsNote(c, i)
      BY <3>1 DEF Places, Latest, IsNote
    <3>4. \A i \in Places(c) : queue[c][i].obj.ver \in Int
      BY Queued, BodyOrder
    <3>5. store[c].ver < store'[c].ver /\ store'[c].ver \in Int
      BY <2>b, <3>2
    <3>6. TailIsStore(c)'
      BY <3>2 DEF TailIsStore
    <3>7. Latest(c)'.ver < store'[c].ver
      BY <2>0, <2>b, <3>3, <3>5 DEF InOrder
    <3>8. \A i \in Places(c) : IsNote(c, i) => queue[c][i].obj.ver < store'[c].ver
      BY <2>0, <2>b, <3>4, <3>5 DEF InOrder
    <3>10. \A i \in Places(c) : IsNote(c, i) =>
             /\ Latest(c).ver < queue[c][i].obj.ver
             /\ \A j \in Places(c) : i < j /\ IsNote(c, j) => queue[c][i].obj.ver < queue[c][j].obj.ver
      BY <2>0 DEF InOrder
    <3>11. queue'[c] = queue[c]
      BY <3>1
    <3>12. \A i \in Places(c) : IsNote(c, i) => queue[c][i].obj.ver <= store'[c].ver
      BY <3>4, <3>5, <3>8
    <3>13. Latest(c)'.ver <= store'[c].ver
      BY <2>b, <3>3, <3>5, <3>7
    <3>9. InOrder(c)'
      BY <3>2, <3>3, <3>7, <3>8, <3>10, <3>11, <3>12, <3>13 DEF InOrder
    <3> QED BY <3>6, <3>9
  <2>2. ASSUME NEW v \in Versions, List(c, v) PROVE TailIsStore(c)' /\ InOrder(c)'
    <3>1. /\ pos[c] = -1 /\ store'[c] = Body(v) /\ UNCHANGED <<out[c], busy[c], seen[c]>>
          /\ v \in gone => queue'[c] = queue[c]
          /\ v \notin gone => queue'[c] = Append(queue[c], Note(Body(v)))
      BY <2>2, ListEffect
    <3>2. /\ out[c] = NoObject /\ Latest(c) = NoObject /\ Latest(c)' = Latest(c)
          /\ \A i \in Places(c) : ~IsNote(c, i)
      BY <2>0, <3>1 DEF Known, Latest
    <3>3. Body(v).ver = v /\ v \in Int /\ v >= 0
      BY BodyOrder
    <3>4. CASE v \in gone
      <4>1. Places(c)' = Places(c) /\ \A i \in Places(c) : IsNote(c, i)' <=> IsNote(c, i)
        BY <3>1, <3>4 DEF Places, IsNote
      <4>2. Same(Latest(c), store[c])'
        <5>1. Absent(Latest(c))'
          BY <2>a, <3>2 DEF Absent
        <5>2. Absent(store[c])'
          BY <2>0, <3>1, <3>3, <3>4 DEF Absent
        <5> QED BY <5>1, <5>2 DEF Same
      <4>3. TailIsStore(c)'
        BY <3>1, <3>2, <4>1, <4>2 DEF TailIsStore
      <4>4. Latest(c)'.ver <= store'[c].ver
        BY <2>a, <3>1, <3>2, <3>3
      <4>5. InOrder(c)'
        BY <3>1, <3>2, <4>1, <4>4 DEF InOrder
      <4> QED BY <4>3, <4>5
    <3>5. CASE v \notin gone
      <4>1. /\ Note(Body(v)) \in Notes /\ Note(Body(v)).kind = "note" /\ Note(Body(v)).obj = Body(v)
        BY BodyFacts, BodyOrder DEF IInv, TypeOK, ObjectTypeOK
      <4>2. Latest(c).ver < Body(v).ver
        BY <2>a, <3>2, <3>3
      <4>3. out'[c] = NoObject /\ store'[c].ver \in Int
        BY <3>1, <3>2, <3>3
      <4> QED BY <2>0, <3>1, <3>2, <3>5, <4>1, <4>2, <4>3, OrderSent
    <3> QED BY <3>4, <3>5
  <2>3. CASE Distribute(c)
    <3>1. /\ out[c] # NoObject /\ out'[c] = NoObject /\ UNCHANGED <<store[c], busy[c], seen[c]>>
          /\ ~done[c] => queue'[c] = Append(queue[c], Note(out[c]))
      BY <2>3, DistributeEffect
    <3>2. ~done[c] /\ out[c] = store[c] /\ Latest(c)' = Latest(c)
      BY <2>0, <3>1 DEF Known, TailIsStore, Latest
    <3>3. Note(out[c]) \in Notes /\ Note(out[c]).kind = "note" /\ Note(out[c]).obj = out[c]
      BY BodyFacts DEF IInv, TypeOK, ObjectTypeOK, Note
    <3>4. /\ Latest(c).ver < out[c].ver
          /\ \A i \in Places(c) : IsNote(c, i) => queue[c][i].obj.ver < out[c].ver
      BY <2>0, <3>1 DEF InOrder
    <3>5. store'[c] = out[c] /\ store'[c].ver \in Int
      BY <2>b, <3>1, <3>2
    <3> QED BY <2>0, <3>1, <3>2, <3>3, <3>4, <3>5, OrderSent
  <2>4. CASE RunReturns(c)
    <3>1. /\ store'[c] = NoObject /\ out'[c] = NoObject /\ seen'[c] = NoObject /\ busy'[c] = Idle
          /\ Places(c)' = {}
      BY <2>4, RunReturnsEffect DEF Places
    <3>2. Latest(c)' = NoObject
      BY <2>a, <3>1 DEF Latest
    <3>3. Same(Latest(c), store[c])'
      BY <3>1, <3>2 DEF Same
    <3> QED BY <2>a, <3>1, <3>2, <3>3 DEF TailIsStore, InOrder
  <2>5. CASE DeliverSuppressed(c) \/ DeliverMuted(c)
    <3>1. Takes(c, "note") /\ seen'[c] = First(c).obj /\ UNCHANGED <<store[c], out[c], busy[c]>>
      BY <2>5, DeliverSuppressedEffect, DeliverMutedEffect
    <3>2. Latest(c)' = First(c).obj
      <4>1. busy'[c] = Idle
        BY <3>1, Taken
      <4> QED BY <2>a, <3>1, <4>1 DEF Latest
    <3> QED BY <2>0, <3>1, <3>2, OrderTaken
  <2>6. CASE DeliverLive(c)
    <3>1. Takes(c, "note") /\ busy'[c].pc = "call" /\ busy'[c].obj = First(c).obj /\ UNCHANGED <<store[c], out[c]>>
      BY <2>6, DeliverLiveEffect
    <3>2. Latest(c)' = First(c).obj
      BY <3>1 DEF Latest
    <3> QED BY <2>0, <3>1, <3>2, OrderTaken
  <2>7. CASE UnmuteArrives(c) \/ SwapSkipped(c) \/ SwapDeliver(c)
    <3>1. PICK k \in {"unmute", "swap"} : Takes(c, k)
      BY <2>7, UnmuteArrivesEffect, SwapSkippedEffect, SwapDeliverEffect
    <3>2. UNCHANGED <<store[c], out[c], seen[c]>> /\ (busy'[c] = busy[c] \/ busy'[c].pc = "swapCall")
      BY <2>7, UnmuteArrivesEffect, SwapSkippedEffect, SwapDeliverEffect
    <3>3. Latest(c)' = Latest(c)
      BY <2>a, <3>1, <3>2, Taken DEF Latest
    <3> QED BY <2>0, <3>1, <3>2, <3>3, OrderTaken
  <2>8. ASSUME UNCHANGED <<store[c], out[c], queue[c]>>, Latest(c)' = Latest(c)
        PROVE  TailIsStore(c)' /\ InOrder(c)'
    <3>1. Places(c)' = Places(c) /\ \A i \in Places(c) : IsNote(c, i)' <=> IsNote(c, i)
      BY <2>8 DEF Places, IsNote
    <3>2. Same(Latest(c), store[c])' <=> Same(Latest(c), store[c])
      BY <2>0, <2>8 DEF Same, Absent
    <3>3. TailIsStore(c)'
      BY <2>0, <2>8, <3>1, <3>2 DEF TailIsStore
    <3>4. InOrder(c)'
      BY <2>0, <2>8, <3>1 DEF InOrder
    <3> QED BY <3>3, <3>4
  <2>9. CASE Record(c)
    BY <2>8, <2>9, <2>a, RecordEffect DEF Latest
  <2>10. CASE SwapRecord(c)
    BY <2>8, <2>10, <2>a, SwapRecordEffect DEF Latest
  <2>11. CASE ComputeM(c)
    BY <2>8, <2>11, ComputeMEffect DEF Latest, copyState
  <2>12. ASSUME NEW k \in {"unmute", "swap"}, queue'[c] = queue[c] \/ queue'[c] = Append(queue[c], Signal(k)),
                UNCHANGED <<store[c], out[c], busy[c], seen[c]>>
         PROVE  TailIsStore(c)' /\ InOrder(c)'
    <3>1. Signal(k) \in Notes /\ Signal(k).kind # "note" /\ Latest(c)' = Latest(c)
      BY <2>12, BodyFacts DEF Latest
    <3> QED BY <2>0, <2>8, <2>12, <3>1, OrderSent
  <2>13. CASE Unmute(c)
    BY <2>12, <2>13, UnmuteEffect
  <2>14. CASE DeliverM(c)
    BY <2>12, <2>14, DeliverMEffect
  <2> QED BY <1>2, <2>1, <2>2, <2>3, <2>4, <2>5, <2>6, <2>7, <2>9, <2>10, <2>11, <2>13, <2>14 DEF OwnStep
<1> QED BY <1>1, <1>2, Kinds, Elsewhere

----------------------------------------------------------------------------
\* Only one copy acts, and it is the only one that calls.
LEMMA OneActs ==
    ASSUME IInv, NEW c \in Copies, NEW d \in Copies, Acting(c), c # d
    PROVE  ~Acting(d) /\ busy[d] = Idle /\ muted[d]
  BY DEF IInv, PhaseInv, ActorKnown, CallersAct, Calls

\* A copy that takes the swap signal has been unmuted and acts.
LEMMA SwapTaken ==
    ASSUME IInv, NEW c \in Copies, Takes(c, "swap"), SignalOrder(c)
    PROVE  ~muted[c] /\ Acting(c) /\ swap[c] = "off" /\ ~Suppressing(c)
<1>1. /\ 1 \in Places(c) /\ queue[c][1].kind = "swap" /\ ~done[c] /\ Places(c) \subseteq Int
      /\ \A i \in Places(c) : 1 <= i
  BY Taken
<1>2. passed[c]
  BY <1>1 DEF IInv, SignalsPassed, Places
<1> QED BY <1>1, <1>2 DEF SignalOrder, Signalled, Acting

\* The consumer's record follows its calls.
LEMMA CallStep ==
    ASSUME IInv, CallKnown, \A c \in Copies : SignalOrder(c), Next
    PROVE  CallKnown'
<1>a. Idle.pc = "idle"
  BY BodyFacts
<1>1. ASSUME UNCHANGED <<consumer, acted>>, \A d \in Copies : busy'[d] = busy[d] /\ (muted'[d] => muted[d] \/ busy[d] = Idle)
      PROVE  CallKnown'
  BY <1>1 DEF CallKnown
<1>2. ASSUME Quiet \/ \E c \in Copies : Passes(c) PROVE CallKnown'
  <2>1. UNCHANGED <<consumer, acted>> /\ \A d \in Copies : busy'[d] = busy[d] /\ muted'[d] = muted[d]
    BY <1>2 DEF Quiet, Passes, copyState
  <2> QED BY <1>1, <2>1
<1>3. ASSUME NEW c \in Copies, OwnStep(c) PROVE CallKnown'
  <2>1. \A d \in Copies : d # c => busy'[d] = busy[d] /\ muted'[d] = muted[d]
    BY <1>3, Elsewhere DEF Alone, copyState
  <2>2. CASE \/ Watch(c) \/ (\E v \in Versions : List(c, v)) \/ Distribute(c) \/ DeliverSuppressed(c)
             \/ DeliverMuted(c) \/ SwapSkipped(c) \/ Unmute(c) \/ ComputeM(c) \/ DeliverM(c)
    <3>1. UNCHANGED <<consumer, acted, busy, muted>>
      BY <2>2 DEF Watch, List, Distribute, DeliverSuppressed, DeliverMuted, SwapSkipped, Unmute, ComputeM,
         DeliverM, adapterVars
    <3> QED BY <1>1, <3>1
  <2>3. CASE UnmuteArrives(c)
    BY <1>1, <2>1, <2>3, UnmuteArrivesEffect
  <2>4. CASE RunReturns(c)
    BY <1>1, <2>1, <2>4, RunReturnsEffect
  <2>5. ASSUME DeliverLive(c) \/ SwapDeliver(c) PROVE CallKnown'
    <3>1. /\ busy'[c].pc # "idle" /\ consumer' = busy'[c].obj /\ muted'[c] = muted[c]
      BY <2>5, DeliverLiveEffect, SwapDeliverEffect
    <3>2. ~muted[c] /\ Acting(c)
      BY <2>5, DeliverLiveEffect, SwapDeliverEffect, SwapTaken DEF IInv, CallersAct, Calls
    <3>3. \A d \in Copies : d # c => busy'[d] = Idle
      BY <2>1, <3>2, OneActs
    <3> QED BY <1>a, <3>1, <3>2, <3>3 DEF CallKnown
  <2>6. ASSUME Record(c) \/ SwapRecord(c) PROVE CallKnown'
    <3>1. busy[c].pc # "idle" /\ busy'[c] = Idle /\ acted' = busy[c].obj /\ UNCHANGED consumer
      BY <2>6, RecordEffect, SwapRecordEffect
    <3>2. busy[c] # Idle
      BY <1>a, <3>1
    <3>3. Acting(c)
      BY <3>2 DEF IInv, CallersAct, Calls
    <3>4. \A d \in Copies : d # c => busy'[d] = Idle
      BY <2>1, <3>3, OneActs
    <3> QED BY <1>a, <3>1, <3>2, <3>4 DEF CallKnown
  <2> QED BY <1>3, <2>2, <2>3, <2>4, <2>5, <2>6 DEF OwnStep
<1> QED BY <1>2, <1>3, Kinds

\* The signals of a copy that takes one, or a notification.
LEMMA SignalTaken ==
    ASSUME IInv, NEW c \in Copies, NEW k \in {"note", "unmute", "swap"}, Takes(c, k), SignalOrder(c),
           UNCHANGED <<swap[c], inM[c], passed[c], done[c]>>,
           k = "unmute" => ~muted'[c],
           k # "unmute" => muted'[c] = muted[c],
           busy'[c].pc = "swapCall" => k = "swap",
           Suppressing(c)' => Suppressing(c)
    PROVE  SignalOrder(c)'
<1>1. /\ 1 \in Places(c) /\ queue[c][1].kind = k /\ ~done[c]
      /\ Places(c) \subseteq Int /\ Places(c)' \subseteq Int /\ \A i \in Places(c) : 1 <= i
  BY Taken
<1>2. /\ \A i \in Places(c)' : i + 1 \in Places(c) /\ queue'[c][i] = queue[c][i + 1] /\ 1 <= i
      /\ \A i \in Places(c) : i # 1 => i - 1 \in Places(c)' /\ queue'[c][i - 1] = queue[c][i]
  BY Taken
<1>3. \A x : Signalled(c, x)' => Signalled(c, x)
  BY <1>2 DEF Signalled
<1>4. \A x : Signalled(c, x) => x = k \/ Signalled(c, x)'
  BY <1>1, <1>2 DEF Signalled
<1>5. k = "swap" => ~Signalled(c, "swap")' /\ swap[c] = "off" /\ Acting(c) /\ ~muted[c]
  <2>1. ASSUME k = "swap", NEW i \in Places(c)', queue'[c][i].kind = "swap" PROVE FALSE
    <3>1. i + 1 \in Places(c) /\ queue[c][i + 1].kind = "swap" /\ i + 1 # 1
      BY <1>1, <1>2, <2>1
    <3> QED BY <1>1, <2>1, <3>1 DEF SignalOrder
  <2> QED BY <2>1, SwapTaken DEF Signalled
<1>6. Signalled(c, k)
  BY <1>1 DEF Signalled
<1>7. Acting(c)' <=> Acting(c)
  BY DEF Acting
<1>8. /\ Acting(c)' /\ swap'[c] # "unmute" => ~muted'[c] \/ Signalled(c, "unmute")'
      /\ swap'[c] = "unmute" => muted'[c] /\ ~Signalled(c, "unmute")'
      /\ muted'[c] => ~Suppressing(c)'
      /\ swap'[c] # "deliver" => ~inM'[c]
  BY <1>3, <1>4, <1>6, <1>7 DEF SignalOrder
<1>9. ASSUME NEW i \in Places(c)', queue'[c][i].kind = "swap"
      PROVE  /\ muted'[c] => \E j \in Places(c)' : j < i /\ queue'[c][j].kind = "unmute"
             /\ \A j \in Places(c)' : queue'[c][j].kind = "swap" => i = j
  <2>1. i + 1 \in Places(c) /\ queue[c][i + 1].kind = "swap" /\ i \in Int
    BY <1>1, <1>2, <1>9
  <2>2. \A j \in Places(c)' : queue'[c][j].kind = "swap" => i = j
    BY <1>1, <1>2, <2>1 DEF SignalOrder
  <2>3. ASSUME muted'[c] PROVE \E j \in Places(c)' : j < i /\ queue'[c][j].kind = "unmute"
    <3>1. k # "unmute" /\ muted[c]
      BY <2>3
    <3>2. PICK j \in Places(c) : j < i + 1 /\ queue[c][j].kind = "unmute"
      BY <2>1, <3>1 DEF SignalOrder
    <3>3. j - 1 \in Places(c)' /\ j - 1 < i /\ queue'[c][j - 1].kind = "unmute"
      BY <1>1, <1>2, <2>1, <3>1, <3>2
    <3> QED BY <3>3
  <2> QED BY <2>2, <2>3
<1>10. Signalled(c, "swap")' => swap'[c] = "off" /\ busy'[c].pc # "swapCall" /\ ~Suppressing(c)'
  BY <1>3, <1>5 DEF SignalOrder
<1>11. busy'[c].pc = "swapCall" \/ Suppressing(c)' => swap'[c] = "off" /\ Acting(c)'
  BY <1>5, <1>7 DEF SignalOrder
<1> QED BY <1>8, <1>9, <1>10, <1>11 DEF SignalOrder

\* Nothing was taken, and no signal was sent.
SameSignals(c) ==
    /\ \A i \in Places(c) : i \in Places(c)' /\ queue'[c][i] = queue[c][i]
    /\ \A i \in Places(c)' : queue'[c][i].kind # "note" => i \in Places(c)

\* What is sent comes after all that is queued.
LEMMA AddedAt ==
    ASSUME IInv, NEW c \in Copies, NEW n, queue'[c] = Append(queue[c], n), NEW l, l = End(c)
    PROVE  /\ l \in Places(c)' /\ l \in Int /\ queue'[c][l] = n /\ l \notin Places(c)
           /\ \A i \in Places(c) : i < l /\ i \in Places(c)' /\ queue'[c][i] = queue[c][i]
           /\ \A i \in Places(c)' : i \in Places(c) \/ i = l
<1>1. l \in Places(c)' /\ queue'[c][l] = n
  BY Added
<1>2. Places(c) \subseteq Int /\ Places(c)' \subseteq Int
  BY Added
<1>3. \A i \in Places(c) : i < l /\ i \in Places(c)' /\ queue'[c][i] = queue[c][i]
  BY Added
<1>4. \A i \in Places(c)' : i \in Places(c) \/ i = l
  BY Added
<1>5. l \notin Places(c)
  BY <1>1, <1>2, <1>3
<1> QED BY <1>1, <1>2, <1>3, <1>4, <1>5

\* A notification sent adds no signal.
LEMMA NoteAdded ==
    ASSUME IInv, NEW c \in Copies, NEW n, queue'[c] = Append(queue[c], n), n.kind = "note"
    PROVE  SameSignals(c)
<1>1. PICK l : l = End(c)
  OBVIOUS
<1>2. \A i \in Places(c) : i \in Places(c)' /\ queue'[c][i] = queue[c][i]
  BY <1>1, AddedAt
<1>3. \A i \in Places(c)' : i \in Places(c) \/ i = l
  BY <1>1, AddedAt
<1>4. queue'[c][l] = n
  BY <1>1, AddedAt
<1> QED BY <1>2, <1>3, <1>4 DEF SameSignals

\* Then all that the signals are needed for is as it was.
LEMMA SignalNoted ==
    ASSUME IInv, NEW c \in Copies, SignalOrder(c), SameSignals(c),
           UNCHANGED <<swap[c], inM[c], passed[c], done[c], muted[c], busy[c], suppress[c]>>
    PROVE  SignalOrder(c)'
<1>1. /\ \A i \in Places(c) : i \in Places(c)' /\ queue'[c][i] = queue[c][i]
      /\ \A i \in Places(c)' : queue'[c][i].kind # "note" => i \in Places(c)
  BY DEF SameSignals
<1>2. \A x \in {"unmute", "swap"} : Signalled(c, x)' <=> Signalled(c, x)
  BY <1>1 DEF Signalled
<1>3. (Acting(c)' <=> Acting(c)) /\ (Suppressing(c)' <=> Suppressing(c))
  BY DEF Acting, Suppressing
<1>4. \A i \in Places(c)' : queue'[c][i].kind = "swap" =>
         /\ muted'[c] => \E j \in Places(c)' : j < i /\ queue'[c][j].kind = "unmute"
         /\ \A j \in Places(c)' : queue'[c][j].kind = "swap" => i = j
  BY <1>1 DEF SignalOrder
<1> QED BY <1>2, <1>3, <1>4 DEF SignalOrder

\* A copy that is not past step 3 has no signals, delivers and suppresses nothing.
LEMMA NotPassed ==
    ASSUME IInv, NEW c \in Copies, ~passed[c], c # 0, SignalOrder(c)
    PROVE  /\ ~Acting(c) /\ muted[c] /\ busy[c] = Idle /\ busy[c].pc # "swapCall" /\ ~Suppressing(c)
           /\ \A x \in {"unmute", "swap"} : ~Signalled(c, x)
           /\ \A i \in Places(c) : queue[c][i].kind = "note"
<1>1. \A i \in Places(c) : queue[c][i].kind = "note"
  BY DEF IInv, SignalsPassed, Places
<1> QED BY <1>1, BodyFacts DEF Acting, IInv, CallersAct, Calls, SignalOrder, Signalled

\* The signals of a copy, step by step.
LEMMA SignalStep ==
    ASSUME IInv, CallKnown, \A c \in Copies : SignalOrder(c), Next
    PROVE  \A c \in Copies : SignalOrder(c)'
<1>1. ASSUME NEW d \in Copies, UNCHANGED copyState(d), UNCHANGED <<swap[d], inM[d], passed[d]>> PROVE SignalOrder(d)'
  BY <1>1 DEF copyState, SignalOrder, Places, Signalled, Acting, Suppressing
<1>2. ASSUME NEW d \in Copies, UNCHANGED copyState(d), inM'[d] = inM[d], ~passed[d], d # 0,
             swap[d] # "deliver",
             (passed'[d] = passed[d] /\ swap'[d] \notin Delivering) \/ swap'[d] = "unmute"
      PROVE  SignalOrder(d)'
  <2>1. /\ ~Acting(d) /\ muted[d] /\ busy[d] = Idle /\ busy[d].pc # "swapCall" /\ ~Suppressing(d)
        /\ \A x \in {"unmute", "swap"} : ~Signalled(d, x)
        /\ \A i \in Places(d) : queue[d][i].kind = "note"
    BY <1>2, NotPassed
  <2>2. UNCHANGED <<queue[d], busy[d], muted[d], suppress[d], done[d]>> /\ ~inM[d]
    BY <1>2 DEF copyState, SignalOrder
  <2>3. /\ Places(d)' = Places(d) /\ (\A x \in {"unmute", "swap"} : ~Signalled(d, x)') /\ ~Suppressing(d)'
    BY <2>1, <2>2 DEF Places, Signalled, Suppressing
  <2>4. swap'[d] # "unmute" => ~Acting(d)'
    BY <1>2, <2>1, <2>2 DEF Acting
  <2> QED BY <1>2, <2>1, <2>2, <2>3, <2>4 DEF SignalOrder, Delivering
<1>3. ASSUME NEW d \in Copies, Quiet PROVE SignalOrder(d)'
  BY <1>1, <1>2, <1>3 DEF Quiet, swapState, Delivering
<1>4. ASSUME NEW d \in Copies, NEW c \in Copies, Passes(c) PROVE SignalOrder(d)'
  BY <1>1, <1>2, <1>4 DEF Passes
<1>5. ASSUME NEW d \in Copies, NEW c \in Copies, c # d, Alone(c) PROVE SignalOrder(d)'
  BY <1>1, <1>5 DEF Alone, swapState
<1>6. ASSUME NEW c \in Copies, OwnStep(c) PROVE SignalOrder(c)'
  <2>0. SignalOrder(c) /\ Idle.pc = "idle" /\ Signal("none").kind # "note"
    BY BodyFacts DEF Signal
  <2>1. CASE Watch(c)
    <3>1. UNCHANGED <<queue[c], swap[c], inM[c], passed[c], done[c], muted[c], busy[c], suppress[c]>>
      BY <2>1, WatchEffect DEF swapOf
    <3> QED BY <2>0, <3>1 DEF SignalOrder, Places, Signalled, Acting, Suppressing
  <2>2. ASSUME NEW v \in Versions, List(c, v) PROVE SignalOrder(c)'
    <3>1. UNCHANGED <<swap[c], inM[c], passed[c], done[c], muted[c], busy[c], suppress[c]>>
      BY <2>2, ListEffect DEF swapOf
    <3>2. queue'[c] = queue[c] \/ queue'[c] = Append(queue[c], Note(Body(v)))
      BY <2>2, ListEffect
    <3>3. Note(Body(v)).kind = "note"
      BY BodyOrder
    <3>4. SameSignals(c)
      BY <3>2, <3>3, NoteAdded DEF SameSignals, Places
    <3> QED BY <2>0, <3>1, <3>4, SignalNoted
  <2>3. CASE Distribute(c)
    <3>1. UNCHANGED <<swap[c], inM[c], passed[c], done[c], muted[c], busy[c], suppress[c]>>
      BY <2>3, DistributeEffect DEF swapOf
    <3>2. queue'[c] = queue[c] \/ queue'[c] = Append(queue[c], Note(out[c]))
      BY <2>3, DistributeEffect
    <3>3. Note(out[c]).kind = "note"
      BY DEF Note
    <3>4. SameSignals(c)
      BY <3>2, <3>3, NoteAdded DEF SameSignals, Places
    <3> QED BY <2>0, <3>1, <3>4, SignalNoted
  <2>4. CASE RunReturns(c)
    <3>1. /\ Places(c)' = {} /\ busy'[c] = Idle /\ muted'[c] /\ ~Suppressing(c)' /\ ~Acting(c)'
          /\ swap'[c] = swap[c] /\ inM'[c] = inM[c]
      BY <2>0, <2>4, RunReturnsEffect DEF Places, Suppressing, Acting, swapOf
    <3>2. \A x : ~Signalled(c, x)'
      BY <3>1 DEF Signalled
    <3> QED BY <2>0, <3>1, <3>2 DEF SignalOrder
  <2>5. CASE DeliverSuppressed(c) \/ DeliverMuted(c)
    <3>1. /\ Takes(c, "note") /\ muted'[c] = muted[c] /\ busy'[c] = busy[c]
          /\ UNCHANGED <<swap[c], inM[c], passed[c], done[c]>>
      BY <2>5, DeliverSuppressedEffect, DeliverMutedEffect DEF swapOf
    <3>2. Suppressing(c)' => Suppressing(c)
      BY <2>5, DeliverSuppressedEffect, DeliverMutedEffect DEF Suppressing
    <3>3. busy'[c].pc # "swapCall"
      BY <2>0, <3>1, Taken
    <3> QED BY <2>0, <3>1, <3>2, <3>3, SignalTaken
  <2>6. CASE DeliverLive(c)
    <3>1. /\ Takes(c, "note") /\ muted'[c] = muted[c] /\ busy'[c].pc = "call"
          /\ UNCHANGED <<swap[c], inM[c], passed[c], done[c]>> /\ (Suppressing(c)' <=> Suppressing(c))
      BY <2>6, DeliverLiveEffect DEF swapOf, Suppressing
    <3> QED BY <2>0, <3>1, SignalTaken
  <2>7. CASE UnmuteArrives(c)
    <3>1. /\ Takes(c, "unmute") /\ ~muted'[c] /\ busy'[c] = busy[c]
          /\ UNCHANGED <<swap[c], inM[c], passed[c], done[c]>> /\ (Suppressing(c)' <=> Suppressing(c))
      BY <2>7, UnmuteArrivesEffect DEF swapOf, Suppressing
    <3>2. busy'[c].pc # "swapCall"
      BY <2>0, <3>1, Taken
    <3> QED BY <2>0, <3>1, <3>2, SignalTaken
  <2>8. CASE SwapSkipped(c) \/ SwapDeliver(c)
    <3>1. /\ Takes(c, "swap") /\ muted'[c] = muted[c]
          /\ UNCHANGED <<swap[c], inM[c], passed[c], done[c]>> /\ (Suppressing(c)' <=> Suppressing(c))
      BY <2>8, SwapSkippedEffect, SwapDeliverEffect DEF swapOf, Suppressing
    <3> QED BY <2>0, <3>1, SignalTaken
  <2>9. CASE Record(c)
    <3>1. /\ UNCHANGED <<queue[c], swap[c], inM[c], passed[c], done[c], muted[c], suppress[c]>>
          /\ busy'[c].pc # "swapCall"
      BY <2>0, <2>9, RecordEffect DEF swapOf
    <3> QED BY <2>0, <3>1 DEF SignalOrder, Places, Signalled, Acting, Suppressing
  <2>10. CASE SwapRecord(c)
    <3>1. /\ UNCHANGED <<queue[c], swap[c], inM[c], passed[c], done[c], muted[c]>>
          /\ busy[c].pc = "swapCall" /\ busy'[c].pc # "swapCall"
      BY <2>0, <2>10, SwapRecordEffect DEF swapOf
    <3>2. ~muted[c] /\ swap[c] = "off" /\ Acting(c) /\ ~Signalled(c, "swap")
      BY <2>0, <3>1 DEF SignalOrder, CallKnown
    <3> QED BY <2>0, <3>1, <3>2 DEF SignalOrder, Places, Signalled, Acting
  <2>11. CASE ComputeM(c)
    <3>1. /\ UNCHANGED <<queue[c], passed[c], done[c], muted[c], busy[c], suppress[c]>>
          /\ swap[c] = "compute" /\ swap'[c] = "deliver"
      BY <2>11, ComputeMEffect DEF copyState
    <3>2. ~Signalled(c, "swap") /\ busy[c].pc # "swapCall" /\ ~Suppressing(c)
      BY <2>0, <3>1 DEF SignalOrder
    <3> QED BY <2>0, <3>1, <3>2 DEF SignalOrder, Places, Signalled, Acting, Suppressing
  <2>12. CASE Unmute(c)
    <3>1. /\ UNCHANGED <<inM[c], passed[c], done[c], muted[c], busy[c], suppress[c]>>
          /\ swap[c] = "unmute" /\ swap'[c] = "compute"
          /\ done[c] => queue'[c] = queue[c]
          /\ ~done[c] => queue'[c] = Append(queue[c], Signal("unmute"))
      BY <2>12, UnmuteEffect
    <3>2. ~Signalled(c, "swap") /\ busy[c].pc # "swapCall" /\ ~Suppressing(c) /\ ~inM[c]
      BY <2>0, <3>1 DEF SignalOrder
    <3>3. Signal("unmute").kind = "unmute"
      BY BodyFacts
    <3>4. CASE done[c]
      BY <2>0, <3>1, <3>2, <3>4 DEF SignalOrder, Places, Signalled, Acting, Suppressing
    <3>5. CASE ~done[c]
      <4>1. PICK l : l = End(c)
        OBVIOUS
      <4>2. /\ l \in Places(c)' /\ queue'[c][l].kind = "unmute"
            /\ \A i \in Places(c) : i \in Places(c)' /\ queue'[c][i] = queue[c][i]
            /\ \A i \in Places(c)' : i \in Places(c) \/ i = l
        <5>1. queue'[c] = Append(queue[c], Signal("unmute"))
          BY <3>1, <3>5
        <5>2. l \in Places(c)' /\ queue'[c][l] = Signal("unmute")
          BY <4>1, <5>1, AddedAt
        <5>3. /\ \A i \in Places(c) : i \in Places(c)' /\ queue'[c][i] = queue[c][i]
              /\ \A i \in Places(c)' : i \in Places(c) \/ i = l
          BY <4>1, <5>1, AddedAt
        <5> QED BY <3>3, <5>2, <5>3
      <4>3. Signalled(c, "unmute")' /\ \A i \in Places(c)' : queue'[c][i].kind # "swap"
        BY <3>2, <4>2 DEF Signalled
      <4>4. ~Signalled(c, "swap")' /\ ~Suppressing(c)'
        BY <3>1, <3>2, <4>3 DEF Signalled, Suppressing
      <4> QED BY <3>1, <3>2, <4>3, <4>4 DEF SignalOrder
    <3> QED BY <3>4, <3>5
  <2>13. CASE DeliverM(c)
    <3>1. /\ UNCHANGED <<passed[c], done[c], muted[c], busy[c], suppress[c]>>
          /\ swap[c] = "deliver" /\ swap'[c] = "off" /\ ~inM'[c]
          /\ done[c] \/ ~inM[c] => queue'[c] = queue[c]
          /\ ~done[c] /\ inM[c] => queue'[c] = Append(queue[c], Signal("swap"))
      BY <2>13, DeliverMEffect
    <3>2. ~Signalled(c, "swap") /\ busy[c].pc # "swapCall" /\ ~Suppressing(c)
      BY <2>0, <3>1 DEF SignalOrder
    <3>3. Signal("swap").kind = "swap"
      BY BodyFacts
    <3>4. CASE done[c] \/ ~inM[c]
      BY <2>0, <3>1, <3>2, <3>4 DEF SignalOrder, Places, Signalled, Acting, Suppressing
    <3>5. CASE ~done[c] /\ inM[c]
      <4>1. PICK l : l = End(c)
        OBVIOUS
      <4>2. /\ l \in Places(c)' /\ queue'[c][l].kind = "swap"
            /\ \A i \in Places(c) : i < l /\ i \in Places(c)' /\ queue'[c][i] = queue[c][i]
            /\ \A i \in Places(c)' : i \in Places(c) \/ i = l
        <5>1. queue'[c] = Append(queue[c], Signal("swap"))
          BY <3>1, <3>5
        <5>2. l \in Places(c)' /\ queue'[c][l] = Signal("swap")
          BY <4>1, <5>1, AddedAt
        <5>3. /\ \A i \in Places(c) : i < l /\ i \in Places(c)' /\ queue'[c][i] = queue[c][i]
              /\ \A i \in Places(c)' : i \in Places(c) \/ i = l
          BY <4>1, <5>1, AddedAt
        <5> QED BY <3>3, <5>2, <5>3
      <4>3. \A i \in Places(c)' : queue'[c][i].kind = "swap" => i = l
        BY <3>2, <4>2 DEF Signalled
      <4>4. passed[c] /\ Acting(c)
        BY <3>1, <3>5 DEF IInv, PhaseInv, Phases, Delivering, Acting
      <4>5. ~muted[c] \/ Signalled(c, "unmute")
        BY <2>0, <3>1, <4>4 DEF SignalOrder
      <4>6. muted[c] => \E j \in Places(c)' : j < l /\ queue'[c][j].kind = "unmute"
        BY <4>2, <4>5 DEF Signalled
      <4>7. ~Suppressing(c)'
        BY <3>1, <3>2 DEF Suppressing
      <4>8. ~muted[c] \/ Signalled(c, "unmute")'
        BY <4>6 DEF Signalled
      <4> QED BY <3>1, <3>2, <4>3, <4>6, <4>7, <4>8 DEF SignalOrder
    <3> QED BY <3>4, <3>5
  <2> QED BY <1>6, <2>1, <2>2, <2>3, <2>4, <2>5, <2>6, <2>7, <2>8, <2>9, <2>10, <2>11, <2>12, <2>13 DEF OwnStep
<1> QED BY <1>3, <1>4, <1>5, <1>6, Kinds, Elsewhere

----------------------------------------------------------------------------
\* Whoever calls the consumer acts.
LEMMA CallerActs ==
    ASSUME IInv, NEW c \in Copies, SignalOrder(c), OwnStep(c)
    PROVE  consumer' = consumer \/ Acting(c)
<1>1. ASSUME ~DeliverLive(c), ~SwapDeliver(c) PROVE consumer' = consumer
  BY <1>1 DEF OwnStep, Watch, Distribute, RunReturns, List, DeliverSuppressed, DeliverMuted,
     UnmuteArrives, SwapSkipped, Record, SwapRecord, Unmute, ComputeM, DeliverM, adapterVars
<1>2. CASE DeliverLive(c)
  BY <1>2, DeliverLiveEffect DEF IInv, CallersAct, Calls
<1>3. CASE SwapDeliver(c)
  BY <1>3, SwapDeliverEffect, SwapTaken
<1> QED BY <1>1, <1>2, <1>3

\* What is said of a copy that does nothing stays true while another acts.
LEMMA DeliveryKept ==
    ASSUME NEW d \in Copies, gone' = gone, UNCHANGED copyState(d), UNCHANGED swapState(d),
           swap'[d] = swap[d], consumer' = consumer \/ (~Acting(d) /\ ~Suppressing(d))
    PROVE  /\ SwapKnown(d) => SwapKnown(d)'
           /\ Caught(d) => Caught(d)'
           /\ Forward(d) => Forward(d)'
<1> USE DEF copyState, swapState
<1>1. /\ Places(d)' = Places(d) /\ queue'[d] = queue[d] /\ (Suppressing(d)' <=> Suppressing(d)) /\ (Acting(d)' <=> Acting(d))
      /\ \A i \in Places(d) : (IsNote(d, i)' <=> IsNote(d, i)) /\ (LiveNote(d, i)' <=> LiveNote(d, i))
      /\ Pending(d)' <=> Pending(d)
      /\ Comparing(d)' <=> Comparing(d)
  BY DEF Places, Suppressing, Acting, IsNote, LiveNote, Pending, Comparing, Signalled
<1>2. SwapKnown(d) => SwapKnown(d)'
  BY <1>1 DEF SwapKnown, Same, Absent
<1>3. Caught(d) => Caught(d)'
  BY <1>1 DEF Caught, Same, Absent
<1>4. Forward(d) => Forward(d)'
  BY <1>1 DEF Forward
<1> QED BY <1>2, <1>3, <1>4

\* The notifications of a copy that takes one, or a signal.
LEMMA LiveTaken ==
    ASSUME IInv, NEW c \in Copies, NEW k \in {"note", "unmute", "swap"}, Takes(c, k),
           k = "unmute" => ~muted'[c],
           k # "unmute" => muted'[c] = muted[c]
    PROVE  /\ \A i \in Places(c)' : LiveNote(c, i)' <=> LiveNote(c, i + 1)
           /\ \A i \in Places(c) : i # 1 /\ LiveNote(c, i) => LiveNote(c, i - 1)'
           /\ LiveNote(c, 1) <=> k = "note" /\ ~muted[c]
<1>1. /\ 1 \in Places(c) /\ queue[c][1].kind = k
      /\ Places(c) \subseteq Int /\ Places(c)' \subseteq Int /\ \A i \in Places(c) : 1 <= i
  BY Taken
<1>2. /\ \A i \in Places(c)' : i + 1 \in Places(c) /\ queue'[c][i] = queue[c][i + 1] /\ 1 <= i
      /\ \A i \in Places(c) : i # 1 => i - 1 \in Places(c)' /\ queue'[c][i - 1] = queue[c][i]
  BY Taken
<1>3. ASSUME NEW i \in Places(c)' PROVE LiveNote(c, i)' <=> LiveNote(c, i + 1)
  <2>1. i \in Int /\ i + 1 \in Places(c) /\ (IsNote(c, i)' <=> IsNote(c, i + 1)) /\ 1 < i + 1
    BY <1>1, <1>2 DEF IsNote
  <2>2. CASE k = "unmute"
    BY <1>1, <2>1, <2>2 DEF LiveNote
  <2>3. CASE k # "unmute"
    <3>1. ASSUME NEW j \in Places(c), j < i + 1, queue[c][j].kind = "unmute"
          PROVE  \E m \in Places(c)' : m < i /\ queue'[c][m].kind = "unmute"
      <4>1. j - 1 \in Places(c)' /\ j - 1 < i /\ queue'[c][j - 1].kind = "unmute"
        BY <1>1, <1>2, <2>1, <2>3, <3>1
      <4> QED BY <4>1
    <3>2. ASSUME NEW m \in Places(c)', m < i, queue'[c][m].kind = "unmute"
          PROVE  \E j \in Places(c) : j < i + 1 /\ queue[c][j].kind = "unmute"
      <4>1. m + 1 \in Places(c) /\ m + 1 < i + 1 /\ queue[c][m + 1].kind = "unmute"
        BY <1>1, <1>2, <2>1, <3>2
      <4> QED BY <4>1
    <3> QED BY <2>1, <2>3, <3>1, <3>2 DEF LiveNote
  <2> QED BY <2>2, <2>3
<1>4. ASSUME NEW i \in Places(c), i # 1, LiveNote(c, i) PROVE LiveNote(c, i - 1)'
  <2>1. PICK m \in Places(c)' : m = i - 1
    BY <1>2, <1>4
  <2>2. m + 1 = i
    BY <1>1, <2>1
  <2>3. LiveNote(c, m)'
    BY <1>3, <1>4, <2>2
  <2> QED BY <2>1, <2>3
<1>5. LiveNote(c, 1) <=> k = "note" /\ ~muted[c]
  BY <1>1 DEF LiveNote, IsNote
<1> QED BY <1>3, <1>4, <1>5

\* S, delivered by a swap, is noticed when its notification comes.
LEMMA SwapStep ==
    ASSUME IInv, CallKnown, NEW c \in Copies,
           Known(c), Listed(c), TailIsStore(c), SignalOrder(c), SwapKnown(c), OwnStep(c)
    PROVE  SwapKnown(c)'
<1>0. gone' = gone /\ Idle.pc = "idle" /\ Signal("none").kind # "note"
  BY Elsewhere, BodyFacts DEF Alone, Signal
<1>1. ASSUME busy'[c].pc # "swapCall", ~Suppressing(c)' PROVE SwapKnown(c)'
  BY <1>1 DEF SwapKnown
<1>2. CASE Watch(c)
  <2>1. out[c] = NoObject /\ UNCHANGED <<queue[c], busy[c], seen[c], suppress[c]>> /\ consumer' = consumer
    BY <1>2, WatchEffect
  <2>2. Places(c)' = Places(c) /\ (\A i \in Places(c) : IsNote(c, i)' <=> IsNote(c, i)) /\ (Suppressing(c)' <=> Suppressing(c))
    BY <2>1 DEF Places, IsNote, Suppressing
  <2> QED BY <1>0, <2>1, <2>2 DEF SwapKnown, Same, Absent
<1>3. ASSUME NEW v \in Versions, List(c, v) PROVE SwapKnown(c)'
  <2>1. pos[c] = -1 /\ UNCHANGED <<busy[c], suppress[c]>>
    BY <1>3, ListEffect
  <2>2. ~Acting(c)
    BY <2>1 DEF Listed, Acting
  <2>3. busy[c].pc # "swapCall" /\ ~Suppressing(c)
    BY <2>2 DEF SignalOrder
  <2> QED BY <1>1, <2>1, <2>3 DEF Suppressing
<1>4. CASE Distribute(c)
  <2>1. /\ out[c] # NoObject /\ out'[c] = NoObject /\ UNCHANGED <<busy[c], seen[c], suppress[c]>>
        /\ ~done[c] => queue'[c] = Append(queue[c], Note(out[c]))
        /\ consumer' = consumer
    BY <1>4, DistributeEffect
  <2>2. ~done[c]
    BY <2>1 DEF Known
  <2>3. PICK l : l = End(c)
    OBVIOUS
  <2>4. queue'[c] = Append(queue[c], Note(out[c]))
    BY <2>1, <2>2
  <2>5. l \in Places(c)' /\ queue'[c][l] = Note(out[c])
    BY <2>3, <2>4, AddedAt
  <2>6. \A i \in Places(c) : i \in Places(c)' /\ queue'[c][i] = queue[c][i]
    BY <2>3, <2>4, AddedAt
  <2>7. Note(out[c]).kind = "note" /\ Note(out[c]).obj = out[c]
    BY DEF Note
  <2>8. IsNote(c, l)' /\ queue'[c][l].obj = out[c] /\ \A i \in Places(c) : IsNote(c, i)' <=> IsNote(c, i)
    BY <2>5, <2>6, <2>7 DEF IsNote
  <2>9. (Suppressing(c)' <=> Suppressing(c)) /\ busy'[c] = busy[c] /\ seen'[c] = seen[c] /\ suppress'[c] = suppress[c]
    BY <2>1 DEF Suppressing
  <2>10. busy'[c].pc = "swapCall" =>
           \/ Same(seen[c], busy[c].obj)'
           \/ \E i \in Places(c)' : IsNote(c, i)' /\ queue'[c][i].obj = busy'[c].obj
    BY <1>0, <2>5, <2>6, <2>8, <2>9 DEF SwapKnown, Same, Absent
  <2>11. Suppressing(c)' =>
           /\ consumer' = suppress'[c].obj
           /\ \E i \in Places(c)' : IsNote(c, i)' /\ Same(suppress[c].obj, queue[c][i].obj)'
    BY <1>0, <2>1, <2>5, <2>6, <2>8, <2>9 DEF SwapKnown, Same, Absent
  <2> QED BY <2>10, <2>11 DEF SwapKnown
<1>5. CASE RunReturns(c)
  BY <1>0, <1>1, <1>5, RunReturnsEffect DEF Suppressing
<1>6. ASSUME NEW k, Takes(c, k), Suppressing(c)' /\ k = "note" => ~Same(suppress[c].obj, First(c).obj),
             Suppressing(c)' => Suppressing(c) /\ suppress'[c] = suppress[c],
             out'[c] = out[c], busy'[c].pc # "swapCall", consumer' = consumer
      PROVE  SwapKnown(c)'
  <2>1. /\ 1 \in Places(c) /\ First(c) = queue[c][1] /\ queue[c][1].kind = k
        /\ \A i \in Places(c) : i # 1 => i - 1 \in Places(c)' /\ queue'[c][i - 1] = queue[c][i]
    BY <1>6, Taken
  <2>2. ASSUME Suppressing(c)', NEW i \in Places(c), IsNote(c, i), Same(suppress[c].obj, queue[c][i].obj)
        PROVE  \E j \in Places(c)' : IsNote(c, j)' /\ Same(suppress[c].obj, queue[c][j].obj)'
    <3>1. i # 1
      BY <1>6, <2>1, <2>2 DEF IsNote
    <3>2. PICK m \in Places(c)' : m = i - 1 /\ queue'[c][m] = queue[c][i]
      BY <2>1, <3>1
    <3>3. IsNote(c, m)' /\ Same(suppress[c].obj, queue[c][m].obj)'
      BY <1>0, <1>6, <2>2, <3>2 DEF IsNote, Same, Absent
    <3> QED BY <3>3
  <2>3. Suppressing(c)' /\ out[c] # NoObject /\ Same(suppress[c].obj, out[c]) =>
          out'[c] # NoObject /\ Same(suppress[c].obj, out[c])'
    BY <1>0, <1>6 DEF Same, Absent
  <2> QED BY <1>6, <2>2, <2>3 DEF SwapKnown
<1>7. CASE DeliverSuppressed(c)
  <2>1. /\ Takes(c, "note") /\ Suppressing(c) /\ UNCHANGED <<out[c], busy[c]>> /\ consumer' = consumer
        /\ Same(suppress[c].obj, First(c).obj) => suppress'[c] = Signal("none")
        /\ ~Same(suppress[c].obj, First(c).obj) => suppress'[c] = suppress[c]
    BY <1>7, DeliverSuppressedEffect
  <2>2. busy'[c].pc # "swapCall"
    BY <1>0, <2>1, Taken
  <2> QED BY <1>0, <1>6, <2>1, <2>2 DEF Suppressing
<1>8. CASE DeliverMuted(c) \/ DeliverLive(c)
  <2>1. Takes(c, "note") /\ ~Suppressing(c) /\ suppress'[c] = suppress[c] /\ (busy'[c] = busy[c] \/ busy'[c].pc = "call")
    BY <1>8, DeliverMutedEffect, DeliverLiveEffect
  <2>2. busy'[c].pc # "swapCall"
    BY <1>0, <2>1, Taken
  <2> QED BY <1>1, <2>1, <2>2 DEF Suppressing
<1>9. CASE UnmuteArrives(c)
  <2>1. Takes(c, "unmute") /\ UNCHANGED <<suppress[c], out[c], busy[c]>> /\ consumer' = consumer
    BY <1>9, UnmuteArrivesEffect
  <2>2. busy'[c].pc # "swapCall"
    BY <1>0, <2>1, Taken
  <2> QED BY <1>6, <2>1, <2>2 DEF Suppressing
<1>10. CASE SwapSkipped(c)
  <2>1. Takes(c, "swap") /\ UNCHANGED <<suppress[c], busy[c]>>
    BY <1>10, SwapSkippedEffect
  <2>2. busy'[c].pc # "swapCall" /\ ~Suppressing(c)
    BY <1>0, <2>1, Taken, SwapTaken
  <2> QED BY <1>1, <2>1, <2>2 DEF Suppressing
<1>11. CASE SwapDeliver(c)
  <2>1. Takes(c, "swap") /\ UNCHANGED <<suppress[c], out[c], seen[c]>> /\ busy'[c].obj = store[c]
    BY <1>11, SwapDeliverEffect
  <2>2. ~Suppressing(c)' /\ Latest(c) = seen[c]
    BY <1>0, <2>1, Taken, SwapTaken DEF Suppressing, Latest
  <2>3. CASE out[c] # NoObject
    BY <2>1, <2>2, <2>3 DEF TailIsStore, SwapKnown
  <2>4. CASE Same(Latest(c), store[c])
    <3>1. Same(seen[c], busy[c].obj)'
      BY <1>0, <2>1, <2>2, <2>4 DEF Same, Absent
    <3> QED BY <2>2, <3>1 DEF SwapKnown
  <2>5. ASSUME NEW i \in Places(c), IsNote(c, i), queue[c][i].obj = store[c] PROVE SwapKnown(c)'
    <3>1. /\ queue[c][1].kind = "swap"
          /\ \A j \in Places(c) : j # 1 => j - 1 \in Places(c)' /\ queue'[c][j - 1] = queue[c][j]
      BY <2>1, Taken
    <3>2. i # 1
      BY <2>5, <3>1 DEF IsNote
    <3>3. PICK m \in Places(c)' : queue'[c][m] = queue[c][i]
      BY <3>1, <3>2
    <3>4. IsNote(c, m)' /\ queue'[c][m].obj = busy'[c].obj
      BY <2>1, <2>5, <3>3 DEF IsNote
    <3> QED BY <2>2, <3>4 DEF SwapKnown
  <2> QED BY <2>3, <2>4, <2>5 DEF TailIsStore
<1>12. ASSUME NEW S, \A i \in Places(c) : i \in Places(c)' /\ queue'[c][i] = queue[c][i],
              UNCHANGED <<out[c], seen[c]>>, busy'[c] = busy[c] \/ busy'[c] = Idle,
              consumer' = consumer, suppress'[c] = suppress[c] \/ (suppress'[c].obj = S /\ ~Same(seen[c], S) /\ busy[c].pc = "swapCall" /\ S = busy[c].obj)
       PROVE  SwapKnown(c)'
  <2>1. \A i \in Places(c) : IsNote(c, i)' <=> IsNote(c, i)
    BY <1>12 DEF IsNote
  <2>2. busy'[c].pc = "swapCall" =>
           \/ Same(seen[c], busy[c].obj)' \/ (out'[c] # NoObject /\ out'[c] = busy'[c].obj)
           \/ \E i \in Places(c)' : IsNote(c, i)' /\ queue'[c][i].obj = busy'[c].obj
    BY <1>0, <1>12, <2>1 DEF SwapKnown, Same, Absent
  <2>3. CASE suppress'[c] = suppress[c]
    <3>1. Suppressing(c)' => Suppressing(c)
      BY <2>3 DEF Suppressing
    <3>2. Suppressing(c)' => consumer' = suppress'[c].obj
      BY <1>12, <2>3, <3>1 DEF SwapKnown
    <3>3. Suppressing(c)' =>
            \/ out'[c] # NoObject /\ Same(suppress[c].obj, out[c])'
            \/ \E i \in Places(c)' : IsNote(c, i)' /\ Same(suppress[c].obj, queue[c][i].obj)'
      BY <1>0, <1>12, <2>1, <2>3, <3>1 DEF SwapKnown, Same, Absent
    <3> QED BY <2>2, <3>2, <3>3 DEF SwapKnown
  <2>4. CASE suppress'[c].obj = S /\ ~Same(seen[c], S) /\ busy[c].pc = "swapCall" /\ S = busy[c].obj
    <3>1. consumer' = suppress'[c].obj
      BY <1>0, <1>12, <2>4 DEF CallKnown
    <3>2. \/ out[c] # NoObject /\ out[c] = S
          \/ \E i \in Places(c) : IsNote(c, i) /\ queue[c][i].obj = S
      BY <2>4 DEF SwapKnown
    <3>3. \/ out'[c] # NoObject /\ Same(suppress[c].obj, out[c])'
          \/ \E i \in Places(c)' : IsNote(c, i)' /\ Same(suppress[c].obj, queue[c][i].obj)'
      BY <1>12, <2>1, <2>4, <3>2 DEF Same
    <3> QED BY <2>2, <3>1, <3>3 DEF SwapKnown
  <2> QED BY <1>12, <2>3, <2>4
<1>13. CASE Record(c)
  <2>1. UNCHANGED <<queue[c], out[c], suppress[c]>> /\ busy'[c] = Idle /\ consumer' = consumer
    BY <1>13, RecordEffect
  <2>2. Places(c)' = Places(c) /\ (\A i \in Places(c) : IsNote(c, i)' <=> IsNote(c, i)) /\ (Suppressing(c)' <=> Suppressing(c))
    BY <2>1 DEF Places, IsNote, Suppressing
  <2> QED BY <1>0, <2>1, <2>2 DEF SwapKnown, Same, Absent
<1>14. CASE SwapRecord(c)
  <2>1. /\ UNCHANGED <<queue[c], out[c], seen[c]>> /\ busy'[c] = Idle /\ consumer' = consumer
        /\ busy[c].pc = "swapCall"
        /\ Same(seen[c], busy[c].obj) => suppress'[c] = suppress[c]
        /\ ~Same(seen[c], busy[c].obj) => suppress'[c] = Note(busy[c].obj)
    BY <1>14, SwapRecordEffect
  <2>2. Note(busy[c].obj).obj = busy[c].obj
    BY DEF Note
  <2>3. \A i \in Places(c) : i \in Places(c)' /\ queue'[c][i] = queue[c][i]
    BY <2>1 DEF Places
  <2> QED BY <1>12, <2>1, <2>2, <2>3
<1>15. CASE Unmute(c) \/ ComputeM(c) \/ DeliverM(c)
  <2>1. UNCHANGED <<out[c], seen[c], busy[c], suppress[c]>> /\ consumer' = consumer
    BY <1>15, UnmuteEffect, ComputeMEffect, DeliverMEffect DEF copyState
  <2>2. \A i \in Places(c) : i \in Places(c)' /\ queue'[c][i] = queue[c][i]
    <3>1. queue'[c] = queue[c] \/ queue'[c] = Append(queue[c], Signal("unmute")) \/ queue'[c] = Append(queue[c], Signal("swap"))
      BY <1>15, UnmuteEffect, ComputeMEffect, DeliverMEffect DEF copyState
    <3> QED BY <3>1, Added DEF Places
  <2> QED BY <1>12, <2>1, <2>2
<1> QED BY <1>2, <1>3, <1>4, <1>5, <1>7, <1>8, <1>9, <1>10, <1>11, <1>13, <1>14, <1>15 DEF OwnStep

\* What a sent notification does to those before it, and whether it is live.
LEMMA LiveAdded ==
    ASSUME IInv, NEW c \in Copies, NEW n, queue'[c] = Append(queue[c], n), muted'[c] = muted[c],
           NEW l, l = End(c)
    PROVE  /\ \A i \in Places(c) : LiveNote(c, i)' <=> LiveNote(c, i)
           /\ n.kind = "note" => (LiveNote(c, l)' <=> ~muted[c] \/ Signalled(c, "unmute"))
           /\ n.kind # "note" => ~LiveNote(c, l)'
<1>a. l \in Places(c)' /\ l \in Int
  BY AddedAt
<1>b. queue'[c][l] = n
  BY Added
<1>c. l \notin Places(c)
  BY AddedAt
<1>1. l \in Places(c)' /\ l \in Int /\ queue'[c][l] = n /\ l \notin Places(c)
  BY <1>a, <1>b, <1>c
<1>2. \A i \in Places(c) : i < l /\ i \in Places(c)' /\ queue'[c][i] = queue[c][i]
  BY AddedAt
<1>3. \A i \in Places(c)' : i \in Places(c) \/ i = l
  BY AddedAt
<1>4. Places(c) \subseteq Int
  BY Queued
<1>5. ASSUME NEW i \in Places(c) PROVE LiveNote(c, i)' <=> LiveNote(c, i)
  <2>1. IsNote(c, i)' <=> IsNote(c, i)
    BY <1>2 DEF IsNote
  <2>2. (\E j \in Places(c)' : j < i /\ queue'[c][j].kind = "unmute") <=> (\E j \in Places(c) : j < i /\ queue[c][j].kind = "unmute")
    <3>1. ASSUME NEW j \in Places(c)', j < i PROVE j \in Places(c)
      <4>1. i < l /\ i \in Int /\ (j \in Places(c) \/ j = l)
        BY <1>2, <1>3, <1>4
      <4>2. j # l
        BY <1>a, <3>1, <4>1
      <4> QED BY <4>1, <4>2
    <3> QED BY <1>2, <3>1
  <2> QED BY <2>1, <2>2 DEF LiveNote
<1>6. IsNote(c, l)' <=> n.kind = "note"
  BY <1>1 DEF IsNote
<1>7. (\E j \in Places(c)' : j < l /\ queue'[c][j].kind = "unmute") <=> Signalled(c, "unmute")
  <2>1. ASSUME NEW j \in Places(c)', j < l PROVE j \in Places(c)
    <3>1. j # l
      BY <1>a, <2>1
    <3> QED BY <1>3, <3>1
  <2> QED BY <1>2, <2>1 DEF Signalled
<1> QED BY <1>5, <1>6, <1>7 DEF LiveNote

\* What the consumer still has to be told of, when a copy takes a signal, or a
\* notification while it is muted.
LEMMA PendingTaken ==
    ASSUME IInv, NEW c \in Copies, NEW k \in {"note", "unmute", "swap"}, Takes(c, k), out'[c] = out[c],
           k = "unmute" => ~muted'[c],
           k # "unmute" => muted'[c] = muted[c],
           k # "note" \/ muted[c]
    PROVE  Pending(c)' <=> Pending(c)
<1>1. /\ \A i \in Places(c)' : i + 1 \in Places(c)
      /\ \A i \in Places(c) : i # 1 => i - 1 \in Places(c)'
  BY Taken
<1>2. /\ \A i \in Places(c)' : LiveNote(c, i)' <=> LiveNote(c, i + 1)
      /\ \A i \in Places(c) : i # 1 /\ LiveNote(c, i) => LiveNote(c, i - 1)'
      /\ ~LiveNote(c, 1)
  BY LiveTaken
<1>3. ASSUME NEW i \in Places(c), LiveNote(c, i) PROVE \E j \in Places(c)' : LiveNote(c, j)'
  <2>1. PICK m \in Places(c)' : m = i - 1
    BY <1>1, <1>2, <1>3
  <2>2. LiveNote(c, m)'
    BY <1>2, <1>3, <2>1
  <2> QED BY <2>2
<1>4. ASSUME NEW i \in Places(c)', LiveNote(c, i)' PROVE \E j \in Places(c) : LiveNote(c, j)
  BY <1>1, <1>2, <1>4
<1> QED BY <1>3, <1>4 DEF Pending

\* The last notification an unmuted copy takes is of what its store holds.
LEMMA LastTaken ==
    ASSUME IInv, NEW c \in Copies, Takes(c, "note"), ~muted[c], ~muted'[c], out'[c] = out[c],
           TailIsStore(c), ~Pending(c)'
    PROVE  First(c).obj = store[c]
<1>1. /\ 1 \in Places(c) /\ First(c) = queue[c][1] /\ queue[c][1].kind = "note"
      /\ \A i \in Places(c) : i # 1 => i - 1 \in Places(c)' /\ queue'[c][i - 1] = queue[c][i]
  BY Taken
<1>2. ASSUME NEW i \in Places(c), i # 1, IsNote(c, i) PROVE FALSE
  <2>1. PICK m \in Places(c)' : queue'[c][m] = queue[c][i]
    BY <1>1, <1>2
  <2>2. LiveNote(c, m)'
    BY <1>2, <2>1 DEF LiveNote, IsNote
  <2> QED BY <2>2 DEF Pending
<1>3. out[c] = NoObject /\ IsNote(c, 1)
  BY <1>1 DEF Pending, IsNote
<1> QED BY <1>1, <1>2, <1>3 DEF TailIsStore

\* The consumer is told of what the acting copy's store holds, step by step.
LEMMA CaughtStep ==
    ASSUME IInv, CallKnown, NEW c \in Copies,
           Known(c), Listed(c), TailIsStore(c), SignalOrder(c), SwapKnown(c), Caught(c), OwnStep(c)
    PROVE  Caught(c)'
<1>0. gone' = gone /\ Idle.pc = "idle" /\ Signal("none").kind # "note"
  BY Elsewhere, BodyFacts DEF Alone, Signal
<1>1. ASSUME consumer' = consumer, store'[c] = store[c], Acting(c)' => Acting(c),
             Acting(c)' /\ ~Comparing(c)' => ~Comparing(c),
             Acting(c)' /\ ~Comparing(c)' /\ ~Suppressing(c)' => ~Suppressing(c),
             Acting(c)' /\ ~Comparing(c)' /\ ~Suppressing(c)' /\ ~Pending(c)' => ~Pending(c)
      PROVE  Caught(c)'
  BY <1>0, <1>1 DEF Caught, Same, Absent
<1>2. CASE Watch(c)
  <2>1. out'[c] = Body(pos[c] + 1) /\ pos[c] + 1 \in Versions
    BY <1>2, WatchEffect
  <2>2. Pending(c)'
    BY <2>1, BodyOrder DEF Pending
  <2> QED BY <2>2 DEF Caught
<1>3. ASSUME NEW v \in Versions, List(c, v) PROVE Caught(c)'
  <2>1. pos[c] = -1 /\ UNCHANGED <<done[c], passed[c]>>
    BY <1>3, ListEffect DEF swapOf
  <2>2. ~Acting(c)'
    BY <2>1 DEF Listed, Acting
  <2> QED BY <2>2 DEF Caught
<1>4. CASE Distribute(c)
  <2>1. /\ out[c] # NoObject /\ UNCHANGED <<muted[c], done[c], swap[c], passed[c]>>
        /\ ~done[c] => queue'[c] = Append(queue[c], Note(out[c]))
    BY <1>4, DistributeEffect DEF swapOf
  <2>2. SUFFICES ASSUME Acting(c)', swap'[c] # "unmute" PROVE Pending(c)'
    BY DEF Caught, Comparing
  <2>3. ~done[c] /\ (~muted[c] \/ Signalled(c, "unmute"))
    BY <2>1, <2>2 DEF Acting, SignalOrder
  <2>4. PICK l : l = End(c)
    OBVIOUS
  <2>5. queue'[c] = Append(queue[c], Note(out[c]))
    BY <2>1, <2>3
  <2>6. Note(out[c]).kind = "note"
    BY DEF Note
  <2>7. LiveNote(c, l)'
    BY <2>1, <2>3, <2>4, <2>5, <2>6, LiveAdded
  <2>8. l \in Places(c)'
    BY <2>4, <2>5, AddedAt
  <2> QED BY <2>7, <2>8 DEF Pending
<1>5. CASE RunReturns(c)
  BY <1>5, RunReturnsEffect DEF Caught, Acting
<1>6. ASSUME NEW k, Takes(c, k), k # "swap", UNCHANGED <<swap[c], inM[c]>>, Comparing(c), ~Comparing(c)' PROVE FALSE
  <2>1. /\ queue[c][1].kind = k
        /\ \A i \in Places(c) : i # 1 => i - 1 \in Places(c)' /\ queue'[c][i - 1] = queue[c][i]
    BY <1>6, Taken
  <2>2. Signalled(c, "swap") => Signalled(c, "swap")'
    BY <1>6, <2>1 DEF Signalled
  <2> QED BY <1>6, <2>2 DEF Comparing
<1>7. CASE DeliverSuppressed(c)
  <2>1. /\ Takes(c, "note") /\ Suppressing(c) /\ UNCHANGED <<out[c], muted[c], store[c]>> /\ consumer' = consumer
        /\ ~Same(suppress[c].obj, First(c).obj) => suppress'[c] = suppress[c]
    BY <1>7, DeliverSuppressedEffect
  <2>2. SUFFICES ASSUME ~Suppressing(c)', ~Pending(c)' PROVE Same(consumer, store[c])'
    BY DEF Caught
  <2>3. Same(suppress[c].obj, First(c).obj) /\ consumer = suppress[c].obj /\ ~muted[c]
    BY <2>1, <2>2 DEF Suppressing, SwapKnown, SignalOrder
  <2>4. First(c).obj = store[c]
    BY <2>1, <2>2, <2>3, LastTaken
  <2> QED BY <1>0, <2>1, <2>3, <2>4 DEF Same, Absent
<1>8. CASE DeliverMuted(c)
  <2>1. /\ Takes(c, "note") /\ muted[c] /\ UNCHANGED <<out[c], muted[c], store[c], suppress[c], done[c]>>
        /\ UNCHANGED <<swap[c], inM[c], passed[c]>> /\ consumer' = consumer
    BY <1>8, DeliverMutedEffect DEF swapOf
  <2>2. (Pending(c)' <=> Pending(c)) /\ (Acting(c)' <=> Acting(c)) /\ (Suppressing(c)' <=> Suppressing(c))
    BY <2>1, PendingTaken DEF Acting, Suppressing
  <2> QED BY <1>1, <1>6, <2>1, <2>2
<1>9. CASE DeliverLive(c)
  <2>1. /\ Takes(c, "note") /\ ~muted[c] /\ UNCHANGED <<out[c], muted[c], store[c]>> /\ consumer' = First(c).obj
    BY <1>9, DeliverLiveEffect
  <2>2. SUFFICES ASSUME ~Pending(c)' PROVE Same(consumer, store[c])'
    BY DEF Caught
  <2>3. consumer' = store'[c]
    BY <2>1, <2>2, LastTaken
  <2> QED BY <2>3 DEF Same
<1>10. CASE UnmuteArrives(c)
  <2>1. /\ Takes(c, "unmute") /\ ~muted'[c] /\ UNCHANGED <<out[c], store[c], suppress[c], done[c]>>
        /\ UNCHANGED <<swap[c], inM[c], passed[c]>> /\ consumer' = consumer
    BY <1>10, UnmuteArrivesEffect DEF swapOf
  <2>2. (Pending(c)' <=> Pending(c)) /\ (Acting(c)' <=> Acting(c)) /\ (Suppressing(c)' <=> Suppressing(c))
    BY <2>1, PendingTaken DEF Acting, Suppressing
  <2> QED BY <1>1, <1>6, <2>1, <2>2
<1>11. CASE SwapSkipped(c)
  <2>1. Takes(c, "swap") /\ Same(acted, store[c]) /\ UNCHANGED store[c] /\ consumer' = consumer
    BY <1>11, SwapSkippedEffect
  <2>2. Acting(c) /\ busy[c] = Idle
    BY <2>1, SwapTaken, Taken
  <2>3. \A d \in Copies : busy[d] = Idle
    BY <2>2, OneActs
  <2>4. acted = consumer
    BY <2>3 DEF CallKnown
  <2>5. Same(consumer, store[c])'
    BY <1>0, <2>1, <2>4 DEF Same, Absent
  <2> QED BY <2>5 DEF Caught
<1>12. CASE SwapDeliver(c)
  <2>1. consumer' = store'[c]
    BY <1>12, SwapDeliverEffect
  <2>2. Same(consumer, store[c])'
    BY <2>1 DEF Same
  <2> QED BY <2>2 DEF Caught
<1>13. CASE Record(c) \/ SwapRecord(c)
  <2>1. /\ UNCHANGED <<out[c], store[c], queue[c], muted[c], done[c]>>
        /\ UNCHANGED <<swap[c], inM[c], passed[c]>> /\ consumer' = consumer
    BY <1>13, RecordEffect, SwapRecordEffect DEF swapOf
  <2>2. Suppressing(c) => Suppressing(c)'
    <3>1. suppress'[c] = suppress[c] \/ suppress'[c] = Note(busy[c].obj)
      BY <1>13, RecordEffect, SwapRecordEffect
    <3>2. Note(busy[c].obj).kind = "note"
      BY DEF Note
    <3> QED BY <3>1, <3>2 DEF Suppressing
  <2>3. (Pending(c)' <=> Pending(c)) /\ (Acting(c)' <=> Acting(c)) /\ (Comparing(c)' <=> Comparing(c))
    BY <2>1 DEF Pending, Acting, Comparing, Places, LiveNote, IsNote, Signalled
  <2> QED BY <1>1, <2>1, <2>2, <2>3
<1>14. CASE Unmute(c)
  BY <1>14, UnmuteEffect DEF Caught, Comparing
<1>15. CASE ComputeM(c)
  <2>1. /\ swap[c] = "compute" /\ (inM'[c] <=> ~Same(store[c], acted)) /\ passed'[c] = passed[c]
        /\ UNCHANGED <<out[c], store[c], queue[c], busy[c], seen[c], muted[c], suppress[c], done[c]>> /\ consumer' = consumer
    BY <1>15, ComputeMEffect DEF copyState
  <2>2. SUFFICES ASSUME Acting(c)', ~inM'[c], ~Pending(c)' PROVE Same(consumer, store[c])'
    BY DEF Caught, Comparing
  <2>3. Acting(c) /\ Same(store[c], acted) /\ ~Pending(c)
    BY <2>1, <2>2 DEF Acting, Pending, Places, LiveNote, IsNote
  <2>4. SUFFICES Same(consumer, store[c])
    BY <1>0, <2>1 DEF Same, Absent
  <2>5. \A d \in Copies : d # c => busy[d] = Idle
    BY <2>3, OneActs
  <2>6. CASE busy[c] = Idle
    <3>1. acted = consumer
      BY <2>5, <2>6 DEF CallKnown
    <3> QED BY <2>3, <3>1, Sames
  <2>7. CASE busy[c] # Idle
    <3>1. busy[c].pc = "call" /\ consumer = busy[c].obj /\ ~muted[c]
      <4>1. busy[c].pc \in {"idle", "call", "swapCall"}
        BY DEF IInv, TypeOK, AdapterTypeOK
      <4> QED BY <2>1, <2>7, <4>1 DEF CallKnown, SignalOrder
    <3>2. out[c] = NoObject /\ \A i \in Places(c) : ~IsNote(c, i)
      BY <2>3, <3>1 DEF Pending, LiveNote
    <3>3. Same(Latest(c), store[c])
      BY <3>2 DEF TailIsStore
    <3> QED BY <3>1, <3>3 DEF Latest
  <2> QED BY <2>6, <2>7
<1>16. CASE DeliverM(c)
  <2>1. /\ swap[c] = "deliver" /\ swap'[c] = "off" /\ ~inM'[c]
        /\ UNCHANGED <<out[c], store[c], muted[c], suppress[c], done[c], passed[c]>> /\ consumer' = consumer
        /\ done[c] \/ ~inM[c] => queue'[c] = queue[c]
        /\ ~done[c] /\ inM[c] => queue'[c] = Append(queue[c], Signal("swap"))
    BY <1>16, DeliverMEffect
  <2>2. CASE done[c]
    BY <2>1, <2>2 DEF Caught, Acting
  <2>3. CASE ~done[c] /\ inM[c]
    <3>1. queue'[c] = Append(queue[c], Signal("swap"))
      BY <2>1, <2>3
    <3>5. Signal("swap").kind = "swap"
      BY BodyFacts
    <3>2. PICK l : l = End(c)
      OBVIOUS
    <3>3. l \in Places(c)' /\ queue'[c][l] = Signal("swap")
      BY <3>1, <3>2, AddedAt
    <3>4. Comparing(c)'
      BY <3>3, <3>5 DEF Comparing, Signalled
    <3> QED BY <3>4 DEF Caught
  <2>4. CASE ~done[c] /\ ~inM[c]
    <3>1. queue'[c] = queue[c]
      BY <2>1, <2>4
    <3>2. ~Signalled(c, "swap")
      BY <2>1 DEF SignalOrder
    <3>3. ~Comparing(c)
      BY <2>1, <2>4, <3>2 DEF Comparing
    <3>4. (Pending(c)' <=> Pending(c)) /\ (Acting(c)' <=> Acting(c)) /\ (Suppressing(c)' <=> Suppressing(c))
      BY <2>1, <3>1 DEF Pending, Acting, Suppressing, Places, LiveNote, IsNote
    <3> QED BY <1>1, <2>1, <3>3, <3>4
  <2> QED BY <2>2, <2>3, <2>4
<1> QED BY <1>2, <1>3, <1>4, <1>5, <1>7, <1>8, <1>9, <1>10, <1>11, <1>12, <1>13, <1>14, <1>15, <1>16 DEF OwnStep

\* A copy that was not behind tells the consumer of nothing older, step by step.
LEMMA ForwardStep ==
    ASSUME IInv, IInv', CallKnown, NEW c \in Copies, Known(c), Listed(c), TailIsStore(c),
           SignalOrder(c), SwapKnown(c), InOrder(c)', Forward(c), OwnStep(c)
    PROVE  Forward(c)'
<1>0. Idle.pc = "idle" /\ Signal("none").kind # "note"
  BY BodyFacts DEF Signal
<1>t. /\ consumer.ver \in Int /\ store[c].ver \in Int /\ out[c].ver \in Int
      /\ consumer'.ver \in Int /\ store'[c].ver \in Int /\ out'[c].ver \in Int
  <2>1. /\ consumer \in Bodies /\ store[c] \in Bodies /\ out[c] \in Bodies
        /\ consumer' \in Bodies /\ store'[c] \in Bodies /\ out'[c] \in Bodies
    BY DEF IInv, TypeOK, ObjectTypeOK, AdapterTypeOK
  <2> QED BY <2>1, BodyOrder
<1>q. (\A i \in Places(c) : queue[c][i].obj.ver \in Int) /\ (\A i \in Places(c)' : queue'[c][i].obj.ver \in Int)
  <2>1. \A i \in Places(c) : queue[c][i].obj.ver \in Int
    BY Queued, BodyOrder
  <2>2. queue'[c] \in Seq(Notes)
    BY DEF IInv, TypeOK, AdapterTypeOK
  <2>3. \A i \in 1..Len(queue'[c]) : queue'[c][i] \in Notes
    BY <2>2
  <2>4. \A n \in Notes : n.obj.ver \in Int
    BY BodyOrder DEF Notes
  <2> QED BY <2>1, <2>3, <2>4 DEF Places
\* The consumer is told of nothing, and the notifications are as they were.
<1>1. ASSUME consumer' = consumer, UNCHANGED <<store[c], out[c]>>,
             Acting(c)' => Acting(c), swap[c] # "unmute", ~behind'[c] => ~behind[c], ~blurred'[c] => ~blurred[c],
             ~Suppressing(c)' => ~Suppressing(c), busy[c].pc # "swapCall",
             \A i \in Places(c)' : LiveNote(c, i)' => \E j \in Places(c) : LiveNote(c, j) /\ queue'[c][i] = queue[c][j]
      PROVE  Forward(c)'
  <2>1. SUFFICES ASSUME Acting(c)', ~behind'[c], ~blurred'[c]
        PROVE  /\ consumer'.ver <= store'[c].ver
               /\ ~Suppressing(c)' => /\ out'[c] # NoObject => consumer'.ver <= out'[c].ver
                                      /\ \A i \in Places(c)' : LiveNote(c, i)' => consumer'.ver <= queue'[c][i].obj.ver
    BY DEF Forward
  <2>2. /\ consumer.ver <= store[c].ver
        /\ ~Suppressing(c) => /\ out[c] # NoObject => consumer.ver <= out[c].ver
                              /\ \A i \in Places(c) : LiveNote(c, i) => consumer.ver <= queue[c][i].obj.ver
    BY <1>1, <2>1 DEF Forward
  <2> QED BY <1>1, <2>2
\* The consumer was told of what the listener was last told of.
<1>2. ASSUME consumer'.ver <= store'[c].ver, ~Suppressing(c)' => consumer' = Latest(c)' PROVE Forward(c)'
  <2>1. ASSUME ~Suppressing(c)'
        PROVE  /\ out'[c] # NoObject => consumer'.ver <= out'[c].ver
               /\ \A i \in Places(c)' : IsNote(c, i)' => consumer'.ver <= queue'[c][i].obj.ver
    BY <1>2, <1>q, <1>t, <2>1 DEF InOrder
  <2> QED BY <1>2, <2>1 DEF Forward, LiveNote
<1>3. CASE Watch(c)
  <2>1. /\ pos[c] + 1 \in Versions /\ store'[c] = Body(pos[c] + 1) /\ out'[c] = store'[c]
        /\ UNCHANGED <<queue[c], busy[c], muted[c], suppress[c], done[c], blurred[c]>>
        /\ UNCHANGED <<swap[c], passed[c], behind[c]>> /\ consumer' = consumer /\ out[c] = NoObject
    BY <1>3, WatchEffect DEF swapOf
  <2>2. /\ Places(c)' = Places(c) /\ (Acting(c)' <=> Acting(c)) /\ (Suppressing(c)' <=> Suppressing(c))
        /\ \A i \in Places(c) : LiveNote(c, i)' <=> LiveNote(c, i)
    BY <2>1 DEF Places, Acting, Suppressing, LiveNote, IsNote
  <2>3. SUFFICES ASSUME Acting(c)', swap'[c] # "unmute", ~behind'[c], ~blurred'[c] PROVE Forward(c)'
    BY DEF Forward
  <2>4. consumer.ver <= store[c].ver
    BY <2>1, <2>2, <2>3 DEF Forward
  <2>5. store[c].ver <= store'[c].ver
    <3>1. pos[c] \in Int /\ store[c].ver = pos[c] /\ store'[c].ver = pos[c] + 1
      BY <1>3, <2>1, WatchEffect, BodyOrder DEF Known, IInv, TypeOK, ObjectTypeOK
    <3> QED BY <3>1
  <2> QED BY <1>t, <2>1, <2>2, <2>3, <2>4, <2>5 DEF Forward
<1>4. ASSUME NEW v \in Versions, List(c, v) PROVE Forward(c)'
  <2>1. pos[c] = -1 /\ UNCHANGED <<done[c], passed[c]>>
    BY <1>4, ListEffect DEF swapOf
  <2>2. ~Acting(c)'
    BY <2>1 DEF Listed, Acting
  <2> QED BY <2>2 DEF Forward
<1>5. CASE RunReturns(c)
  BY <1>5, RunReturnsEffect DEF Forward, Acting
<1>6. CASE Distribute(c)
  <2>1. /\ out[c] # NoObject /\ out'[c] = NoObject /\ UNCHANGED <<store[c], busy[c], muted[c], suppress[c], done[c], blurred[c]>>
        /\ UNCHANGED <<swap[c], passed[c], behind[c]>> /\ consumer' = consumer
        /\ ~done[c] => queue'[c] = Append(queue[c], Note(out[c]))
    BY <1>6, DistributeEffect DEF swapOf
  <2>2. (Acting(c)' <=> Acting(c)) /\ (Suppressing(c)' <=> Suppressing(c))
    BY <2>1 DEF Acting, Suppressing
  <2>3. SUFFICES ASSUME Acting(c)', swap'[c] # "unmute", ~behind'[c], ~blurred'[c],
                        ~Suppressing(c)', busy'[c].pc # "swapCall", NEW i \in Places(c)', LiveNote(c, i)'
                 PROVE  consumer'.ver <= queue'[c][i].obj.ver
    BY <2>1, <2>2 DEF Forward
  <2>4. /\ consumer.ver <= out[c].ver
        /\ \A j \in Places(c) : LiveNote(c, j) => consumer.ver <= queue[c][j].obj.ver
    BY <2>1, <2>2, <2>3 DEF Forward
  <2>5. queue'[c] = Append(queue[c], Note(out[c]))
    BY <2>1, <2>2, <2>3 DEF Acting
  <2>6. PICK l : l = End(c)
    OBVIOUS
  <2>7. (i \in Places(c) \/ i = l) /\ (\A j \in Places(c) : queue'[c][j] = queue[c][j])
    BY <2>5, <2>6, AddedAt
  <2>8. queue'[c][l] = Note(out[c])
    BY <2>5, <2>6, AddedAt
  <2>9. \A j \in Places(c) : LiveNote(c, j)' <=> LiveNote(c, j)
    BY <2>1, <2>5, <2>6, LiveAdded
  <2>10. Note(out[c]).obj = out[c]
    BY DEF Note
  <2>11. CASE i \in Places(c)
    BY <2>1, <2>3, <2>4, <2>7, <2>9, <2>11
  <2>12. CASE i = l
    BY <2>1, <2>4, <2>8, <2>10, <2>12
  <2> QED BY <2>7, <2>11, <2>12
<1>7. ASSUME NEW k \in {"note", "unmute", "swap"}, Takes(c, k),
             k = "unmute" => ~muted'[c],
             k # "unmute" => muted'[c] = muted[c]
      PROVE  \A i \in Places(c)' : LiveNote(c, i)' => \E j \in Places(c) : LiveNote(c, j) /\ queue'[c][i] = queue[c][j]
  <2>1. \A i \in Places(c)' : i + 1 \in Places(c) /\ queue'[c][i] = queue[c][i + 1]
    BY <1>7, Taken
  <2>2. \A i \in Places(c)' : LiveNote(c, i)' <=> LiveNote(c, i + 1)
    BY <1>7, LiveTaken
  <2> QED BY <2>1, <2>2
<1>8. CASE DeliverMuted(c) \/ UnmuteArrives(c) \/ SwapSkipped(c)
  <2>1. PICK k \in {"note", "unmute", "swap"} :
           /\ Takes(c, k) /\ (k = "unmute" => ~muted'[c]) /\ (k # "unmute" => muted'[c] = muted[c])
    BY <1>8, DeliverMutedEffect, UnmuteArrivesEffect, SwapSkippedEffect
  <2>2. /\ UNCHANGED <<store[c], out[c], suppress[c], done[c], blurred[c]>>
        /\ UNCHANGED <<swap[c], passed[c], behind[c]>> /\ consumer' = consumer
    BY <1>8, DeliverMutedEffect, UnmuteArrivesEffect, SwapSkippedEffect DEF swapOf
  <2>3. busy[c].pc # "swapCall" /\ (Acting(c)' <=> Acting(c)) /\ (Suppressing(c)' <=> Suppressing(c))
    BY <1>0, <2>1, <2>2, Taken DEF Acting, Suppressing
  <2>4. CASE swap[c] = "unmute"
    BY <2>2, <2>4 DEF Forward
  <2>5. CASE swap[c] # "unmute"
    BY <1>1, <1>7, <2>1, <2>2, <2>3, <2>5
  <2> QED BY <2>4, <2>5
<1>9. CASE DeliverSuppressed(c)
  <2>1. /\ Takes(c, "note") /\ Suppressing(c) /\ seen'[c] = First(c).obj
        /\ UNCHANGED <<store[c], busy[c], done[c]>> /\ UNCHANGED <<swap[c], passed[c], behind[c]>> /\ consumer' = consumer
        /\ ~blurred'[c] => ~blurred[c]
    BY <1>9, DeliverSuppressedEffect DEF swapOf
  <2>2. SUFFICES ASSUME Acting(c)', swap'[c] # "unmute", ~behind'[c], ~blurred'[c] PROVE Forward(c)'
    BY DEF Forward
  <2>3. consumer'.ver <= store'[c].ver
    BY <2>1, <2>2 DEF Forward, Acting
  <2>4. ASSUME ~Suppressing(c)' PROVE consumer' = Latest(c)'
    <3>1. First(c).obj = suppress[c].obj
      BY <1>9, <2>1, <2>2, <2>4, DeliverSuppressedEffect DEF Suppressing
    <3>2. consumer = suppress[c].obj
      BY <2>1 DEF SwapKnown
    <3>3. Latest(c)' = First(c).obj
      BY <1>0, <2>1, Taken DEF Latest
    <3> QED BY <2>1, <3>1, <3>2, <3>3
  <2> QED BY <1>2, <2>3, <2>4
<1>10. CASE DeliverLive(c)
  <2>1. consumer' = Latest(c)'
    BY <1>10, DeliverLiveEffect DEF Latest
  <2>2. consumer'.ver <= store'[c].ver
    BY <2>1 DEF InOrder
  <2> QED BY <1>2, <2>1, <2>2
<1>11. CASE SwapDeliver(c)
  <2>1. consumer' = store'[c] /\ busy'[c].pc = "swapCall"
    BY <1>11, SwapDeliverEffect
  <2> QED BY <1>t, <2>1 DEF Forward
<1>12. CASE Record(c)
  <2>1. /\ UNCHANGED <<store[c], out[c], queue[c], muted[c], suppress[c], done[c], blurred[c]>>
        /\ UNCHANGED <<swap[c], passed[c], behind[c]>> /\ consumer' = consumer /\ busy[c].pc # "swapCall"
    BY <1>12, RecordEffect DEF swapOf
  <2>2. /\ Places(c)' = Places(c) /\ (Acting(c)' <=> Acting(c)) /\ (Suppressing(c)' <=> Suppressing(c))
        /\ \A i \in Places(c) : LiveNote(c, i)' <=> LiveNote(c, i)
    BY <2>1 DEF Places, Acting, Suppressing, LiveNote, IsNote
  <2> QED BY <2>1, <2>2 DEF Forward
<1>13. CASE SwapRecord(c)
  <2>1. /\ UNCHANGED <<store[c], seen[c], done[c]>> /\ busy'[c] = Idle /\ busy[c].pc = "swapCall"
        /\ UNCHANGED <<swap[c], passed[c], behind[c]>> /\ consumer' = consumer
        /\ ~blurred'[c] => ~blurred[c]
        /\ Same(seen[c], busy[c].obj) /\ ~blurred'[c] => seen[c] = busy[c].obj
        /\ ~Same(seen[c], busy[c].obj) => suppress'[c] = Note(busy[c].obj)
    BY <1>13, SwapRecordEffect DEF swapOf
  <2>2. SUFFICES ASSUME Acting(c)', swap'[c] # "unmute", ~behind'[c], ~blurred'[c] PROVE Forward(c)'
    BY DEF Forward
  <2>3. consumer'.ver <= store'[c].ver
    BY <2>1, <2>2 DEF Forward, Acting
  <2>4. ASSUME ~Suppressing(c)' PROVE consumer' = Latest(c)'
    <3>0. Note(busy[c].obj).kind = "note"
      BY DEF Note
    <3>1. seen[c] = busy[c].obj
      BY <2>1, <2>2, <2>4, <3>0 DEF Suppressing
    <3>2. consumer = busy[c].obj
      BY <1>0, <2>1 DEF CallKnown
    <3>3. Latest(c)' = seen[c]
      BY <1>0, <2>1 DEF Latest
    <3> QED BY <2>1, <3>1, <3>2, <3>3
  <2> QED BY <1>2, <2>3, <2>4
<1>14. CASE Unmute(c)
  <2>1. /\ swap[c] = "unmute" /\ UNCHANGED <<store[c], out[c], muted[c], done[c]>> /\ consumer' = consumer
        /\ ~done[c] => queue'[c] = Append(queue[c], Signal("unmute"))
        /\ ~behind'[c] => done[c] \/ ~(store[c].ver < consumer.ver)
    BY <1>14, UnmuteEffect
  <2>2. SUFFICES ASSUME ~done[c], ~behind'[c] PROVE Forward(c)'
    BY <2>1 DEF Forward, Acting
  <2>3. consumer'.ver <= store'[c].ver
    BY <1>t, <2>1, <2>2
  <2>4. out'[c] # NoObject => consumer'.ver <= out'[c].ver
    BY <2>1, <2>3 DEF TailIsStore
  <2>5. \A i \in Places(c)' : ~LiveNote(c, i)'
    <3>1. PICK l : l = End(c)
      OBVIOUS
    <3>2. queue'[c] = Append(queue[c], Signal("unmute"))
      BY <2>1, <2>2
    <3>3. \A i \in Places(c)' : i \in Places(c) \/ i = l
      BY <3>1, <3>2, AddedAt
    <3>4. Signal("unmute").kind # "note"
      BY BodyFacts
    <3>5. ~LiveNote(c, l)' /\ \A i \in Places(c) : LiveNote(c, i)' <=> LiveNote(c, i)
      BY <2>1, <3>1, <3>2, <3>4, LiveAdded
    <3>6. \A i \in Places(c) : ~LiveNote(c, i)
      BY <2>1 DEF LiveNote, SignalOrder, Signalled
    <3> QED BY <3>3, <3>5, <3>6
  <2> QED BY <2>3, <2>4, <2>5 DEF Forward
<1>15. CASE ComputeM(c) \/ DeliverM(c)
  <2>1. /\ swap[c] \in {"compute", "deliver"} /\ UNCHANGED <<store[c], out[c], muted[c], suppress[c], done[c], blurred[c]>>
        /\ UNCHANGED <<passed[c], behind[c]>> /\ consumer' = consumer
        /\ queue'[c] = queue[c] \/ queue'[c] = Append(queue[c], Signal("swap"))
    BY <1>15, ComputeMEffect, DeliverMEffect DEF copyState
  <2>2. (Acting(c)' <=> Acting(c)) /\ (Suppressing(c)' <=> Suppressing(c)) /\ busy[c].pc # "swapCall"
    BY <2>1 DEF Acting, Suppressing, SignalOrder
  <2>3. \A i \in Places(c)' : LiveNote(c, i)' => \E j \in Places(c) : LiveNote(c, j) /\ queue'[c][i] = queue[c][j]
    <3>1. CASE queue'[c] = queue[c]
      BY <2>1, <3>1 DEF Places, LiveNote, IsNote
    <3>2. CASE queue'[c] = Append(queue[c], Signal("swap"))
      <4>1. PICK l : l = End(c)
        OBVIOUS
      <4>2. \A i \in Places(c)' : i \in Places(c) \/ i = l
        BY <3>2, <4>1, AddedAt
      <4>3. \A i \in Places(c) : queue'[c][i] = queue[c][i]
        BY <3>2, <4>1, AddedAt
      <4>4. Signal("swap").kind # "note"
        BY BodyFacts
      <4>5. ~LiveNote(c, l)' /\ \A i \in Places(c) : LiveNote(c, i)' <=> LiveNote(c, i)
        BY <2>1, <3>2, <4>1, <4>4, LiveAdded
      <4> QED BY <4>2, <4>3, <4>5
    <3> QED BY <2>1, <3>1, <3>2
  <2>4. swap[c] # "unmute"
    BY <2>1
  <2> QED BY <1>1, <2>1, <2>2, <2>3, <2>4
<1> QED BY <1>3, <1>4, <1>5, <1>6, <1>8, <1>9, <1>10, <1>11, <1>12, <1>13, <1>14, <1>15 DEF OwnStep

----------------------------------------------------------------------------
\* The registered copy has delivered the object; the others have nothing.
LEMMA DeliveryInit ==
    ASSUME Init
    PROVE  DInv
<1> USE CopyFacts
<1>1. IInv /\ Idle.pc = "idle" /\ NoObject.ver = -1
  BY InitInv, BodyFacts, BodyOrder
<1>2. Body(0).ver = 0 /\ Body(0) # NoObject
  BY BodyOrder, ConstantsAssumption DEF Versions
<1>3. LiveRuns /\ DoneStopped /\ CallKnown
  BY <1>1 DEF Init, LiveRuns, DoneStopped, CallKnown, Acting
<1>4. ASSUME NEW c \in Copies
      PROVE  /\ Known(c) /\ Listed(c) /\ TailIsStore(c) /\ InOrder(c) /\ SignalOrder(c)
             /\ SwapKnown(c) /\ Caught(c) /\ Forward(c)
  <2>1. /\ queue[c] = <<>> /\ out[c] = NoObject /\ busy[c] = Idle /\ suppress[c] = Signal("none")
        /\ swap[c] = "off" /\ ~inM[c] /\ ~done[c] /\ ~passed[c] /\ seen[c] = store[c]
        /\ c = 0 => pos[c] = 0 /\ store[c] = Body(0) /\ ~muted[c] /\ consumer = store[c]
        /\ c # 0 => pos[c] = -1 /\ store[c] = NoObject /\ muted[c]
    BY DEF Init
  <2>2. Places(c) = {} /\ ~Suppressing(c) /\ Latest(c) = store[c] /\ (Acting(c) <=> c = 0)
    BY <1>1, <2>1 DEF Places, Suppressing, Latest, Signal, Acting
  <2>3. Known(c) /\ Listed(c)
    BY <1>1, <1>2, <2>1, <2>2 DEF Known, Listed
  <2>4. TailIsStore(c) /\ Caught(c)
    BY <2>1, <2>2 DEF TailIsStore, Caught, Same
  <2>5. InOrder(c) /\ Forward(c)
    <3>1. store[c].ver \in Int
      BY <1>1, <1>2, <2>1
    <3> QED BY <2>1, <2>2, <3>1 DEF InOrder, Forward
  <2>6. SignalOrder(c) /\ SwapKnown(c)
    BY <1>1, <2>1, <2>2 DEF SignalOrder, SwapKnown, Signalled
  <2> QED BY <2>3, <2>4, <2>5, <2>6
<1> QED BY <1>3, <1>4 DEF DInv

\* Every step keeps the invariant of the delivery.
LEMMA DeliveryStep ==
    ASSUME IInv, DInv, Next
    PROVE  DInv'
<1>1. /\ LiveRuns /\ DoneStopped /\ CallKnown
      /\ \A c \in Copies : /\ Known(c) /\ Listed(c) /\ TailIsStore(c) /\ InOrder(c) /\ SignalOrder(c)
                           /\ SwapKnown(c) /\ Caught(c) /\ Forward(c)
  BY DEF DInv
<1>2. IInv'
  BY InvStep
<1>3. LiveRuns' /\ DoneStopped' /\ CallKnown'
  BY <1>1, LiveStep, DoneStep, CallStep
<1>4. \A c \in Copies : Known(c)' /\ Listed(c)'
  BY <1>1, KnownStep, ListedStep
<1>5. \A c \in Copies : TailIsStore(c)' /\ InOrder(c)' /\ SignalOrder(c)'
  BY <1>1, OrderStep, SignalStep
<1>6. ASSUME NEW c \in Copies, OwnStep(c) PROVE SwapKnown(c)' /\ Caught(c)' /\ Forward(c)'
  BY <1>1, <1>2, <1>5, <1>6, SwapStep, CaughtStep, ForwardStep
<1>7. ASSUME NEW c \in Copies, OwnStep(c), NEW d \in Copies, d # c PROVE SwapKnown(d)' /\ Caught(d)' /\ Forward(d)'
  <2>1. gone' = gone /\ UNCHANGED copyState(d) /\ UNCHANGED swapState(d) /\ swap'[d] = swap[d]
    BY <1>7, Elsewhere DEF Alone
  <2>2. consumer' = consumer \/ Acting(c)
    BY <1>1, <1>7, CallerActs
  <2>3. consumer' = consumer \/ (~Acting(d) /\ ~Suppressing(d))
    BY <1>1, <1>7, <2>2, OneActs DEF SignalOrder
  <2> QED BY <1>1, <2>1, <2>3, DeliveryKept
<1>8. ASSUME NEW d \in Copies, UNCHANGED <<gone, consumer>>, UNCHANGED copyState(d), ~Acting(d)' \/ swap'[d] = "unmute"
      PROVE  SwapKnown(d)' /\ Caught(d)' /\ Forward(d)'
  <2>1. SwapKnown(d)'
    BY <1>1, <1>8 DEF SwapKnown, copyState, Places, IsNote, Suppressing, Same, Absent
  <2> QED BY <1>8, <2>1 DEF Caught, Forward, Comparing
<1>9. ASSUME NEW d \in Copies, Quiet PROVE SwapKnown(d)' /\ Caught(d)' /\ Forward(d)'
  <2>1. CASE swap'[d] = swap[d]
    BY <1>1, <1>9, <2>1, DeliveryKept DEF Quiet
  <2>2. CASE swap'[d] # swap[d]
    <3>1. UNCHANGED <<gone, consumer>> /\ UNCHANGED copyState(d) /\ ~Acting(d)'
      BY <1>9, <2>2 DEF Quiet, Acting, swapState
    <3> QED BY <1>8, <3>1
  <2> QED BY <2>1, <2>2
<1>10. ASSUME NEW c \in Copies, NEW d \in Copies, Passes(c) PROVE SwapKnown(d)' /\ Caught(d)' /\ Forward(d)'
  <2>1. CASE d = c
    BY <1>8, <1>10, <2>1 DEF Passes
  <2>2. CASE d # c
    BY <1>1, <1>10, <2>2, DeliveryKept DEF Passes, swapState
  <2> QED BY <2>1, <2>2
<1>11. \A d \in Copies : SwapKnown(d)' /\ Caught(d)' /\ Forward(d)'
  BY <1>6, <1>7, <1>9, <1>10, Kinds
<1> QED BY <1>3, <1>4, <1>5, <1>11 DEF DInv

\* Stuttering keeps it.
LEMMA DeliveryStutter ==
    ASSUME DInv, UNCHANGED vars
    PROVE  DInv'
<1> USE DEF vars, objectVars, informerVars, adapterVars, runVars, swapVars, buildVars
<1>1. LiveRuns' /\ DoneStopped' /\ CallKnown'
  BY DEF DInv, LiveRuns, DoneStopped, CallKnown, Acting
<1>2. ASSUME NEW c \in Copies
      PROVE  /\ Known(c)' /\ Listed(c)' /\ TailIsStore(c)' /\ InOrder(c)' /\ SignalOrder(c)'
             /\ SwapKnown(c)' /\ Caught(c)' /\ Forward(c)'
  <2>1. gone' = gone /\ UNCHANGED copyState(c) /\ UNCHANGED swapState(c) /\ swap'[c] = swap[c] /\ consumer' = consumer
    BY DEF copyState, swapState
  <2>2. Known(c)' /\ TailIsStore(c)' /\ InOrder(c)'
    BY <2>1, CopyKept DEF DInv
  <2>3. SwapKnown(c)' /\ Caught(c)' /\ Forward(c)'
    BY <2>1, DeliveryKept DEF DInv
  <2>4. Listed(c)' /\ SignalOrder(c)'
    BY DEF DInv, Listed, Acting, SignalOrder, Places, Signalled, Suppressing
  <2> QED BY <2>2, <2>3, <2>4
<1> QED BY <1>1, <1>2 DEF DInv

\* IInv and DInv hold in every reachable state.
THEOREM DeliveryInvariance == Spec => [](IInv /\ DInv)
<1>1. Init => IInv /\ DInv
  BY InitInv, DeliveryInit
<1>2. IInv /\ DInv /\ [Next]_vars => (IInv /\ DInv)'
  BY InvStep, InvKept, DeliveryStep, DeliveryStutter
<1> QED BY <1>1, <1>2, PTL DEF Spec

\* No change is lost across any chain of swaps, superseded builds and teardowns:
\* when the live copy has nothing left to send, to take or to deliver, the
\* consumer was last told what its store holds (installBuild's steps 4 to 6,
\* swapDeliver, the suppression of S's own notification).
THEOREM ChangesReach == Spec => []NoChangeLost
<1>1. ASSUME IInv, DInv PROVE NoChangeLost
  <2>1. SUFFICES ASSUME live # NoCopy, Settled(live) PROVE Same(consumer, store[live])
    BY DEF NoChangeLost
  <2>2. live \in Copies
    BY <1>1, <2>1 DEF IInv, TypeOK, BuildTypeOK
  <2>3. Acting(live) /\ Places(live) = {} /\ out[live] = NoObject /\ swap[live] = "off"
    BY <1>1, <2>1, <2>2, Emptied DEF DInv, LiveRuns, Settled
  <2>4. ~Comparing(live) /\ ~Pending(live)
    BY <1>1, <2>2, <2>3 DEF DInv, SignalOrder, Comparing, Signalled, Pending
  <2>5. ~Suppressing(live)
    BY <1>1, <2>2, <2>3 DEF DInv, SwapKnown
  <2> QED BY <1>1, <2>2, <2>3, <2>4, <2>5 DEF DInv, Caught
<1> QED BY <1>1, DeliveryInvariance, PTL

\* The consumer steps back only where a copy was behind it when it was unmuted
\* (F8), or an absence was taken for an older one (P2).
THEOREM StepsBackKnown == Spec => NoStepBack
<1>1. ASSUME IInv, DInv, Next, consumer'.ver < consumer.ver
      PROVE  \E c \in Copies : busy[c] # busy'[c] /\ (behind[c] \/ blurred[c])
  <2>0. consumer.ver \in Int /\ consumer'.ver \in Int /\ Idle.pc = "idle"
    <3>1. consumer \in Bodies /\ consumer' \in Bodies
      BY <1>1, InvStep DEF IInv, TypeOK, AdapterTypeOK
    <3> QED BY <3>1, BodyOrder, BodyFacts
  <2>1. consumer' # consumer
    BY <1>1, <2>0
  <2>2. PICK c \in Copies : OwnStep(c)
    BY <1>1, <2>1, Kinds DEF Quiet, Passes
  <2>3. DeliverLive(c) \/ SwapDeliver(c)
    BY <2>1, <2>2 DEF OwnStep, Watch, Distribute, RunReturns, List, DeliverSuppressed, DeliverMuted,
       UnmuteArrives, SwapSkipped, Record, SwapRecord, Unmute, ComputeM, DeliverM, adapterVars
  <2>4. busy[c] = Idle /\ busy'[c].pc # "idle"
    BY <1>1, <2>3, DeliverLiveEffect, SwapDeliverEffect, Taken
  <2>5. Acting(c) /\ ~muted[c] /\ ~Suppressing(c)
    BY <1>1, <2>3, DeliverLiveEffect, SwapDeliverEffect, SwapTaken DEF IInv, CallersAct, Calls, DInv
  <2>6. swap[c] # "unmute"
    BY <1>1, <2>5 DEF DInv, SignalOrder
  <2>7. ASSUME ~behind[c], ~blurred[c] PROVE FALSE
    <3>1. /\ consumer.ver <= store[c].ver
          /\ \A i \in Places(c) : LiveNote(c, i) => consumer.ver <= queue[c][i].obj.ver
      BY <1>1, <2>0, <2>4, <2>5, <2>6, <2>7 DEF DInv, Forward
    <3>2. CASE SwapDeliver(c)
      <4>1. consumer' = store[c]
        BY <1>1, <3>2, SwapDeliverEffect
      <4>2. store[c].ver \in Int
        BY <2>0, <4>1
      <4> QED BY <1>1, <2>0, <3>1, <4>1, <4>2
    <3>3. CASE DeliverLive(c)
      <4>1. consumer' = First(c).obj /\ Takes(c, "note")
        BY <1>1, <3>3, DeliverLiveEffect
      <4>2. 1 \in Places(c) /\ First(c) = queue[c][1] /\ queue[c][1].kind = "note"
        BY <1>1, <4>1, Taken
      <4>3. LiveNote(c, 1)
        BY <2>5, <4>2 DEF LiveNote, IsNote
      <4>4. consumer.ver <= consumer'.ver
        BY <3>1, <4>1, <4>2, <4>3
      <4> QED BY <1>1, <2>0, <4>4
    <3> QED BY <2>3, <3>2, <3>3
  <2> QED BY <2>0, <2>4, <2>7
<1>2. IInv /\ DInv /\ [Next]_vars =>
        [consumer'.ver < consumer.ver => \E c \in Copies : busy[c] # busy'[c] /\ (behind[c] \/ blurred[c])]_vars
  BY <1>1
<1> QED BY <1>2, DeliveryInvariance, PTL DEF Spec, NoStepBack
=============================================================================
