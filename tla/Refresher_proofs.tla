-------------------------- MODULE Refresher_proofs --------------------------
(***************************************************************************)
(* Proofs about Refresher, for every set of keys, every pool and all bounds. *)
(***************************************************************************)
EXTENDS Refresher, FiniteSetTheorems, TLAPS

\* A worker that holds the claim on its key (claimInFlight to releaseInFlight).
Claiming == {"claimed", "begin", "resolving", "settle", "release"}

\* claimInFlight admits one refresh of a key at a time, over all tiers.
ClaimsOwned ==
    /\ \A w \in Workers : wk[w].pc \in Claiming => inFlight[wk[w].key] # "no"
    /\ \A w \in Workers, v \in Workers :
         wk[w].pc \in Claiming /\ wk[v].pc \in Claiming /\ wk[w].key = wk[v].key => w = v

\* What a worker's local state is at each of its steps.
WorkerShape ==
    \A w \in Workers :
        /\ wk[w].pc \in {"got", "claimed", "begin"} => ~wk[w].gone
        /\ wk[w].pc \in {"got", "claimed", "begin", "resolving"} => wk[w].out = "none"
        /\ wk[w].pc = "settle" => wk[w].out # "none"
        /\ mark[w].pc # "idle" => wk[w].pc = "settle"

\* A retry is within the budget of its tier.
RetryBudget ==
    \A w \in Workers : wk[w].pc = "settle" /\ wk[w].out = "retry"
                         => requeues[wk[w].tier][wk[w].key] < MaxRequeues

\* The worker a stamp in flight belongs to.
StampOwner ==
    \A k \in Keys : window[k].inflight =>
        \E w \in Workers : wk[w].key = k /\ wk[w].open /\ wk[w].pc \in {"resolving", "settle"}

\* A refresh that found a known-stale cell and has not replaced it can only end
\* by keeping it so or by removing it.
StaleKept ==
    \A w \in Workers :
        wk[w].pc \in {"begin", "resolving", "settle"} /\ Resident(wk[w].key) /\ KnownStale(wk[w].key)
            => wk[w].had /\ ~wk[w].gone /\ wk[w].out \notin {"fresh", "remarked", "evicted"}

\* The viewed copy of a promoted key is on its way until it is dequeued.
PromotedComing ==
    \A k \in Keys : promoted[k] = "pending" =>
        \/ arm[k] = "enqueue" \/ k \in pending["viewed"]
        \/ \E w \in Workers : wk[w].key = k /\ wk[w].pc = "got" /\ wk[w].tier = "viewed"

\* A dequeue of k that has not consumed its triggers is on its way.
Coming(k) ==
    \/ \E t \in Tiers : k \in pending[t] \cup delayed[t]
    \/ \E w \in Workers : wk[w].key = k /\ wk[w].pc \in {"got", "claimed"}
    \/ \E a \in Actors : mark[a].key = k /\ mark[a].pc \in {"window", "route"}
    \/ arm[k] = "enqueue"
    \/ inFlight[k] = "deferred"

TriggersComing == \A k \in triggers : Coming(k)

\* Worker w took k's triggers and its refresh is still about the resident body.
Carries(w, k) ==
    /\ wk[w].key = k /\ wk[w].pc \in {"begin", "resolving", "settle"}
    /\ wk[w].trig /\ wk[w].had /\ ~wk[w].gone
    /\ wk[w].pc = "begin" \/ ~wk[w].open \/ window[k].inflight
    /\ wk[w].out \in {"none", "retry", "declined", "dropped", "selfgone"}

\* A body that a change overtook has a flag, a trigger, or somebody who brings or
\* carries one.
Noticed(k) ==
    \/ KnownStale(k) \/ k \in unflagged \/ k \in triggers
    \/ \E a \in Actors : mark[a].key = k /\ mark[a].pc = "decide"
    \/ \E w \in Workers : Carries(w, k)

Overtaken(k) == Resident(k) /\ asOf[k] < ev[k]

StaleNoticed == \A k \in Keys : Overtaken(k) => Noticed(k)

IInv ==
    /\ TypeOK /\ ClaimsOwned /\ WorkerShape /\ RetryBudget /\ StampOwner /\ StaleKept
    /\ PromotedComing /\ TriggersComing /\ StaleNoticed /\ WorkerReserved /\ NoStrandedViewed

----------------------------------------------------------------------------
\* The names of the tiers and the records a worker and a mark start from.
LEMMA IdleFacts ==
    /\ AnyKey \in Keys /\ MaxSeq \in Nat /\ MaxMoves \in Nat /\ MaxRequeues \in Nat
    /\ IdleWorker \in WorkerStates
    /\ IdleMark \in [pc : {"idle", "decide", "window", "route"}, key : Keys]
    /\ IdleWorker.pc = "probe" /\ IdleMark.pc = "idle"
<1>1. AnyKey \in Keys
  BY ConstantsAssumption DEF AnyKey
<1>2. MaxSeq \in Nat /\ 0 \in 0..MaxSeq /\ MaxMoves \in Nat /\ MaxRequeues \in Nat
  BY ConstantsAssumption
<1> QED BY <1>1, <1>2 DEF IdleWorker, IdleMark, WorkerStates, Tiers

\* The pool is finite, and a worker is no other actor.
LEMMA PoolFacts ==
    /\ IsFiniteSet(Workers) /\ Parallelism \in Nat /\ Parallelism > 0
    /\ Workers \subseteq Actors /\ "bridge" \in Actors /\ "customer" \in Actors
    /\ "bridge" \notin Workers /\ "customer" \notin Workers
<1>1. IsFiniteSet(Workers) /\ Workers # {} /\ "bridge" \notin Workers /\ "customer" \notin Workers
  BY ConstantsAssumption
<1>2. Parallelism \in Nat /\ Parallelism # 0
  BY <1>1, FS_CardinalityType, FS_EmptySet DEF Parallelism
<1> QED BY <1>1, <1>2 DEF Actors

\* The steps, by name.
LEMMA Steps ==
    ASSUME Next
    PROVE  \/ \E k \in Keys :
                \/ InputEvent(k) \/ PromoteOnArm(k) \/ PromoteEnqueue(k)
                \/ Evict(k) \/ Arm(k) \/ Disarm(k) \/ EnqueueRefresh(k)
                \/ RevalidateInBackground(k)
           \/ \E k \in Keys : \E start \in 0..seq : CustomerPut(k, start)
           \/ \E t \in Tiers, k \in Keys : DelayExpires(t, k)
           \/ \E a \in Actors : MarkMerge(a) \/ MarkWindow(a) \/ MarkRoute(a)
           \/ \E w \in Workers, k \in Keys :
                TakeViewed(w, k) \/ TakeClusterList(w, k) \/ TakeNormal(w, k)
           \/ \E w \in Workers :
                \/ Block(w) \/ TakeWake(w) \/ CheckAndClaim(w) \/ SkipSuppressed(w)
                \/ Floor(w) \/ ConsumeTriggers(w) \/ BeginRefresh(w) \/ Accept(w)
                \/ NothingToReplace(w) \/ Decline(w) \/ Fail(w) \/ Settle(w)
                \/ Release(w) \/ Done(w)
  BY Zenon DEF Next, System, Environment, DirtyMark, Dequeue, Refresh

\* The moves of the environment are counted within their bound.
LEMMA MovesStep ==
    ASSUME CellTypeOK, Next
    PROVE  moves' \in 0..MaxMoves
<1>1. CASE moves' = moves
  BY <1>1 DEF CellTypeOK
<1>2. CASE moves < MaxMoves /\ moves' = moves + 1
  BY <1>2, IdleFacts DEF CellTypeOK
<1> QED BY <1>1, <1>2, Zenon DEF Next, Environment

\* The cells and the subscriptions keep their type.
LEMMA CellTypeStep ==
    ASSUME TypeOK, Next
    PROVE  CellTypeOK'
<1> USE IdleFacts
<1>0. moves' \in 0..MaxMoves
  BY MovesStep DEF TypeOK
<1>1. CASE \E k \in Keys : InputEvent(k)
  BY <1>0, <1>1 DEF InputEvent, cellVars, viewVars, TypeOK, CellTypeOK
<1>2. CASE \E k \in Keys : PromoteOnArm(k) \/ PromoteEnqueue(k) \/ Arm(k) \/ Disarm(k)
  BY <1>0, <1>2 DEF PromoteOnArm, PromoteEnqueue, Arm, Disarm, cellVars, viewVars, TypeOK, CellTypeOK
<1>3. CASE \E k \in Keys : Evict(k)
  BY <1>0, <1>3 DEF Evict, RemoveCell, viewVars, TypeOK, CellTypeOK
<1>4. CASE \E k \in Keys : \E start \in 0..seq : CustomerPut(k, start)
  BY <1>0, <1>4 DEF CustomerPut, StorePut, viewVars, TypeOK, CellTypeOK
<1>5. CASE \E w \in Workers : Accept(w)
  BY <1>0, <1>5 DEF Accept, StorePut, viewVars, TypeOK, CellTypeOK, WorkerTypeOK, WorkerStates
<1>6. CASE \E w \in Workers : Decline(w)
  BY <1>0, <1>6 DEF Decline, viewVars, TypeOK, CellTypeOK
<1>7. CASE \E w \in Workers : Settle(w)
  <2> PICK w \in Workers : Settle(w)
    BY <1>7
  <2>1. UNCHANGED <<seq, ev, subscribed, arm>>
    BY DEF Settle, viewVars
  <2>2. UNCHANGED <<asOf, suppressed>> \/ RemoveCell(wk[w].key)
    BY DEF Settle, cellVars
  <2>3. asOf' \in [Keys -> {NoCell} \cup 0..MaxSeq] /\ suppressed' \subseteq Keys
    BY <2>2 DEF RemoveCell, TypeOK, CellTypeOK
  <2> QED BY <1>0, <2>1, <2>3 DEF TypeOK, CellTypeOK
<1>8. CASE UNCHANGED <<seq, ev, asOf, suppressed, subscribed, arm>>
  BY <1>0, <1>8 DEF TypeOK, CellTypeOK
<1>9. CASE \/ \E k \in Keys : EnqueueRefresh(k) \/ RevalidateInBackground(k)
           \/ \E t \in Tiers, k \in Keys : DelayExpires(t, k)
           \/ \E a \in Actors : MarkMerge(a) \/ MarkWindow(a) \/ MarkRoute(a)
  BY <1>8, <1>9, Zenon DEF EnqueueRefresh, RevalidateInBackground, DelayExpires, MarkMerge, MarkWindow,
     MarkRoute, cellVars, viewVars
<1>10. CASE \/ \E w \in Workers, k \in Keys :
                 TakeViewed(w, k) \/ TakeClusterList(w, k) \/ TakeNormal(w, k)
            \/ \E w \in Workers : Block(w) \/ TakeWake(w) \/ CheckAndClaim(w)
  BY <1>8, <1>10, Zenon DEF TakeViewed, TakeClusterList, TakeNormal, Take, Block, TakeWake, CheckAndClaim,
     cellVars, viewVars
<1>11. CASE \E w \in Workers :
              \/ SkipSuppressed(w) \/ Floor(w) \/ ConsumeTriggers(w) \/ BeginRefresh(w)
              \/ NothingToReplace(w) \/ Fail(w) \/ Release(w) \/ Done(w)
  BY <1>8, <1>11, Zenon DEF SkipSuppressed, Floor, ConsumeTriggers, BeginRefresh, NothingToReplace, Fail,
     Release, Done, cellVars, viewVars
<1> QED BY <1>1, <1>2, <1>3, <1>4, <1>5, <1>6, <1>7, <1>9, <1>10, <1>11, Steps

\* A worker's step moves no other worker.
Only(w) == \A v \in Workers \ {w} : wk'[v] = wk[v]

\* Where each of a worker's steps takes it.
LEMMA TakeMoves ==
    ASSUME WorkerTypeOK, NEW w \in Workers, NEW k \in Keys, NEW t \in Tiers, Take(w, t, k)
    PROVE  /\ wk' \in [Workers -> WorkerStates] /\ Only(w)
           /\ wk'[w].pc = "got" /\ wk'[w].key = k /\ wk'[w].tier = t
           /\ ~wk'[w].gone /\ wk'[w].out = "none"
  BY IdleFacts DEF WorkerTypeOK, Only, Take, IdleWorker, WorkerStates

\* A Done and a wake end in a fresh probe.
LEMMA IdleMoves ==
    ASSUME WorkerTypeOK, NEW w \in Workers, Done(w) \/ Release(w) \/ TakeWake(w)
    PROVE  wk' \in [Workers -> WorkerStates] /\ Only(w) /\ wk'[w] = IdleWorker /\ wk'[w].pc = "probe"
  BY IdleFacts DEF WorkerTypeOK, Only, Done, Release, TakeWake, GiveBack

\* A dequeue with nothing left but its deferred calls.
LEMMA EndingMoves ==
    ASSUME WorkerTypeOK, NEW w \in Workers, SkipSuppressed(w) \/ Floor(w) \/ Settle(w)
    PROVE  /\ wk' \in [Workers -> WorkerStates] /\ Only(w)
           /\ wk'[w].pc = "release" /\ wk'[w].key = wk[w].key /\ wk'[w].tier = wk[w].tier
<1>1. wk' = [wk EXCEPT ![w] = Ending(w)]
  BY DEF SkipSuppressed, Floor, Settle
<1>2. Ending(w) \in WorkerStates
  BY IdleFacts DEF Ending, WorkerTypeOK, WorkerStates
<1>3. Ending(w).pc = "release" /\ Ending(w).key = wk[w].key /\ Ending(w).tier = wk[w].tier
  BY IdleFacts DEF Ending, WorkerTypeOK, WorkerStates, IdleWorker
<1> QED BY <1>1, <1>2, <1>3 DEF Only, WorkerTypeOK

\* The steps of a refresh keep its key and its tier.
Keeps(w) ==
    /\ wk' \in [Workers -> WorkerStates] /\ Only(w)
    /\ wk'[w].key = wk[w].key /\ wk'[w].tier = wk[w].tier

\* ... and most of them what the worker has noted.
KeepsNotes(w) ==
    /\ wk'[w].had = wk[w].had /\ wk'[w].trig = wk[w].trig /\ wk'[w].open = wk[w].open
    /\ wk'[w].start = wk[w].start /\ wk'[w].gone = wk[w].gone

\* The probe found nothing: the worker blocks.
LEMMA BlockMoves ==
    ASSUME WorkerTypeOK, NEW w \in Workers, Block(w)
    PROVE  Keeps(w) /\ wk'[w].pc = "blocked"
  BY DEF WorkerTypeOK, Block, Keeps, Only, WorkerStates

\* A dequeue is claimed, or has nothing left but its Done.
LEMMA ClaimMoves ==
    ASSUME WorkerTypeOK, NEW w \in Workers, CheckAndClaim(w)
    PROVE  /\ Keeps(w) /\ KeepsNotes(w) /\ wk'[w].out = wk[w].out
           /\ wk'[w].pc = IF ~Skips(wk[w].key, wk[w].tier) /\ inFlight[wk[w].key] = "no"
                          THEN "claimed" ELSE "done"
<1>1. wk[w] \in WorkerStates /\ wk \in [Workers -> WorkerStates]
  BY DEF WorkerTypeOK
<1>2. wk' = [wk EXCEPT ![w].pc =
               IF ~Skips(wk[w].key, wk[w].tier) /\ inFlight[wk[w].key] = "no" THEN "claimed" ELSE "done"]
  BY DEF CheckAndClaim
<1> QED BY <1>1, <1>2 DEF Keeps, KeepsNotes, Only, WorkerStates

\* The worker notes whether it found the cell and the triggers.
LEMMA ConsumeMoves ==
    ASSUME WorkerTypeOK, NEW w \in Workers, ConsumeTriggers(w)
    PROVE  /\ Keeps(w) /\ wk'[w].pc = "begin" /\ wk'[w].out = wk[w].out
           /\ wk'[w].gone = wk[w].gone
           /\ wk'[w].had = Resident(wk[w].key) /\ wk'[w].trig = (wk[w].key \in triggers)
<1>1. wk[w] \in WorkerStates /\ wk \in [Workers -> WorkerStates]
  BY DEF WorkerTypeOK
<1> DEFINE had == Resident(wk[w].key)
           trig == wk[w].key \in triggers
<1>2. wk' = [wk EXCEPT ![w].pc = "begin", ![w].had = had, ![w].trig = trig]
  BY DEF ConsumeTriggers
<1>3. had \in BOOLEAN /\ trig \in BOOLEAN
  BY DEF Resident
<1>4. SUFFICES /\ Keeps(w) /\ wk'[w].pc = "begin" /\ wk'[w].out = wk[w].out
               /\ wk'[w].gone = wk[w].gone /\ wk'[w].had = had /\ wk'[w].trig = trig
  OBVIOUS
<1> HIDE DEF had, trig
<1> QED BY <1>1, <1>2, <1>3 DEF Keeps, Only, WorkerStates

\* ... whether it found a window, and where its resolve begins.
LEMMA BeginMoves ==
    ASSUME CellTypeOK, WorkerTypeOK, NEW w \in Workers, BeginRefresh(w)
    PROVE  /\ Keeps(w) /\ wk'[w].pc = "resolving" /\ wk'[w].out = wk[w].out
           /\ wk'[w].gone = wk[w].gone /\ wk'[w].had = wk[w].had /\ wk'[w].trig = wk[w].trig
           /\ wk'[w].open = Open(wk[w].key) /\ wk'[w].start = seq
<1>1. wk[w] \in WorkerStates /\ wk \in [Workers -> WorkerStates] /\ seq \in 0..MaxSeq
  BY DEF WorkerTypeOK, CellTypeOK
<1>2. wk' = [wk EXCEPT ![w].pc = "resolving", ![w].open = Open(wk[w].key), ![w].start = seq]
  BY DEF BeginRefresh
<1> QED BY <1>1, <1>2 DEF Keeps, Only, WorkerStates, Open

\* What can come of a dispatch.
Outs == {"fresh", "remarked", "retry", "declined", "dropped", "evicted", "selfgone"}
Outcomes(w) ==
    /\ Accept(w) => wk'[w].out = IF Remarks(wk[w].key, wk[w].start) THEN "remarked" ELSE "fresh"
    /\ NothingToReplace(w) => wk'[w].out = "evicted"
    /\ Decline(w) => wk'[w].out = "declined"
    /\ Fail(w) => \/ wk'[w].out \in {"dropped", "selfgone"}
                  \/ wk'[w].out = "retry" /\ ~(requeues[wk[w].tier][wk[w].key] >= MaxRequeues)

\* A dispatch ends with one of its outcomes noted and nothing else.
LEMMA OutcomeMoves ==
    ASSUME WorkerTypeOK, NEW w \in Workers,
           Accept(w) \/ NothingToReplace(w) \/ Decline(w) \/ Fail(w)
    PROVE  /\ Keeps(w) /\ KeepsNotes(w) /\ wk'[w].pc = "settle" /\ Outcomes(w)
           /\ wk[w].pc = "resolving"
<1>1. wk[w] \in WorkerStates /\ wk \in [Workers -> WorkerStates]
  BY DEF WorkerTypeOK
<1>2. ASSUME NEW o \in Outs, wk' = [wk EXCEPT ![w].pc = "settle", ![w].out = o]
      PROVE  wk'[w].out = o /\ Keeps(w) /\ KeepsNotes(w) /\ wk'[w].pc = "settle"
  BY <1>1, <1>2 DEF Keeps, KeepsNotes, Only, WorkerStates, Outs
<1> DEFINE o == IF Remarks(wk[w].key, wk[w].start) THEN "remarked" ELSE "fresh"
<1>3. ASSUME Accept(w)
      PROVE  Keeps(w) /\ KeepsNotes(w) /\ wk'[w].pc = "settle" /\ wk'[w].out = o
  <2>1. o \in Outs /\ wk' = [wk EXCEPT ![w].pc = "settle", ![w].out = o]
    BY <1>3 DEF Accept, Outs
  <2> HIDE DEF o
  <2> QED BY <1>2, <2>1
<1>4. ASSUME NothingToReplace(w)
      PROVE  Keeps(w) /\ KeepsNotes(w) /\ wk'[w].pc = "settle" /\ wk'[w].out = "evicted"
  BY <1>2, <1>4 DEF NothingToReplace, Outs
<1>5. ASSUME Decline(w)
      PROVE  Keeps(w) /\ KeepsNotes(w) /\ wk'[w].pc = "settle" /\ wk'[w].out = "declined"
  BY <1>2, <1>5 DEF Decline, Outs
<1>6. ASSUME Fail(w)
      PROVE  /\ Keeps(w) /\ KeepsNotes(w) /\ wk'[w].pc = "settle"
             /\ \/ wk'[w].out \in {"dropped", "selfgone"}
                \/ wk'[w].out = "retry" /\ ~(requeues[wk[w].tier][wk[w].key] >= MaxRequeues)
  <2>1. PICK p \in {"dropped"} \cup IF requeues[wk[w].tier][wk[w].key] >= MaxRequeues
                                    THEN {"selfgone"} ELSE {"retry"} :
          wk' = [wk EXCEPT ![w].pc = "settle", ![w].out = p]
    BY <1>6, Zenon DEF Fail
  <2>2. p \in Outs
    BY <2>1 DEF Outs
  <2>3. wk'[w].out = p /\ Keeps(w) /\ KeepsNotes(w) /\ wk'[w].pc = "settle"
    BY <1>2, <2>1, <2>2
  <2> QED BY <2>1, <2>3
<1>7. wk[w].pc = "resolving"
  BY DEF Accept, NothingToReplace, Decline, Fail
<1> QED BY <1>3, <1>4, <1>5, <1>6, <1>7, Zenon DEF Outcomes

\* An eviction tells the workers that resolve the cell, and nobody else.
LEMMA EvictMoves ==
    ASSUME WorkerTypeOK, NEW k \in Keys, Evict(k)
    PROVE  /\ wk' \in [Workers -> WorkerStates]
           /\ \A w \in Workers :
                /\ wk'[w].pc = wk[w].pc /\ wk'[w].key = wk[w].key /\ wk'[w].tier = wk[w].tier
                /\ wk'[w].had = wk[w].had /\ wk'[w].trig = wk[w].trig /\ wk'[w].open = wk[w].open
                /\ wk'[w].out = wk[w].out /\ wk'[w].start = wk[w].start
                /\ wk[w].pc = "resolving" /\ wk[w].key = k => wk'[w].gone
                /\ wk[w].pc # "resolving" \/ wk[w].key # k => wk'[w] = wk[w]
<1>1. wk' = [w \in Workers |-> IF wk[w].pc = "resolving" /\ wk[w].key = k
                               THEN [wk[w] EXCEPT !.gone = TRUE] ELSE wk[w]]
  BY DEF Evict
<1>3. ASSUME NEW w \in Workers, wk[w].pc = "resolving" /\ wk[w].key = k
      PROVE  wk'[w] = [wk[w] EXCEPT !.gone = TRUE]
  BY <1>1, <1>3
<1>4. ASSUME NEW w \in Workers, ~(wk[w].pc = "resolving" /\ wk[w].key = k)
      PROVE  wk'[w] = wk[w]
  BY <1>1, <1>4
<1>5. ASSUME NEW w \in Workers PROVE wk[w] \in WorkerStates
  BY DEF WorkerTypeOK
<1>6. ASSUME NEW w \in Workers PROVE wk'[w] \in WorkerStates
  <2>1. [wk[w] EXCEPT !.gone = TRUE] \in WorkerStates
    BY <1>5 DEF WorkerStates
  <2> QED BY <2>1, <1>3, <1>4, <1>5
<1>2. wk' \in [Workers -> WorkerStates]
  BY <1>1, <1>6
<1> QED BY <1>2, <1>3, <1>4, <1>5 DEF WorkerStates

----------------------------------------------------------------------------
\* The operations on a stamp.
Windows == Stamps \cup {NoWindow}

\* What a stamp is made of.
LEMMA StampFacts ==
    /\ \A s \in Windows :
         /\ s.inflight \in BOOLEAN /\ s.next \in BOOLEAN /\ s.stale \in BOOLEAN
         /\ s = NoWindow \/ s.seq \in 0..MaxSeq
    /\ ~NoWindow.inflight /\ ~NoWindow.stale /\ NoWindow \in Windows
    /\ \A n \in 0..MaxSeq, st \in BOOLEAN :
         /\ AtRest(n, st) \in Windows /\ ~AtRest(n, st).inflight
         /\ AtRest(n, st).stale = st /\ AtRest(n, st) # NoWindow
<1>1. ASSUME NEW s \in Windows
      PROVE  /\ s.inflight \in BOOLEAN /\ s.next \in BOOLEAN /\ s.stale \in BOOLEAN
             /\ s = NoWindow \/ s.seq \in 0..MaxSeq
  <2>1. CASE s = NoWindow
    BY <2>1, Zenon DEF NoWindow
  <2>2. CASE s \in Stamps
    BY <2>2 DEF Stamps
  <2> QED BY <2>1, <2>2 DEF Windows
<1>2. ~NoWindow.inflight /\ ~NoWindow.stale /\ NoWindow \in Windows /\ NoWindow.seq = -1
  BY DEF Windows, NoWindow
<1>3. ASSUME NEW n \in 0..MaxSeq, NEW st \in BOOLEAN
      PROVE  /\ AtRest(n, st) \in Windows /\ ~AtRest(n, st).inflight
             /\ AtRest(n, st).stale = st /\ AtRest(n, st) # NoWindow
  <2>1. AtRest(n, st) \in Stamps /\ ~AtRest(n, st).inflight
    BY DEF Stamps, AtRest
  <2>2. AtRest(n, st).stale = st
    BY Zenon DEF AtRest
  <2>3. AtRest(n, st).seq = n
    BY DEF AtRest
  <2>4. AtRest(n, st) # NoWindow
    BY <1>2, <2>3, IdleFacts
  <2> QED BY <2>1, <2>2, <2>4 DEF Windows
<1> QED BY <1>1, <1>2, <1>3

\* markDirty opens a window and touches neither the refresh nor the flag.
LEMMA MarkedFacts ==
    ASSUME CellTypeOK, NEW s \in Windows
    PROVE  /\ Marked(s) \in Windows /\ Marked(s) # NoWindow
           /\ Marked(s).inflight <=> s.inflight
           /\ Marked(s).stale <=> s.stale
<1>0. seq \in 0..MaxSeq
  BY DEF CellTypeOK
<1>1. CASE s = NoWindow
  BY <1>0, <1>1, StampFacts DEF Marked
<1>2. CASE s # NoWindow
  <2> DEFINE next == s.next \/ s.inflight
  <2>1. Marked(s) = [s EXCEPT !.seq = seq, !.next = next]
    BY <1>2 DEF Marked
  <2>2. s \in Stamps /\ next \in BOOLEAN
    BY <1>2 DEF Windows, Stamps
  <2> HIDE DEF next
  <2>3. Marked(s) \in Stamps /\ Marked(s).seq = seq
    BY <1>0, <2>1, <2>2 DEF Stamps
  <2>4. (Marked(s).inflight <=> s.inflight) /\ (Marked(s).stale <=> s.stale)
    BY <2>1, <2>2 DEF Stamps
  <2>5. Marked(s) # NoWindow
    BY <1>0, <2>3, IdleFacts DEF NoWindow
  <2> QED BY <2>3, <2>4, <2>5 DEF Windows
<1> QED BY <1>1, <1>2

\* beginWindow puts an open window in flight.
LEMMA BegunFacts ==
    ASSUME NEW s \in Windows
    PROVE  /\ Begun(s) \in Windows
           /\ Begun(s).inflight <=> s # NoWindow
           /\ Begun(s).stale <=> s.stale
<1>1. CASE s = NoWindow
  BY <1>1, StampFacts DEF Begun
<1>2. CASE s # NoWindow
  BY <1>2 DEF Begun, Windows, Stamps
<1> QED BY <1>1, <1>2

\* settleWindow ends the flight, whatever the outcome; a retry keeps the flag, a
\* decline or a drop sets it.
LEMMA SettledFacts ==
    ASSUME NEW s \in Windows, NEW out \in Outs
    PROVE  /\ Settled(s, out) \in Windows
           /\ ~Settled(s, out).inflight
           /\ ~s.inflight => Settled(s, out) = s
           /\ out = "retry" => (Settled(s, out).stale <=> s.stale)
           /\ out \in {"declined", "dropped"} /\ s.inflight => Settled(s, out).stale
<1>1. CASE ~s.inflight
  BY <1>1 DEF Settled
<1>2. CASE s.inflight
  <2>1. s.seq \in 0..MaxSeq /\ s.stale \in BOOLEAN /\ TRUE \in BOOLEAN /\ FALSE \in BOOLEAN
    BY <1>2, StampFacts
  <2>2. CASE out = "remarked"
    BY <1>2, <2>1, <2>2, StampFacts DEF Settled
  <2>3. CASE out = "retry"
    BY <1>2, <2>1, <2>3, StampFacts DEF Settled
  <2>4. CASE out \in {"declined", "dropped"}
    BY <1>2, <2>1, <2>4, StampFacts DEF Settled
  <2>5. CASE out \in {"fresh", "evicted", "selfgone"}
    BY <1>2, <2>1, <2>5, StampFacts DEF Settled
  <2> QED BY <2>2, <2>3, <2>4, <2>5 DEF Outs
<1> QED BY <1>1, <1>2

\* endKnownStaleOnPut ends the flag and leaves the flight alone.
LEMMA AfterPutFacts ==
    ASSUME NEW s \in Windows, NEW start \in 0..MaxSeq
    PROVE  /\ AfterPut(s, start) \in Windows
           /\ ~AfterPut(s, start).stale
           /\ AfterPut(s, start).inflight <=> s.inflight
<1>1. CASE ~s.stale
  BY <1>1 DEF AfterPut
<1>2. CASE s.stale
  <2>1. s \in Stamps /\ s.seq \in 0..MaxSeq
    BY <1>2, StampFacts DEF Windows
  <2>2. CASE s.inflight
    BY <1>2, <2>1, <2>2 DEF AfterPut, Stamps, Windows
  <2>3. CASE ~s.inflight /\ start < s.seq
    BY <1>2, <2>1, <2>3, StampFacts DEF AfterPut
  <2>4. CASE ~s.inflight /\ ~(start < s.seq)
    BY <1>2, <2>1, <2>4, StampFacts DEF AfterPut
  <2> QED BY <2>2, <2>3, <2>4
<1> QED BY <1>1, <1>2

----------------------------------------------------------------------------
\* Types.

\* Who touches the marks: the marking actors, and those whose Put remarks.
LEMMA MarkFrame ==
    ASSUME \/ \E k \in Keys : PromoteOnArm(k) \/ PromoteEnqueue(k) \/ Evict(k) \/ Arm(k)
                              \/ Disarm(k) \/ EnqueueRefresh(k) \/ RevalidateInBackground(k)
           \/ \E t \in Tiers, k \in Keys : DelayExpires(t, k)
           \/ \E w \in Workers, k \in Keys :
                TakeViewed(w, k) \/ TakeClusterList(w, k) \/ TakeNormal(w, k)
           \/ \E w \in Workers :
                \/ Block(w) \/ TakeWake(w) \/ CheckAndClaim(w) \/ SkipSuppressed(w)
                \/ Floor(w) \/ ConsumeTriggers(w) \/ BeginRefresh(w)
                \/ NothingToReplace(w) \/ Decline(w) \/ Fail(w) \/ Settle(w)
                \/ Release(w) \/ Done(w)
    PROVE  mark' = mark
  BY Zenon DEF PromoteOnArm, PromoteEnqueue, Evict, Arm, Disarm, EnqueueRefresh, RevalidateInBackground,
     DelayExpires, TakeViewed, TakeClusterList, TakeNormal, Take, Block, TakeWake, CheckAndClaim,
     SkipSuppressed, Floor, ConsumeTriggers, BeginRefresh, NothingToReplace, Decline, Fail, Settle,
     Release, Done

\* Who leaves the workers where they are.
LEMMA WorkerFrame ==
    ASSUME \/ \E k \in Keys : InputEvent(k) \/ PromoteOnArm(k) \/ PromoteEnqueue(k) \/ Arm(k)
                              \/ Disarm(k) \/ EnqueueRefresh(k) \/ RevalidateInBackground(k)
           \/ \E k \in Keys : \E start \in 0..seq : CustomerPut(k, start)
           \/ \E t \in Tiers, k \in Keys : DelayExpires(t, k)
           \/ \E a \in Actors : MarkMerge(a) \/ MarkWindow(a) \/ MarkRoute(a)
    PROVE  wk' = wk
  BY Zenon DEF InputEvent, PromoteOnArm, PromoteEnqueue, Arm, Disarm, EnqueueRefresh,
     RevalidateInBackground, CustomerPut, DelayExpires, MarkMerge, MarkWindow, MarkRoute

Marks == [pc : {"idle", "decide", "window", "route"}, key : Keys]

\* The marks keep their type.
LEMMA MarkTypeStep ==
    ASSUME TypeOK, Next
    PROVE  mark' \in [Actors -> Marks]
<1> USE IdleFacts, PoolFacts
<1>0. mark \in [Actors -> Marks] /\ \A w \in Workers : wk[w].key \in Keys
  BY DEF TypeOK, WorkerTypeOK, Marks, WorkerStates
<1>1. CASE \E k \in Keys : InputEvent(k)
  BY <1>0, <1>1 DEF InputEvent, Marks
<1>2. CASE \E k \in Keys : \E start \in 0..seq : CustomerPut(k, start)
  BY <1>0, <1>2 DEF CustomerPut, Marks
<1>3. CASE \E a \in Actors : MarkMerge(a) \/ MarkWindow(a) \/ MarkRoute(a)
  BY <1>0, <1>3 DEF MarkMerge, MarkWindow, MarkRoute, Marks
<1>4. CASE \E w \in Workers : Accept(w)
  BY <1>0, <1>4 DEF Accept, Marks
<1>5. CASE mark' = mark
  BY <1>0, <1>5
<1> QED BY <1>1, <1>2, <1>3, <1>4, <1>5, Steps, MarkFrame, Zenon

\* The workers keep their type.
LEMMA WorkerTypeStep ==
    ASSUME TypeOK, Next
    PROVE  WorkerTypeOK'
<1>0. WorkerTypeOK /\ CellTypeOK
  BY DEF TypeOK
<1>1. CASE wk' = wk
  BY <1>0, <1>1, MarkTypeStep DEF WorkerTypeOK, Marks
<1>2. CASE wk' \in [Workers -> WorkerStates]
  BY <1>2, MarkTypeStep DEF WorkerTypeOK, Marks
<1>3. CASE \E k \in Keys : Evict(k)
  BY <1>0, <1>2, <1>3, EvictMoves
<1>4. CASE \E w \in Workers, k \in Keys :
             TakeViewed(w, k) \/ TakeClusterList(w, k) \/ TakeNormal(w, k)
  BY <1>0, <1>2, <1>4, TakeMoves DEF TakeViewed, TakeClusterList, TakeNormal, Tiers
<1>5. CASE \E w \in Workers : TakeWake(w) \/ Release(w) \/ Done(w)
  BY <1>0, <1>2, <1>5, IdleMoves
<1>6. CASE \E w \in Workers : SkipSuppressed(w) \/ Floor(w) \/ Settle(w)
  BY <1>0, <1>2, <1>6, EndingMoves
<1>7. CASE \E w \in Workers : Block(w) \/ CheckAndClaim(w) \/ ConsumeTriggers(w) \/ BeginRefresh(w)
  BY <1>0, <1>2, <1>7, BlockMoves, ClaimMoves, ConsumeMoves, BeginMoves DEF Keeps
<1>8. CASE \E w \in Workers : Accept(w) \/ NothingToReplace(w) \/ Decline(w) \/ Fail(w)
  BY <1>0, <1>2, <1>8, OutcomeMoves DEF Keeps
<1> QED BY <1>1, <1>3, <1>4, <1>5, <1>6, <1>7, <1>8, Steps, WorkerFrame, Zenon

\* Who leaves the windows alone.
LEMMA WindowFrame ==
    ASSUME \/ \E k \in Keys : InputEvent(k) \/ PromoteOnArm(k) \/ PromoteEnqueue(k) \/ Arm(k)
                              \/ Disarm(k) \/ EnqueueRefresh(k) \/ RevalidateInBackground(k)
           \/ \E t \in Tiers, k \in Keys : DelayExpires(t, k)
           \/ \E a \in Actors : MarkMerge(a) \/ MarkRoute(a)
           \/ \E w \in Workers, k \in Keys :
                TakeViewed(w, k) \/ TakeClusterList(w, k) \/ TakeNormal(w, k)
           \/ \E w \in Workers :
                \/ Block(w) \/ TakeWake(w) \/ CheckAndClaim(w) \/ Floor(w) \/ ConsumeTriggers(w)
                \/ NothingToReplace(w) \/ Decline(w) \/ Fail(w) \/ Release(w) \/ Done(w)
    PROVE  window' = window
  BY Zenon DEF InputEvent, PromoteOnArm, PromoteEnqueue, Arm, Disarm, EnqueueRefresh,
     RevalidateInBackground, DelayExpires, MarkMerge, MarkRoute, TakeViewed, TakeClusterList,
     TakeNormal, Take, Block, TakeWake, CheckAndClaim, Floor, ConsumeTriggers, NothingToReplace,
     Decline, Fail, Release, Done

\* What a step may make of a window: it is one operation on the stamp of one key.
LEMMA WindowMoves ==
    ASSUME TypeOK, WorkerShape
    PROVE  /\ \A k \in Keys : Evict(k) => window' = [window EXCEPT ![k] = NoWindow]
           /\ \A a \in Actors : MarkWindow(a) =>
                window' = [window EXCEPT ![mark[a].key] = Marked(window[mark[a].key])]
           /\ \A k \in Keys, start \in 0..seq : CustomerPut(k, start) =>
                window' = [window EXCEPT ![k] = AfterPut(window[k], start)]
           /\ \A w \in Workers :
                LET k == wk[w].key IN
                /\ SkipSuppressed(w) =>
                     window' = [window EXCEPT ![k] = Settled(Begun(window[k]), "declined")]
                /\ BeginRefresh(w) => window' = [window EXCEPT ![k] = Begun(window[k])]
                /\ Accept(w) => window' = [window EXCEPT ![k] = AfterPut(window[k], wk[w].start)]
                /\ Settle(w) =>
                     /\ wk[w].out \in Outs
                     /\ \/ wk[w].out = "selfgone" /\ window' = [window EXCEPT ![k] = NoWindow]
                        \/ ~wk[w].open /\ window' = window
                        \/ wk[w].open /\ window' = [window EXCEPT ![k] = Settled(window[k], wk[w].out)]
<1>1. ASSUME NEW w \in Workers, Settle(w) PROVE wk[w].out \in Outs
  BY <1>1 DEF Settle, TypeOK, WorkerTypeOK, WorkerStates, WorkerShape, Outs
<1> QED BY <1>1, Zenon DEF Evict, MarkWindow, CustomerPut, SkipSuppressed, BeginRefresh, Accept, Settle

\* The types the steps below need.
LEMMA TypeFacts ==
    ASSUME TypeOK
    PROVE  /\ CellTypeOK /\ QueueTypeOK /\ KeyTypeOK /\ WorkerTypeOK
           /\ window \in [Keys -> Windows]
           /\ \A w \in Workers :
                /\ wk[w].key \in Keys /\ wk[w].start \in 0..MaxSeq /\ wk[w].tier \in Tiers
           /\ \A a \in Actors : mark[a].key \in Keys
           /\ 0..seq \subseteq 0..MaxSeq
<1>1. CellTypeOK /\ QueueTypeOK /\ KeyTypeOK /\ WorkerTypeOK
  BY DEF TypeOK
<1>2. window \in [Keys -> Windows]
  BY <1>1 DEF KeyTypeOK, Windows
<1>3. ASSUME NEW w \in Workers
      PROVE  wk[w].key \in Keys /\ wk[w].start \in 0..MaxSeq /\ wk[w].tier \in Tiers
  BY <1>1 DEF WorkerTypeOK, WorkerStates
<1>4. ASSUME NEW a \in Actors PROVE mark[a].key \in Keys
  BY <1>1 DEF WorkerTypeOK
<1>5. 0..seq \subseteq 0..MaxSeq
  BY <1>1, IdleFacts DEF CellTypeOK
<1> QED BY <1>1, <1>2, <1>3, <1>4, <1>5

\* The windows keep their type: no seq of a stamp passes the bound.
LEMMA WindowTypeStep ==
    ASSUME TypeOK, WorkerShape, Next
    PROVE  window' \in [Keys -> Stamps \cup {NoWindow}]
<1> USE TypeFacts
<1>a. SUFFICES window' \in [Keys -> Windows]
  BY DEF Windows
<1>b. CASE \E k \in Keys, s \in Windows : window' = [window EXCEPT ![k] = s]
  BY <1>b
<1>1. CASE \E k \in Keys : Evict(k)
  BY <1>b, <1>1, WindowMoves, StampFacts
<1>2. CASE \E a \in Actors : MarkWindow(a)
  BY <1>b, <1>2, WindowMoves, MarkedFacts
<1>3. CASE \E k \in Keys : \E start \in 0..seq : CustomerPut(k, start)
  BY <1>b, <1>3, WindowMoves, AfterPutFacts
<1>4. CASE \E w \in Workers : SkipSuppressed(w)
  BY <1>b, <1>4, WindowMoves, BegunFacts, SettledFacts DEF Outs
<1>5. CASE \E w \in Workers : BeginRefresh(w)
  BY <1>b, <1>5, WindowMoves, BegunFacts
<1>6. CASE \E w \in Workers : Accept(w)
  BY <1>b, <1>6, WindowMoves, AfterPutFacts
<1>7. CASE \E w \in Workers : Settle(w)
  BY <1>b, <1>7, WindowMoves, SettledFacts, StampFacts
<1>8. CASE window' = window
  BY <1>8
<1> QED BY <1>1, <1>2, <1>3, <1>4, <1>5, <1>6, <1>7, <1>8, Steps, WindowFrame, Zenon

\* ... and with them all that is kept by key.
LEMMA KeyTypeStep ==
    ASSUME TypeOK, WorkerShape, Next
    PROVE  KeyTypeOK'
<1> USE TypeFacts
<1> DEFINE FlagTypes ==
             /\ triggers \subseteq Keys /\ unflagged \subseteq Keys
             /\ promoted \in [Keys -> {"no", "pending", "done"}]
             /\ inFlight \in [Keys -> {"no", "busy", "deferred"}]
             /\ bgSlot \in [Keys -> {"free", "held", "rerun"}]
<1>0. FlagTypes
  BY DEF KeyTypeOK
<1>a. SUFFICES FlagTypes'
  BY WindowTypeStep DEF KeyTypeOK
<1>1. CASE \E k \in Keys : PromoteOnArm(k)
  BY <1>0, <1>1 DEF PromoteOnArm
<1>2. CASE \E k \in Keys : Evict(k)
  BY <1>0, <1>2 DEF Evict, RemoveCell
<1>3. CASE \E k \in Keys : RevalidateInBackground(k)
  BY <1>0, <1>3 DEF RevalidateInBackground
<1>4. CASE \E k \in Keys : \E start \in 0..seq : CustomerPut(k, start)
  BY <1>0, <1>4 DEF CustomerPut, StorePut
<1>5. CASE \E a \in Actors : MarkMerge(a)
  BY <1>0, <1>5 DEF MarkMerge
<1>6. CASE \E w \in Workers : CheckAndClaim(w)
  <2> PICK w \in Workers : CheckAndClaim(w)
    BY <1>6
  <2>1. /\ UNCHANGED <<triggers, unflagged, bgSlot>>
        /\ inFlight' = inFlight \/ inFlight' = [inFlight EXCEPT ![wk[w].key] = Claimed(wk[w].key)]
        /\ \E p \in {"no", "done", promoted[wk[w].key]} : promoted' = [promoted EXCEPT ![wk[w].key] = p]
    BY DEF CheckAndClaim
  <2> QED BY <1>0, <2>1 DEF Claimed
<1>7. CASE \E w \in Workers : SkipSuppressed(w)
  BY <1>0, <1>7 DEF SkipSuppressed, Failed
<1>8. CASE \E w \in Workers : ConsumeTriggers(w)
  BY <1>0, <1>8 DEF ConsumeTriggers
<1>9. CASE \E w \in Workers : Accept(w)
  BY <1>0, <1>9 DEF Accept, StorePut
<1>10. CASE \E w \in Workers : Settle(w)
  BY <1>0, <1>10 DEF Settle, Failed, RemoveCell, Restored
<1>11. CASE \E w \in Workers : Release(w)
  BY <1>0, <1>11 DEF Release, SlotAfter
<1>12. CASE UNCHANGED <<triggers, unflagged, promoted, inFlight, bgSlot>>
  BY <1>0, <1>12
<1>13. CASE \/ \E k \in Keys : InputEvent(k) \/ PromoteEnqueue(k) \/ Arm(k) \/ Disarm(k) \/ EnqueueRefresh(k)
            \/ \E t \in Tiers, k \in Keys : DelayExpires(t, k)
            \/ \E a \in Actors : MarkWindow(a) \/ MarkRoute(a)
            \/ \E w \in Workers, k \in Keys :
                 TakeViewed(w, k) \/ TakeClusterList(w, k) \/ TakeNormal(w, k)
            \/ \E w \in Workers : \/ Block(w) \/ TakeWake(w) \/ Floor(w) \/ BeginRefresh(w)
                                  \/ NothingToReplace(w) \/ Decline(w) \/ Fail(w) \/ Done(w)
  BY <1>12, <1>13, Zenon DEF InputEvent, PromoteEnqueue, Arm, Disarm, EnqueueRefresh, DelayExpires,
     MarkWindow, MarkRoute, TakeViewed, TakeClusterList, TakeNormal, Take, Block, TakeWake, Floor,
     BeginRefresh, NothingToReplace, Decline, Fail, Done
<1> QED BY <1>1, <1>2, <1>3, <1>4, <1>5, <1>6, <1>7, <1>8, <1>9, <1>10, <1>11, <1>13, Steps, Zenon

\* The queues keep their type, the counter of retries within its budget.
LEMMA QueueTypeStep ==
    ASSUME TypeOK, RetryBudget, Next
    PROVE  /\ pending' \in [Tiers -> SUBSET Keys] /\ processing' \in [Tiers -> SUBSET Keys]
           /\ delayed' \in [Tiers -> SUBSET Keys]
           /\ requeues' \in [Tiers -> [Keys -> 0..MaxRequeues]]
           /\ wake' \in BOOLEAN /\ lastViewed' \in BOOLEAN
<1> USE TypeFacts, IdleFacts
<1> DEFINE QueueTypes ==
             /\ pending \in [Tiers -> SUBSET Keys] /\ processing \in [Tiers -> SUBSET Keys]
             /\ delayed \in [Tiers -> SUBSET Keys]
             /\ requeues \in [Tiers -> [Keys -> 0..MaxRequeues]]
             /\ wake \in BOOLEAN /\ lastViewed \in BOOLEAN
<1>0. QueueTypes
  BY DEF QueueTypeOK
<1>a. SUFFICES QueueTypes'
  OBVIOUS
<1>b. ASSUME NEW ts, NEW k \in Keys, Enqueue(ts, k)
      PROVE  pending' \in [Tiers -> SUBSET Keys] /\ wake' \in BOOLEAN
  BY <1>0, <1>b DEF Enqueue, WakeAfterAdd
<1>c. ASSUME NEW t \in Tiers, NEW k \in Keys, Forget(t, k)
      PROVE  requeues' \in [Tiers -> [Keys -> 0..MaxRequeues]]
  BY <1>0, <1>c DEF Forget
<1>1. CASE \E k \in Keys : PromoteEnqueue(k) \/ EnqueueRefresh(k) \/ RevalidateInBackground(k)
  BY <1>0, <1>1, <1>b DEF PromoteEnqueue, EnqueueRefresh, RevalidateInBackground
<1>2. CASE \E t \in Tiers, k \in Keys : DelayExpires(t, k)
  BY <1>0, <1>2, <1>b DEF DelayExpires
<1>3. CASE \E a \in Actors : MarkRoute(a)
  BY <1>0, <1>3, <1>b DEF MarkRoute
<1>4. CASE \E w \in Workers, k \in Keys :
             TakeViewed(w, k) \/ TakeClusterList(w, k) \/ TakeNormal(w, k)
  <2> PICK w \in Workers, t \in Tiers, k \in Keys : Take(w, t, k)
    BY <1>4, Zenon DEF TakeViewed, TakeClusterList, TakeNormal, Tiers
  <2> QED BY <1>0 DEF Take
<1>5. CASE \E w \in Workers : TakeWake(w)
  BY <1>0, <1>5 DEF TakeWake, SlotFree
<1>6. CASE \E w \in Workers : CheckAndClaim(w)
  BY <1>0, <1>6, <1>c DEF CheckAndClaim
<1>7. CASE \E w \in Workers : SkipSuppressed(w)
  BY <1>0, <1>7, <1>c DEF SkipSuppressed
<1>8. CASE \E w \in Workers : Floor(w)
  BY <1>0, <1>8, <1>c DEF Floor, Deferred
<1>9. CASE \E w \in Workers : Settle(w)
  <2> PICK w \in Workers : Settle(w)
    BY <1>9
  <2> DEFINE t == wk[w].tier
             k == wk[w].key
  <2>1. UNCHANGED <<pending, processing, wake, lastViewed>>
    BY DEF Settle
  <2>2. CASE wk[w].out # "retry"
    BY <1>0, <1>c, <2>1, <2>2 DEF Settle
  <2>3. CASE wk[w].out = "retry"
    <3>1. delayed' = Deferred(t, k) /\ requeues' = [requeues EXCEPT ![t][k] = requeues[t][k] + 1]
      BY <2>3 DEF Settle
    <3>2. requeues[t][k] < MaxRequeues /\ requeues[t][k] \in Nat
      BY <1>0, <2>3 DEF Settle, RetryBudget
    <3> QED BY <1>0, <2>1, <3>1, <3>2 DEF Deferred
  <2> QED BY <2>2, <2>3
<1>10. CASE \E w \in Workers : Release(w) \/ Done(w)
  <2> PICK w \in Workers : (\E adds : GiveBack(w, adds)) /\ UNCHANGED <<delayed, requeues, lastViewed>>
    BY <1>10, Zenon DEF Release, Done
  <2>1. pending' \in [Tiers -> SUBSET Keys] /\ processing' \in [Tiers -> SUBSET Keys]
    BY <1>0 DEF GiveBack
  <2>2. wake' \in BOOLEAN
    BY <1>0, Zenon DEF GiveBack
  <2> QED BY <1>0, <2>1, <2>2
<1>11. CASE UNCHANGED <<pending, processing, delayed, requeues, wake, lastViewed>>
  BY <1>0, <1>11
<1>12. CASE \/ \E k \in Keys : InputEvent(k) \/ PromoteOnArm(k) \/ Arm(k) \/ Disarm(k) \/ Evict(k)
            \/ \E k \in Keys : \E start \in 0..seq : CustomerPut(k, start)
            \/ \E a \in Actors : MarkMerge(a) \/ MarkWindow(a)
  BY <1>11, <1>12 DEF InputEvent, PromoteOnArm, Arm, Disarm, Evict, CustomerPut, MarkMerge, MarkWindow,
     queueVars
<1>13. CASE \E w \in Workers : Block(w) \/ ConsumeTriggers(w) \/ BeginRefresh(w) \/ Accept(w)
  BY <1>11, <1>13 DEF Block, ConsumeTriggers, BeginRefresh, Accept, queueVars
<1>14. CASE \E w \in Workers : NothingToReplace(w) \/ Decline(w) \/ Fail(w)
  BY <1>11, <1>14 DEF NothingToReplace, Decline, Fail, queueVars
<1> QED BY <1>1, <1>2, <1>3, <1>4, <1>5, <1>6, <1>7, <1>8, <1>9, <1>10, <1>12, <1>13, <1>14, Steps, Zenon

----------------------------------------------------------------------------
\* Claims, the shape of a worker's notes and the budget.

\* Who neither claims nor releases.
LEMMA ClaimFrame ==
    ASSUME \/ \E k \in Keys : \/ InputEvent(k) \/ PromoteOnArm(k) \/ PromoteEnqueue(k) \/ Arm(k)
                              \/ Disarm(k) \/ EnqueueRefresh(k) \/ RevalidateInBackground(k) \/ Evict(k)
           \/ \E k \in Keys : \E start \in 0..seq : CustomerPut(k, start)
           \/ \E t \in Tiers, k \in Keys : DelayExpires(t, k)
           \/ \E a \in Actors : MarkMerge(a) \/ MarkWindow(a) \/ MarkRoute(a)
           \/ \E w \in Workers, k \in Keys :
                TakeViewed(w, k) \/ TakeClusterList(w, k) \/ TakeNormal(w, k)
           \/ \E w \in Workers :
                \/ Block(w) \/ TakeWake(w) \/ SkipSuppressed(w) \/ Floor(w) \/ ConsumeTriggers(w)
                \/ BeginRefresh(w) \/ Accept(w) \/ NothingToReplace(w) \/ Decline(w) \/ Fail(w)
                \/ Settle(w) \/ Done(w)
    PROVE  inFlight' = inFlight
  BY Zenon DEF InputEvent, PromoteOnArm, PromoteEnqueue, Arm, Disarm, EnqueueRefresh,
     RevalidateInBackground, Evict, CustomerPut, DelayExpires, MarkMerge, MarkWindow, MarkRoute,
     TakeViewed, TakeClusterList, TakeNormal, Take, Block, TakeWake, SkipSuppressed, Floor,
     ConsumeTriggers, BeginRefresh, Accept, NothingToReplace, Decline, Fail, Settle, Done

\* The pc at which each step of a worker is taken.
LEMMA Guards ==
    ASSUME NEW w \in Workers
    PROVE  /\ \A k \in Keys : TakeViewed(w, k) \/ TakeClusterList(w, k) => wk[w].pc = "probe"
           /\ \A k \in Keys : TakeNormal(w, k) => wk[w].pc = "blocked"
           /\ Block(w) => wk[w].pc = "probe"
           /\ TakeWake(w) => wk[w].pc = "blocked"
           /\ CheckAndClaim(w) => wk[w].pc = "got"
           /\ SkipSuppressed(w) \/ Floor(w) \/ ConsumeTriggers(w) => wk[w].pc = "claimed"
           /\ BeginRefresh(w) => wk[w].pc = "begin"
           /\ Settle(w) => wk[w].pc = "settle" /\ mark[w].pc = "idle"
           /\ Release(w) => wk[w].pc = "release"
           /\ Done(w) => wk[w].pc = "done"
  BY Zenon DEF TakeViewed, TakeClusterList, TakeNormal, Block, TakeWake, CheckAndClaim, SkipSuppressed,
     Floor, ConsumeTriggers, BeginRefresh, Settle, Release, Done

\* Only CheckAndClaim enters a claim, on a key nobody claims, and Release leaves it.
LEMMA ClaimsStep ==
    ASSUME TypeOK, ClaimsOwned, Next
    PROVE  ClaimsOwned'
<1> USE TypeFacts, Guards
<1>a. ASSUME NEW w \in Workers, Only(w), inFlight' = inFlight,
             wk'[w].pc \in Claiming => wk[w].pc \in Claiming /\ wk'[w].key = wk[w].key
      PROVE  ClaimsOwned'
  <2>1. \A v \in Workers : wk'[v].pc \in Claiming => wk[v].pc \in Claiming /\ wk'[v].key = wk[v].key
    BY <1>a DEF Only
  <2> QED BY <1>a, <2>1 DEF ClaimsOwned
<1>1. CASE wk' = wk /\ inFlight' = inFlight
  BY <1>1 DEF ClaimsOwned
<1>2. CASE \E k \in Keys : Evict(k)
  BY <1>2, EvictMoves, ClaimFrame DEF ClaimsOwned
<1>3. CASE \E w \in Workers, k \in Keys :
             TakeViewed(w, k) \/ TakeClusterList(w, k) \/ TakeNormal(w, k)
  BY <1>3, <1>a, TakeMoves, ClaimFrame DEF TakeViewed, TakeClusterList, TakeNormal, Tiers, Claiming
<1>4. CASE \E w \in Workers : TakeWake(w) \/ Done(w)
  BY <1>4, <1>a, IdleMoves, ClaimFrame DEF Claiming
<1>5. CASE \E w \in Workers : SkipSuppressed(w) \/ Floor(w) \/ Settle(w)
  BY <1>5, <1>a, EndingMoves, ClaimFrame DEF Claiming
<1>6. CASE \E w \in Workers : Block(w)
  BY <1>6, <1>a, BlockMoves, ClaimFrame DEF Claiming, Keeps
<1>7. CASE \E w \in Workers : ConsumeTriggers(w)
  BY <1>7, <1>a, ConsumeMoves, ClaimFrame DEF Claiming, Keeps
<1>8. CASE \E w \in Workers : BeginRefresh(w)
  BY <1>8, <1>a, BeginMoves, ClaimFrame DEF Claiming, Keeps
<1>9. CASE \E w \in Workers : Accept(w) \/ NothingToReplace(w) \/ Decline(w) \/ Fail(w)
  BY <1>9, <1>a, OutcomeMoves, ClaimFrame DEF Claiming, Keeps
<1>10. CASE \E w \in Workers : CheckAndClaim(w)
  <2> PICK w \in Workers : CheckAndClaim(w)
    BY <1>10
  <2> DEFINE k == wk[w].key
  <2>1. /\ Only(w) /\ wk'[w].key = k
        /\ wk'[w].pc = IF ~Skips(k, wk[w].tier) /\ inFlight[k] = "no" THEN "claimed" ELSE "done"
    BY ClaimMoves DEF Keeps
  <2>2. inFlight' = inFlight \/ inFlight' = [inFlight EXCEPT ![k] = Claimed(k)]
    BY DEF CheckAndClaim
  <2>3. CASE Skips(k, wk[w].tier) \/ inFlight[k] # "no"
    <3>1. wk'[w].pc = "done" /\ \A j \in Keys : inFlight[j] # "no" => inFlight'[j] # "no"
      BY <2>1, <2>2, <2>3 DEF Claimed, KeyTypeOK
    <3> QED BY <2>1, <3>1 DEF ClaimsOwned, Only, Claiming
  <2>4. CASE ~Skips(k, wk[w].tier) /\ inFlight[k] = "no"
    <3>1. /\ inFlight'[k] # "no" /\ \A j \in Keys : inFlight[j] # "no" => inFlight'[j] # "no"
          /\ \A v \in Workers : wk[v].pc \in Claiming => wk[v].key # k
      BY <2>4 DEF CheckAndClaim, Claimed, KeyTypeOK, ClaimsOwned
    <3> QED BY <2>1, <3>1 DEF ClaimsOwned, Only
  <2> QED BY <2>3, <2>4
<1>11. CASE \E w \in Workers : Release(w)
  <2> PICK w \in Workers : Release(w)
    BY <1>11
  <2>1. Only(w) /\ wk'[w].pc = "probe" /\ wk[w].pc \in Claiming
    BY IdleMoves DEF Claiming
  <2>2. inFlight' = [inFlight EXCEPT ![wk[w].key] = "no"]
    BY DEF Release
  <2>3. \A v \in Workers : wk'[v].pc \in Claiming =>
          wk[v].pc \in Claiming /\ wk'[v].key = wk[v].key /\ wk[v].key # wk[w].key
    BY <2>1 DEF ClaimsOwned, Only, Claiming
  <2> QED BY <2>2, <2>3 DEF ClaimsOwned, KeyTypeOK
<1> QED BY <1>1, <1>2, <1>3, <1>4, <1>5, <1>6, <1>7, <1>8, <1>9, <1>10, <1>11,
           Steps, WorkerFrame, ClaimFrame, Zenon

\* The notes of a worker are those of its pc, and only a refresh in settle remarks.
LEMMA ShapeStep ==
    ASSUME TypeOK, WorkerShape, Next
    PROVE  WorkerShape'
<1> USE TypeFacts, Guards, PoolFacts
<1> DEFINE Shape(x, m) ==
             /\ x.pc \in {"got", "claimed", "begin"} => ~x.gone
             /\ x.pc \in {"got", "claimed", "begin", "resolving"} => x.out = "none"
             /\ x.pc = "settle" => x.out # "none"
             /\ m.pc # "idle" => x.pc = "settle"
<1>0. \A w \in Workers : Shape(wk[w], mark[w])
  BY DEF WorkerShape
<1>a. SUFFICES \A w \in Workers : Shape(wk'[w], mark'[w])
  BY DEF WorkerShape
<1>b. ASSUME NEW w \in Workers, Only(w), mark' = mark, Shape(wk'[w], mark[w])
      PROVE  \A v \in Workers : Shape(wk'[v], mark'[v])
  BY <1>0, <1>b DEF Only
<1>c. ASSUME wk' = wk, \A w \in Workers : mark[w].pc = "idle" => mark'[w].pc = "idle"
      PROVE  \A v \in Workers : Shape(wk'[v], mark'[v])
  BY <1>0, <1>c
<1>1. CASE wk' = wk /\ mark' = mark
  BY <1>0, <1>1
<1>2. CASE \E k \in Keys : InputEvent(k)
  BY <1>2, <1>c, WorkerFrame DEF InputEvent, WorkerTypeOK
<1>3. CASE \E k \in Keys : \E start \in 0..seq : CustomerPut(k, start)
  BY <1>3, <1>c, WorkerFrame DEF CustomerPut, WorkerTypeOK
<1>4. CASE \E a \in Actors : MarkMerge(a) \/ MarkWindow(a) \/ MarkRoute(a)
  BY <1>4, <1>c, WorkerFrame, IdleFacts DEF MarkMerge, MarkWindow, MarkRoute, WorkerTypeOK
<1>5. CASE \E k \in Keys : Evict(k)
  BY <1>0, <1>5, EvictMoves, MarkFrame
<1>6. CASE \E w \in Workers, k \in Keys :
             TakeViewed(w, k) \/ TakeClusterList(w, k) \/ TakeNormal(w, k)
  <2> PICK w \in Workers, k \in Keys : TakeViewed(w, k) \/ TakeClusterList(w, k) \/ TakeNormal(w, k)
    BY <1>6
  <2>1. mark[w].pc = "idle" /\ mark' = mark
    BY <1>0, MarkFrame
  <2>2. Only(w) /\ wk'[w].pc = "got" /\ ~wk'[w].gone /\ wk'[w].out = "none"
    BY TakeMoves DEF TakeViewed, TakeClusterList, TakeNormal, Tiers
  <2> QED BY <1>b, <2>1, <2>2
<1>7. CASE \E w \in Workers : TakeWake(w) \/ Release(w) \/ Done(w)
  <2> PICK w \in Workers : TakeWake(w) \/ Release(w) \/ Done(w)
    BY <1>7
  <2>1. mark[w].pc = "idle" /\ mark' = mark
    BY <1>0, MarkFrame
  <2>2. Only(w) /\ wk'[w].pc = "probe"
    BY IdleMoves
  <2> QED BY <1>b, <2>1, <2>2
<1>8. CASE \E w \in Workers : SkipSuppressed(w) \/ Floor(w) \/ Settle(w)
  <2> PICK w \in Workers : SkipSuppressed(w) \/ Floor(w) \/ Settle(w)
    BY <1>8
  <2>1. mark[w].pc = "idle" /\ mark' = mark
    BY <1>0, MarkFrame
  <2>2. Only(w) /\ wk'[w].pc = "release"
    BY EndingMoves
  <2> QED BY <1>b, <2>1, <2>2
<1>9. CASE \E w \in Workers : Block(w) \/ CheckAndClaim(w) \/ ConsumeTriggers(w) \/ BeginRefresh(w)
  <2> PICK w \in Workers : Block(w) \/ CheckAndClaim(w) \/ ConsumeTriggers(w) \/ BeginRefresh(w)
    BY <1>9
  <2>1. mark[w].pc = "idle" /\ mark' = mark
    BY <1>0, MarkFrame
  <2>2. /\ Only(w) /\ wk'[w].pc \in {"blocked", "claimed", "done", "begin", "resolving"}
        /\ \/ wk'[w].pc = "blocked"
           \/ /\ wk'[w].gone = wk[w].gone /\ wk'[w].out = wk[w].out
              /\ wk[w].pc \in {"got", "claimed", "begin"}
    BY BlockMoves, ClaimMoves, ConsumeMoves, BeginMoves DEF Keeps, KeepsNotes
  <2> QED BY <1>0, <1>b, <2>1, <2>2
<1>10. CASE \E w \in Workers : NothingToReplace(w) \/ Decline(w) \/ Fail(w)
  <2> PICK w \in Workers : NothingToReplace(w) \/ Decline(w) \/ Fail(w)
    BY <1>10
  <2>1. mark' = mark
    BY MarkFrame
  <2>2. Only(w) /\ wk'[w].pc = "settle" /\ wk'[w].out # "none"
    BY OutcomeMoves DEF Keeps, Outcomes
  <2> QED BY <1>b, <2>1, <2>2
<1>11. CASE \E w \in Workers : Accept(w)
  <2> PICK w \in Workers : Accept(w)
    BY <1>11
  <2>1. \A v \in Workers \ {w} : mark'[v] = mark[v]
    BY DEF Accept, WorkerTypeOK
  <2>2. Only(w) /\ wk'[w].pc = "settle" /\ wk'[w].out # "none"
    BY OutcomeMoves DEF Keeps, Outcomes
  <2> QED BY <1>0, <2>1, <2>2 DEF Only
<1> QED BY <1>1, <1>2, <1>3, <1>4, <1>5, <1>6, <1>7, <1>8, <1>9, <1>10, <1>11,
           Steps, WorkerFrame, MarkFrame, Zenon

\* Who leaves the retry counters alone.
LEMMA BudgetFrame ==
    ASSUME \/ \E k \in Keys : \/ InputEvent(k) \/ PromoteOnArm(k) \/ PromoteEnqueue(k) \/ Arm(k)
                              \/ Disarm(k) \/ EnqueueRefresh(k) \/ RevalidateInBackground(k) \/ Evict(k)
           \/ \E k \in Keys : \E start \in 0..seq : CustomerPut(k, start)
           \/ \E t \in Tiers, k \in Keys : DelayExpires(t, k)
           \/ \E a \in Actors : MarkMerge(a) \/ MarkWindow(a) \/ MarkRoute(a)
           \/ \E w \in Workers, k \in Keys :
                TakeViewed(w, k) \/ TakeClusterList(w, k) \/ TakeNormal(w, k)
           \/ \E w \in Workers :
                \/ Block(w) \/ TakeWake(w) \/ ConsumeTriggers(w) \/ BeginRefresh(w) \/ Accept(w)
                \/ NothingToReplace(w) \/ Decline(w) \/ Fail(w) \/ Release(w) \/ Done(w)
    PROVE  requeues' = requeues
  BY Zenon DEF InputEvent, PromoteOnArm, PromoteEnqueue, Arm, Disarm, EnqueueRefresh,
     RevalidateInBackground, Evict, CustomerPut, DelayExpires, MarkMerge, MarkWindow, MarkRoute,
     TakeViewed, TakeClusterList, TakeNormal, Take, Block, TakeWake, ConsumeTriggers, BeginRefresh,
     Accept, NothingToReplace, Decline, Fail, Release, Done, queueVars

\* Only the claim's holder raises the counter of its key, once per retry.
LEMMA BudgetStep ==
    ASSUME TypeOK, ClaimsOwned, RetryBudget, Next
    PROVE  RetryBudget'
<1> USE TypeFacts, Guards, IdleFacts
<1> DEFINE Retrying(x) == x.pc = "settle" /\ x.out = "retry"
<1>0. requeues \in [Tiers -> [Keys -> 0..MaxRequeues]]
  BY DEF QueueTypeOK
<1>a. ASSUME \A t \in Tiers, k \in Keys : requeues'[t][k] <= requeues[t][k],
             requeues' \in [Tiers -> [Keys -> Int]],
             \A w \in Workers : Retrying(wk'[w]) =>
               Retrying(wk[w]) /\ wk'[w].key = wk[w].key /\ wk'[w].tier = wk[w].tier
      PROVE  RetryBudget'
  BY <1>a, <1>0 DEF RetryBudget
<1>b. ASSUME NEW w \in Workers, requeues' = requeues, Only(w), ~Retrying(wk'[w])
      PROVE  RetryBudget'
  BY <1>b DEF RetryBudget, Only
<1>c. ASSUME NEW t \in Tiers, NEW k \in Keys, Forget(t, k)
      PROVE  /\ \A u \in Tiers, j \in Keys : requeues'[u][j] <= requeues[u][j]
             /\ requeues' \in [Tiers -> [Keys -> Int]]
  BY <1>c, <1>0 DEF Forget
<1>1. CASE wk' = wk /\ requeues' = requeues
  BY <1>1 DEF RetryBudget
<1>2. CASE \E k \in Keys : Evict(k)
  BY <1>2, EvictMoves, BudgetFrame DEF RetryBudget
<1>3. CASE \E w \in Workers, k \in Keys :
             TakeViewed(w, k) \/ TakeClusterList(w, k) \/ TakeNormal(w, k)
  BY <1>3, <1>b, TakeMoves, BudgetFrame DEF TakeViewed, TakeClusterList, TakeNormal, Tiers
<1>4. CASE \E w \in Workers : TakeWake(w) \/ Release(w) \/ Done(w)
  BY <1>4, <1>b, IdleMoves, BudgetFrame
<1>5. CASE \E w \in Workers : Block(w) \/ ConsumeTriggers(w) \/ BeginRefresh(w)
  BY <1>5, <1>b, BlockMoves, ConsumeMoves, BeginMoves, BudgetFrame DEF Keeps
<1>6. CASE \E w \in Workers : Accept(w) \/ NothingToReplace(w) \/ Decline(w) \/ Fail(w)
  <2> PICK w \in Workers : Accept(w) \/ NothingToReplace(w) \/ Decline(w) \/ Fail(w)
    BY <1>6
  <2>1. Keeps(w) /\ Outcomes(w) /\ requeues' = requeues
    BY OutcomeMoves, BudgetFrame
  <2>2. wk'[w].out = "retry" => requeues[wk[w].tier][wk[w].key] < MaxRequeues
    BY <2>1, <1>0 DEF Outcomes
  <2> QED BY <2>1, <2>2 DEF RetryBudget, Keeps, Only
<1>7. CASE \E w \in Workers : CheckAndClaim(w)
  <2> PICK w \in Workers : CheckAndClaim(w)
    BY <1>7
  <2>1. Only(w) /\ ~Retrying(wk'[w])
    BY ClaimMoves DEF Keeps
  <2>2. requeues' = requeues \/ Forget(wk[w].tier, wk[w].key)
    BY DEF CheckAndClaim
  <2> QED BY <1>a, <1>b, <1>c, <2>1, <2>2 DEF Only
<1>8. CASE \E w \in Workers : SkipSuppressed(w) \/ Floor(w) \/ Settle(w)
  <2> PICK w \in Workers : SkipSuppressed(w) \/ Floor(w) \/ Settle(w)
    BY <1>8
  <2>1. Only(w) /\ ~Retrying(wk'[w])
    BY EndingMoves
  <2>2. CASE Forget(wk[w].tier, wk[w].key)
    BY <1>a, <1>c, <2>1, <2>2 DEF Only
  <2>3. CASE Settle(w) /\ wk[w].out = "retry"
    <3>1. \A t \in Tiers, k \in Keys : k # wk[w].key => requeues'[t][k] = requeues[t][k]
      BY <2>3, <1>0 DEF Settle
    <3>2. \A v \in Workers : Retrying(wk'[v]) => wk'[v] = wk[v] /\ wk[v].key # wk[w].key
      BY <2>1, <2>3 DEF Only, ClaimsOwned, Claiming
    <3> QED BY <3>1, <3>2 DEF RetryBudget
  <2> QED BY <2>2, <2>3 DEF SkipSuppressed, Floor, Settle
<1> QED BY <1>1, <1>2, <1>3, <1>4, <1>5, <1>6, <1>7, <1>8, Steps, WorkerFrame, BudgetFrame, Zenon

----------------------------------------------------------------------------
\* Windows and the flag.

\* The steps that put a window in flight or a flag on it are those of the claim's
\* holder on its own key.
LEMMA WindowEffects ==
    ASSUME TypeOK, WorkerShape
    PROVE  /\ \A k \in Keys : Evict(k) =>
                /\ ~window'[k].inflight /\ ~window'[k].stale
                /\ \A j \in Keys \ {k} : window'[j] = window[j]
           /\ \A a \in Actors : MarkWindow(a) =>
                \A j \in Keys : /\ window'[j].inflight <=> window[j].inflight
                                /\ window'[j].stale <=> window[j].stale
           /\ \A k \in Keys, start \in 0..seq : CustomerPut(k, start) =>
                /\ ~window'[k].stale /\ (window'[k].inflight <=> window[k].inflight)
                /\ \A j \in Keys \ {k} : window'[j] = window[j]
           /\ \A w \in Workers : SkipSuppressed(w) =>
                /\ ~window'[wk[w].key].inflight
                /\ Open(wk[w].key) => window'[wk[w].key].stale
                /\ \A j \in Keys \ {wk[w].key} : window'[j] = window[j]
           /\ \A w \in Workers : BeginRefresh(w) =>
                /\ window'[wk[w].key].inflight <=> Open(wk[w].key)
                /\ window'[wk[w].key].stale <=> window[wk[w].key].stale
                /\ \A j \in Keys \ {wk[w].key} : window'[j] = window[j]
           /\ \A w \in Workers : Accept(w) =>
                /\ ~window'[wk[w].key].stale
                /\ window'[wk[w].key].inflight <=> window[wk[w].key].inflight
                /\ \A j \in Keys \ {wk[w].key} : window'[j] = window[j]
<1> USE TypeFacts
<1>1. ASSUME NEW k \in Keys, Evict(k)
      PROVE  /\ ~window'[k].inflight /\ ~window'[k].stale
             /\ \A j \in Keys \ {k} : window'[j] = window[j]
  <2>1. window'[k] = NoWindow /\ \A j \in Keys \ {k} : window'[j] = window[j]
    BY <1>1, WindowMoves
  <2> QED BY <2>1, StampFacts
<1>2. ASSUME NEW a \in Actors, MarkWindow(a), NEW j \in Keys
      PROVE  /\ window'[j].inflight <=> window[j].inflight
             /\ window'[j].stale <=> window[j].stale
  <2>1. window'[j] = window[j] \/ window'[j] = Marked(window[j])
    BY <1>2, WindowMoves
  <2> QED BY <2>1, MarkedFacts
<1>3. ASSUME NEW k \in Keys, NEW start \in 0..seq, CustomerPut(k, start)
      PROVE  /\ ~window'[k].stale /\ (window'[k].inflight <=> window[k].inflight)
             /\ \A j \in Keys \ {k} : window'[j] = window[j]
  <2>1. window'[k] = AfterPut(window[k], start) /\ \A j \in Keys \ {k} : window'[j] = window[j]
    BY <1>3, WindowMoves
  <2> QED BY <2>1, AfterPutFacts
<1>4. ASSUME NEW w \in Workers, SkipSuppressed(w)
      PROVE  /\ ~window'[wk[w].key].inflight
             /\ Open(wk[w].key) => window'[wk[w].key].stale
             /\ \A j \in Keys \ {wk[w].key} : window'[j] = window[j]
  <2> DEFINE k == wk[w].key
             s == Begun(window[k])
  <2>1. window'[k] = Settled(s, "declined") /\ \A j \in Keys \ {k} : window'[j] = window[j]
    BY <1>4, WindowMoves
  <2>2. s \in Windows /\ (s.inflight <=> Open(k))
    BY BegunFacts DEF Open
  <2> HIDE DEF s
  <2> QED BY <2>1, <2>2, SettledFacts DEF Outs
<1>5. ASSUME NEW w \in Workers, BeginRefresh(w)
      PROVE  /\ window'[wk[w].key].inflight <=> Open(wk[w].key)
             /\ window'[wk[w].key].stale <=> window[wk[w].key].stale
             /\ \A j \in Keys \ {wk[w].key} : window'[j] = window[j]
  <2> DEFINE k == wk[w].key
  <2>1. window'[k] = Begun(window[k]) /\ \A j \in Keys \ {k} : window'[j] = window[j]
    BY <1>5, WindowMoves
  <2> QED BY <2>1, BegunFacts DEF Open
<1>6. ASSUME NEW w \in Workers, Accept(w)
      PROVE  /\ ~window'[wk[w].key].stale
             /\ window'[wk[w].key].inflight <=> window[wk[w].key].inflight
             /\ \A j \in Keys \ {wk[w].key} : window'[j] = window[j]
  <2> DEFINE k == wk[w].key
  <2>1. window'[k] = AfterPut(window[k], wk[w].start) /\ \A j \in Keys \ {k} : window'[j] = window[j]
    BY <1>6, WindowMoves
  <2> QED BY <2>1, AfterPutFacts
<1> QED BY <1>1, <1>2, <1>3, <1>4, <1>5, <1>6, Zenon

\* A settled window is in flight no more; the outcome decides on the flag.
LEMMA SettleEffects ==
    ASSUME TypeOK, WorkerShape, ClaimsOwned, StampOwner, NEW w \in Workers, Settle(w)
    PROVE  /\ wk[w].out \in Outs
           /\ ~window'[wk[w].key].inflight
           /\ \A j \in Keys \ {wk[w].key} : window'[j] = window[j]
           /\ wk[w].open /\ window[wk[w].key].inflight /\ wk[w].out \in {"declined", "dropped"} =>
                window'[wk[w].key].stale
           /\ wk[w].out \in {"retry", "declined", "dropped"} /\ window[wk[w].key].stale =>
                window'[wk[w].key].stale
<1> USE TypeFacts
<1> DEFINE k == wk[w].key
           o == wk[w].out
<1>1. /\ o \in Outs
      /\ \/ o = "selfgone" /\ window' = [window EXCEPT ![k] = NoWindow]
         \/ ~wk[w].open /\ window' = window
         \/ wk[w].open /\ window' = [window EXCEPT ![k] = Settled(window[k], o)]
  BY WindowMoves
<1>2. CASE o = "selfgone" /\ window' = [window EXCEPT ![k] = NoWindow]
  BY <1>1, <1>2, StampFacts
<1>3. CASE ~wk[w].open /\ window' = window
  <2>1. ~window[k].inflight
    BY <1>3, Guards DEF StampOwner, ClaimsOwned, Claiming
  <2> QED BY <1>1, <1>3, <2>1
<1>4. CASE wk[w].open /\ window' = [window EXCEPT ![k] = Settled(window[k], o)]
  BY <1>1, <1>4, SettledFacts
<1> QED BY <1>1, <1>2, <1>3, <1>4

\* Only BeginRefresh puts a stamp in flight, and no step leaves it without its worker.
LEMMA OwnerStep ==
    ASSUME TypeOK, WorkerShape, ClaimsOwned, StampOwner, Next
    PROVE  StampOwner'
<1> USE TypeFacts, Guards
<1> DEFINE Owns(x, k) == x.key = k /\ x.open /\ x.pc \in {"resolving", "settle"}
<1>0. \A k \in Keys : window[k].inflight => \E w \in Workers : Owns(wk[w], k)
  BY DEF StampOwner
<1>s. SUFFICES \A k \in Keys : window'[k].inflight => \E w \in Workers : Owns(wk'[w], k)
  BY DEF StampOwner
<1>a. ASSUME NEW w \in Workers, Only(w), wk[w].pc \notin {"resolving", "settle"}, window' = window
      PROVE  \A k \in Keys : window'[k].inflight => \E v \in Workers : Owns(wk'[v], k)
  <2>1. \A v \in Workers, k \in Keys : Owns(wk[v], k) => Owns(wk'[v], k)
    BY <1>a DEF Only
  <2> QED BY <1>0, <1>a, <2>1
<1>b. ASSUME wk' = wk, \A k \in Keys : window'[k].inflight => window[k].inflight
      PROVE  \A k \in Keys : window'[k].inflight => \E v \in Workers : Owns(wk'[v], k)
  BY <1>0, <1>b
<1>1. CASE wk' = wk /\ window' = window
  BY <1>1, <1>b
<1>2. CASE \E k \in Keys : \E start \in 0..seq : CustomerPut(k, start)
  BY <1>2, <1>b, WindowEffects, WorkerFrame
<1>3. CASE \E a \in Actors : MarkWindow(a)
  BY <1>3, <1>b, WindowEffects, WorkerFrame
<1>4. CASE \E k \in Keys : Evict(k)
  <2> PICK k \in Keys : Evict(k)
    BY <1>4
  <2>1. \A v \in Workers, j \in Keys : Owns(wk[v], j) => Owns(wk'[v], j)
    BY EvictMoves
  <2>2. \A j \in Keys : window'[j].inflight => window[j].inflight
    BY WindowEffects
  <2> QED BY <1>0, <2>1, <2>2
<1>5. CASE \E w \in Workers, k \in Keys :
             TakeViewed(w, k) \/ TakeClusterList(w, k) \/ TakeNormal(w, k)
  BY <1>5, <1>a, TakeMoves, WindowFrame DEF TakeViewed, TakeClusterList, TakeNormal, Tiers
<1>6. CASE \E w \in Workers : TakeWake(w) \/ Release(w) \/ Done(w)
  BY <1>6, <1>a, IdleMoves, WindowFrame
<1>7. CASE \E w \in Workers : Floor(w)
  BY <1>7, <1>a, EndingMoves, WindowFrame
<1>8. CASE \E w \in Workers : Block(w) \/ CheckAndClaim(w) \/ ConsumeTriggers(w)
  BY <1>8, <1>a, BlockMoves, ClaimMoves, ConsumeMoves, WindowFrame DEF Keeps
<1>9. CASE \E w \in Workers : SkipSuppressed(w) \/ Settle(w)
  <2> PICK w \in Workers : SkipSuppressed(w) \/ Settle(w)
    BY <1>9
  <2>1. ~window'[wk[w].key].inflight /\ \A j \in Keys \ {wk[w].key} : window'[j] = window[j]
    BY WindowEffects, SettleEffects
  <2>2. \A v \in Workers, j \in Keys \ {wk[w].key} : Owns(wk[v], j) => Owns(wk'[v], j)
    BY EndingMoves DEF Only
  <2> QED BY <1>0, <2>1, <2>2
<1>10. CASE \E w \in Workers : BeginRefresh(w)
  <2> PICK w \in Workers : BeginRefresh(w)
    BY <1>10
  <2>1. /\ window'[wk[w].key].inflight <=> Open(wk[w].key)
        /\ \A j \in Keys \ {wk[w].key} : window'[j] = window[j]
    BY WindowEffects
  <2>2. Only(w) /\ wk'[w].key = wk[w].key /\ wk'[w].pc = "resolving" /\ wk'[w].open = Open(wk[w].key)
    BY BeginMoves DEF Keeps
  <2>3. \A v \in Workers, j \in Keys \ {wk[w].key} : Owns(wk[v], j) => Owns(wk'[v], j)
    BY <2>2 DEF Only
  <2> QED BY <1>0, <2>1, <2>2, <2>3
<1>11. CASE \E w \in Workers : Accept(w) \/ NothingToReplace(w) \/ Decline(w) \/ Fail(w)
  <2> PICK w \in Workers : Accept(w) \/ NothingToReplace(w) \/ Decline(w) \/ Fail(w)
    BY <1>11
  <2>1. \A j \in Keys : window'[j].inflight => window[j].inflight
    BY WindowEffects, WindowFrame
  <2>2. \A v \in Workers, j \in Keys : Owns(wk[v], j) => Owns(wk'[v], j)
    BY OutcomeMoves DEF Only, Keeps, KeepsNotes
  <2> QED BY <1>0, <2>1, <2>2
<1> QED BY <1>1, <1>2, <1>3, <1>4, <1>5, <1>6, <1>7, <1>8, <1>9, <1>10, <1>11,
           Steps, WorkerFrame, WindowFrame, Zenon

\* Who neither stores nor removes a body.
LEMMA BodyFrame ==
    ASSUME \/ \E k \in Keys : \/ InputEvent(k) \/ PromoteOnArm(k) \/ PromoteEnqueue(k) \/ Arm(k)
                              \/ Disarm(k) \/ EnqueueRefresh(k) \/ RevalidateInBackground(k)
           \/ \E t \in Tiers, k \in Keys : DelayExpires(t, k)
           \/ \E a \in Actors : MarkMerge(a) \/ MarkWindow(a) \/ MarkRoute(a)
           \/ \E w \in Workers, k \in Keys :
                TakeViewed(w, k) \/ TakeClusterList(w, k) \/ TakeNormal(w, k)
           \/ \E w \in Workers :
                \/ Block(w) \/ TakeWake(w) \/ CheckAndClaim(w) \/ SkipSuppressed(w) \/ Floor(w)
                \/ ConsumeTriggers(w) \/ BeginRefresh(w) \/ NothingToReplace(w) \/ Decline(w)
                \/ Fail(w) \/ Release(w) \/ Done(w)
    PROVE  asOf' = asOf
  BY Zenon DEF InputEvent, PromoteOnArm, PromoteEnqueue, Arm, Disarm, EnqueueRefresh,
     RevalidateInBackground, DelayExpires, MarkMerge, MarkWindow, MarkRoute, TakeViewed,
     TakeClusterList, TakeNormal, Take, Block, TakeWake, CheckAndClaim, SkipSuppressed, Floor,
     ConsumeTriggers, BeginRefresh, NothingToReplace, Decline, Fail, Release, Done, cellVars

\* A Put ends the flag, an eviction removes the body, and only the claim's holder
\* sets the flag.
LEMMA StaleKeptStep ==
    ASSUME TypeOK, WorkerShape, ClaimsOwned, StampOwner, StaleKept, Next
    PROVE  StaleKept'
<1> USE TypeFacts, Guards
<1> DEFINE At(x) == x.pc \in {"begin", "resolving", "settle"}
           Kept(x) == x.had /\ ~x.gone /\ x.out \notin {"fresh", "remarked", "evicted"}
<1>0. \A w \in Workers :
        At(wk[w]) /\ asOf[wk[w].key] # NoCell /\ window[wk[w].key].stale => Kept(wk[w])
  BY DEF StaleKept, Resident, KnownStale
<1>s. SUFFICES ASSUME NEW v \in Workers, At(wk'[v]),
                      asOf'[wk'[v].key] # NoCell, window'[wk'[v].key].stale
               PROVE  Kept(wk'[v])
  BY Zenon DEF StaleKept, Resident, KnownStale, NoCell
<1>a. ASSUME NEW w \in Workers, Only(w), ~At(wk'[w]), window' = window, asOf' = asOf
      PROVE  Kept(wk'[v])
  BY <1>0, <1>s, <1>a DEF Only
<1>1. CASE wk' = wk /\ window' = window /\ asOf' = asOf
  BY <1>0, <1>s, <1>1
<1>2. CASE \E k \in Keys : \E start \in 0..seq : CustomerPut(k, start)
  <2> PICK k \in Keys, start \in 0..seq : CustomerPut(k, start)
    BY <1>2
  <2>1. ~window'[k].stale /\ \A j \in Keys \ {k} : window'[j] = window[j]
    BY WindowEffects
  <2>2. \A j \in Keys \ {k} : asOf'[j] = asOf[j]
    BY DEF CustomerPut, StorePut, CellTypeOK
  <2> QED BY <1>0, <1>s, <2>1, <2>2, WorkerFrame
<1>3. CASE \E a \in Actors : MarkWindow(a)
  <2> PICK a \in Actors : MarkWindow(a)
    BY <1>3
  <2>1. wk' = wk /\ asOf' = asOf /\ \A j \in Keys : window'[j].stale <=> window[j].stale
    BY WindowEffects, WorkerFrame, BodyFrame
  <2> QED BY <1>0, <1>s, <2>1
<1>4. CASE \E k \in Keys : Evict(k)
  <2> PICK k \in Keys : Evict(k)
    BY <1>4
  <2>1. ~window'[k].stale /\ \A j \in Keys \ {k} : window'[j] = window[j]
    BY WindowEffects
  <2>2. \A j \in Keys \ {k} : asOf'[j] = asOf[j]
    BY DEF Evict, RemoveCell, CellTypeOK
  <2>3. wk'[v].key # k
    BY <1>s, <2>1
  <2>4. wk'[v] = wk[v] /\ wk[v].key \in Keys \ {k}
    BY <2>3, EvictMoves
  <2> QED BY <1>0, <1>s, <2>1, <2>2, <2>4
<1>5. CASE \E w \in Workers, k \in Keys :
             TakeViewed(w, k) \/ TakeClusterList(w, k) \/ TakeNormal(w, k)
  BY <1>5, <1>a, TakeMoves, WindowFrame, BodyFrame DEF TakeViewed, TakeClusterList, TakeNormal, Tiers
<1>6. CASE \E w \in Workers : TakeWake(w) \/ Release(w) \/ Done(w)
  BY <1>6, <1>a, IdleMoves, WindowFrame, BodyFrame
<1>7. CASE \E w \in Workers : Floor(w)
  BY <1>7, <1>a, EndingMoves, WindowFrame, BodyFrame
<1>8. CASE \E w \in Workers : Block(w) \/ CheckAndClaim(w)
  BY <1>8, <1>a, BlockMoves, ClaimMoves, WindowFrame, BodyFrame DEF Keeps
<1>9. CASE \E w \in Workers : ConsumeTriggers(w)
  <2> PICK w \in Workers : ConsumeTriggers(w)
    BY <1>9
  <2>1. window' = window /\ asOf' = asOf
    BY WindowFrame, BodyFrame
  <2>2. Only(w) /\ wk'[w].key = wk[w].key /\ wk'[w].out = "none" /\ ~wk'[w].gone
        /\ wk'[w].had = Resident(wk[w].key)
    BY ConsumeMoves DEF Keeps, WorkerShape
  <2>3. CASE v = w
    BY <1>s, <2>1, <2>2, <2>3 DEF Resident
  <2>4. CASE v # w
    BY <1>0, <1>s, <2>1, <2>2, <2>4 DEF Only
  <2> QED BY <2>3, <2>4
<1>10. CASE \E w \in Workers : BeginRefresh(w)
  <2> PICK w \in Workers : BeginRefresh(w)
    BY <1>10
  <2>1. /\ \A j \in Keys : window'[j].stale <=> window[j].stale
        /\ asOf' = asOf
    BY WindowEffects, BodyFrame
  <2>2. Only(w) /\ wk'[w].key = wk[w].key /\ wk'[w].out = wk[w].out /\ wk'[w].gone = wk[w].gone
        /\ wk'[w].had = wk[w].had
    BY BeginMoves DEF Keeps
  <2> QED BY <1>0, <1>s, <2>1, <2>2 DEF Only
<1>11. CASE \E w \in Workers : SkipSuppressed(w) \/ Settle(w)
  <2> PICK w \in Workers : SkipSuppressed(w) \/ Settle(w)
    BY <1>11
  <2>1. \A j \in Keys \ {wk[w].key} : window'[j] = window[j] /\ asOf'[j] = asOf[j]
    <3>1. CASE SkipSuppressed(w)
      BY <3>1, WindowEffects, BodyFrame
    <3>2. CASE Settle(w)
      BY <3>2, SettleEffects DEF Settle, cellVars, RemoveCell, CellTypeOK
    <3> QED BY <3>1, <3>2
  <2>2. Only(w) /\ ~At(wk'[w])
    BY EndingMoves
  <2>3. v # w /\ wk'[v] = wk[v]
    BY <1>s, <2>2 DEF Only
  <2>4. wk[v].key # wk[w].key
    BY <1>s, <2>3 DEF ClaimsOwned, Claiming
  <2> QED BY <1>0, <1>s, <2>1, <2>3, <2>4
<1>12. CASE \E w \in Workers : Accept(w)
  <2> PICK w \in Workers : Accept(w)
    BY <1>12
  <2>1. ~window'[wk[w].key].stale /\ \A j \in Keys \ {wk[w].key} : window'[j] = window[j]
    BY WindowEffects
  <2>2. \A j \in Keys \ {wk[w].key} : asOf'[j] = asOf[j]
    BY DEF Accept, StorePut, CellTypeOK
  <2>3. Only(w) /\ wk'[w].key = wk[w].key
    BY OutcomeMoves DEF Keeps
  <2> QED BY <1>0, <1>s, <2>1, <2>2, <2>3 DEF Only
<1>13. CASE \E w \in Workers : NothingToReplace(w) \/ Decline(w) \/ Fail(w)
  <2> PICK w \in Workers : NothingToReplace(w) \/ Decline(w) \/ Fail(w)
    BY <1>13
  <2>1. window' = window /\ asOf' = asOf
    BY WindowFrame, BodyFrame
  <2>2. Only(w) /\ wk'[w].key = wk[w].key /\ Outcomes(w) /\ wk'[w].gone = wk[w].gone
        /\ wk'[w].had = wk[w].had /\ wk[w].pc = "resolving"
    BY OutcomeMoves DEF Keeps, KeepsNotes
  <2>3. CASE v # w
    BY <1>0, <1>s, <2>1, <2>2, <2>3 DEF Only
  <2>4. CASE v = w
    <3>1. asOf[wk[w].key] # NoCell /\ Kept(wk[w])
      BY <1>0, <1>s, <2>1, <2>2, <2>4
    <3>2. ~NothingToReplace(w)
      BY <3>1 DEF NothingToReplace, Resident
    <3> QED BY <3>1, <3>2, <2>2, <2>4 DEF Outcomes
  <2> QED BY <2>3, <2>4
<1> QED BY <1>1, <1>2, <1>3, <1>4, <1>5, <1>6, <1>7, <1>8, <1>9, <1>10, <1>11, <1>12, <1>13,
           Steps, WorkerFrame, WindowFrame, BodyFrame, Zenon

----------------------------------------------------------------------------
\* The reservation and the wake.

\* The workers in viewed work.
Viewing == {w \in Workers : wk[w].tier = "viewed" /\ wk[w].pc \notin {"probe", "blocked"}}

\* The count of slots is the number of workers in viewed work, within the pool.
LEMMA ReservedFacts ==
    ASSUME WorkerReserved
    PROVE  /\ IsFiniteSet(Viewing) /\ viewedActive = Cardinality(Viewing)
           /\ viewedActive \in 0..Parallelism
           /\ Parallelism > 1 => Viewing # Workers
<1>1. viewedActive = Cardinality(Viewing) /\ (Parallelism > 1 => Viewing # Workers)
  BY Zenon DEF WorkerReserved, Viewing
<1>2. Viewing \subseteq Workers
  BY DEF Viewing
<1>3. IsFiniteSet(Viewing) /\ Cardinality(Viewing) <= Parallelism
  BY <1>2, PoolFacts, FS_Subset DEF Parallelism
<1>4. Cardinality(Viewing) \in Nat
  BY <1>3, FS_CardinalityType
<1> QED BY <1>1, <1>3, <1>4, PoolFacts

\* Who takes no viewed slot and gives none back.
LEMMA SlotFrame ==
    ASSUME \/ \E k \in Keys : \/ InputEvent(k) \/ PromoteOnArm(k) \/ PromoteEnqueue(k) \/ Arm(k)
                              \/ Disarm(k) \/ EnqueueRefresh(k) \/ RevalidateInBackground(k) \/ Evict(k)
           \/ \E k \in Keys : \E start \in 0..seq : CustomerPut(k, start)
           \/ \E t \in Tiers, k \in Keys : DelayExpires(t, k)
           \/ \E a \in Actors : MarkMerge(a) \/ MarkWindow(a) \/ MarkRoute(a)
           \/ \E w \in Workers, k \in Keys : TakeClusterList(w, k) \/ TakeNormal(w, k)
           \/ \E w \in Workers :
                \/ Block(w) \/ TakeWake(w) \/ CheckAndClaim(w) \/ SkipSuppressed(w) \/ Floor(w)
                \/ ConsumeTriggers(w) \/ BeginRefresh(w) \/ Accept(w) \/ NothingToReplace(w)
                \/ Decline(w) \/ Fail(w) \/ Settle(w)
    PROVE  viewedActive' = viewedActive
  BY Zenon DEF InputEvent, PromoteOnArm, PromoteEnqueue, Arm, Disarm, EnqueueRefresh,
     RevalidateInBackground, Evict, CustomerPut, DelayExpires, MarkMerge, MarkWindow, MarkRoute,
     TakeClusterList, TakeNormal, Take, Block, TakeWake, CheckAndClaim, SkipSuppressed, Floor,
     ConsumeTriggers, BeginRefresh, Accept, NothingToReplace, Decline, Fail, Settle, queueVars

\* A viewed dequeue adds its worker, within the reservation; its Done takes it out.
LEMMA ReservedStep ==
    ASSUME TypeOK, WorkerReserved, Next
    PROVE  WorkerReserved'
<1> USE TypeFacts, Guards, ReservedFacts, PoolFacts
<1>s. SUFFICES viewedActive' = Cardinality(Viewing') /\ (Parallelism > 1 => Viewing' # Workers)
  BY Zenon DEF WorkerReserved, Viewing
<1> DEFINE Views(x) == x.tier = "viewed" /\ x.pc \notin {"probe", "blocked"}
<1>a. ASSUME viewedActive' = viewedActive, \A w \in Workers : Views(wk'[w]) <=> Views(wk[w])
      PROVE  viewedActive' = Cardinality(Viewing') /\ (Parallelism > 1 => Viewing' # Workers)
  <2>1. Viewing' = Viewing
    BY <1>a DEF Viewing
  <2> QED BY <1>a, <2>1
<1>b. ASSUME NEW w \in Workers, viewedActive' = viewedActive, Only(w), Views(wk'[w]) <=> Views(wk[w])
      PROVE  viewedActive' = Cardinality(Viewing') /\ (Parallelism > 1 => Viewing' # Workers)
  BY <1>a, <1>b DEF Only
<1>1. CASE wk' = wk /\ viewedActive' = viewedActive
  BY <1>1, <1>a
<1>2. CASE \E k \in Keys : Evict(k)
  BY <1>2, <1>a, EvictMoves, SlotFrame
<1>3. CASE \E w \in Workers, k \in Keys : TakeClusterList(w, k) \/ TakeNormal(w, k)
  BY <1>3, <1>b, TakeMoves, SlotFrame DEF TakeClusterList, TakeNormal, Tiers
<1>4. CASE \E w \in Workers : TakeWake(w)
  BY <1>4, <1>b, IdleMoves, SlotFrame
<1>5. CASE \E w \in Workers : SkipSuppressed(w) \/ Floor(w) \/ Settle(w)
  BY <1>5, <1>b, EndingMoves, SlotFrame
<1>6. CASE \E w \in Workers : Block(w)
  BY <1>6, <1>b, BlockMoves, SlotFrame DEF Keeps
<1>7. CASE \E w \in Workers : CheckAndClaim(w) \/ ConsumeTriggers(w) \/ BeginRefresh(w)
  BY <1>7, <1>b, ClaimMoves, ConsumeMoves, BeginMoves, SlotFrame DEF Keeps
<1>8. CASE \E w \in Workers : Accept(w) \/ NothingToReplace(w) \/ Decline(w) \/ Fail(w)
  BY <1>8, <1>b, OutcomeMoves, SlotFrame DEF Keeps
<1>9. CASE \E w \in Workers, k \in Keys : TakeViewed(w, k)
  <2> PICK w \in Workers, k \in Keys : TakeViewed(w, k)
    BY <1>9
  <2>1. Only(w) /\ Views(wk'[w]) /\ ~Views(wk[w])
    BY TakeMoves DEF TakeViewed, Tiers
  <2>2. Viewing' = Viewing \cup {w} /\ w \notin Viewing
    BY <2>1 DEF Viewing, Only
  <2>3. viewedActive' = viewedActive + 1 /\ viewedSlotFree
    BY DEF TakeViewed
  <2>4. Cardinality(Viewing') = Cardinality(Viewing) + 1
    BY <2>2, FS_AddElement
  <2>5. Parallelism > 1 => Cardinality(Viewing') < Cardinality(Workers)
    BY <2>3, <2>4 DEF viewedSlotFree, SlotFree, Parallelism
  <2> QED BY <2>3, <2>4, <2>5
<1>10. CASE \E w \in Workers : Release(w) \/ Done(w)
  <2> PICK w \in Workers : Release(w) \/ Done(w)
    BY <1>10
  <2>1. Only(w) /\ ~Views(wk'[w]) /\ viewedActive' = SlotsAfter(wk[w].tier)
    BY IdleMoves DEF Release, Done, GiveBack
  <2>2. CASE wk[w].tier # "viewed"
    BY <1>b, <2>1, <2>2 DEF SlotsAfter
  <2>3. CASE wk[w].tier = "viewed"
    <3>1. w \in Viewing /\ Viewing' = Viewing \ {w}
      BY <2>1, <2>3 DEF Viewing, Only
    <3>2. Cardinality(Viewing') = Cardinality(Viewing) - 1
      BY <3>1, FS_RemoveElement
    <3> QED BY <2>1, <2>3, <3>1, <3>2 DEF SlotsAfter
  <2> QED BY <2>2, <2>3
<1> QED BY <1>1, <1>2, <1>3, <1>4, <1>5, <1>6, <1>7, <1>8, <1>9, <1>10,
           Steps, WorkerFrame, SlotFrame, Zenon

\* When nobody is in viewed work the slot is refused only to a pool of one.
LEMMA SlotRefused ==
    ASSUME WorkerReserved, \A w \in Workers : wk[w].pc \in {"probe", "blocked"}, ~viewedSlotFree
    PROVE  Parallelism = 1 /\ lastViewed /\ OtherWork
<1>1. Viewing = {}
  BY DEF Viewing
<1>2. viewedActive = 0
  BY <1>1, ReservedFacts, FS_EmptySet
<1> QED BY <1>2, PoolFacts DEF viewedSlotFree, SlotFree

\* An add wakes a sleeping pool, unless it finds the exception.
LEMMA EnqueueWakes ==
    ASSUME TypeOK, WorkerReserved, NoStrandedViewed, NEW ts, NEW k \in Keys, Enqueue(ts, k),
           UNCHANGED <<wk, processing, lastViewed>>
    PROVE  NoStrandedViewed'
<1>s. SUFFICES ASSUME Ready("viewed")' # {}, \A w \in Workers : wk[w].pc = "blocked"
               PROVE  \/ wake' \/ Ready("normal")' # {}
                      \/ Parallelism = 1 /\ lastViewed' /\ Ready("clusterList")' # {}
  BY Zenon DEF NoStrandedViewed
<1>1. \A t \in Tiers : Ready(t) \subseteq Ready(t)'
  BY DEF Ready, Enqueue
<1>2. "normal" \in Tiers /\ "clusterList" \in Tiers /\ "viewed" \in Tiers
  BY DEF Tiers
<1>3. (wake => wake') /\ ("viewed" \in ts /\ viewedSlotFree => wake')
  BY DEF Enqueue, WakeAfterAdd
<1>4. CASE "viewed" \in ts
  <2>1. CASE viewedSlotFree
    BY <1>3, <1>4, <2>1
  <2>2. CASE ~viewedSlotFree
    <3>1. Parallelism = 1 /\ lastViewed /\ OtherWork
      BY <1>s, <2>2, SlotRefused
    <3> QED BY <3>1, <1>1, <1>2, <1>3 DEF OtherWork
  <2> QED BY <2>1, <2>2
<1>5. CASE "viewed" \notin ts
  <2>1. Ready("viewed") # {}
    BY <1>s, <1>2, <1>5 DEF Ready, Enqueue
  <2>2. \/ wake \/ Ready("normal") # {}
        \/ Parallelism = 1 /\ lastViewed /\ Ready("clusterList") # {}
    BY <1>s, <2>1 DEF NoStrandedViewed
  <2> QED BY <2>2, <1>1, <1>2, <1>3
<1> QED BY <1>4, <1>5

\* A worker blocks, or a pool is woken, only as the reservation says.
LEMMA StrandedStep ==
    ASSUME TypeOK, WorkerReserved, NoStrandedViewed, Next
    PROVE  NoStrandedViewed'
<1> USE TypeFacts, Guards
<1>a. ASSUME NEW w \in Workers, wk'[w].pc # "blocked"
      PROVE  NoStrandedViewed'
  BY <1>a, Zenon DEF NoStrandedViewed
<1>b. ASSUME UNCHANGED <<pending, processing, wake, lastViewed>>,
             \A w \in Workers : wk'[w].pc = "blocked" => wk[w].pc = "blocked"
      PROVE  NoStrandedViewed'
  BY <1>b DEF NoStrandedViewed, Ready
<1>1. CASE \E k \in Keys : InputEvent(k) \/ PromoteOnArm(k) \/ Arm(k) \/ Disarm(k)
  BY <1>1, <1>b DEF InputEvent, PromoteOnArm, Arm, Disarm, queueVars
<1>2. CASE \E k \in Keys : Evict(k)
  BY <1>2, <1>b, EvictMoves DEF Evict, queueVars
<1>3. CASE \E k \in Keys : \E start \in 0..seq : CustomerPut(k, start)
  BY <1>3, <1>b DEF CustomerPut, queueVars
<1>4. CASE \E a \in Actors : MarkMerge(a) \/ MarkWindow(a)
  BY <1>4, <1>b DEF MarkMerge, MarkWindow, queueVars
<1>5. CASE \E k \in Keys : PromoteEnqueue(k) \/ EnqueueRefresh(k)
  BY <1>5, EnqueueWakes DEF PromoteEnqueue, EnqueueRefresh
<1>6. CASE \E k \in Keys : RevalidateInBackground(k)
  BY <1>6, <1>b, EnqueueWakes DEF RevalidateInBackground
<1>7. CASE \E t \in Tiers, k \in Keys : DelayExpires(t, k)
  BY <1>7, EnqueueWakes DEF DelayExpires
<1>8. CASE \E a \in Actors : MarkRoute(a)
  BY <1>8, EnqueueWakes DEF MarkRoute
<1>9. CASE \E w \in Workers, k \in Keys :
             TakeViewed(w, k) \/ TakeClusterList(w, k) \/ TakeNormal(w, k)
  BY <1>9, <1>a, TakeMoves DEF TakeViewed, TakeClusterList, TakeNormal, Tiers
<1>10. CASE \E w \in Workers : TakeWake(w) \/ Release(w) \/ Done(w)
  BY <1>10, <1>a, IdleMoves
<1>11. CASE \E w \in Workers : SkipSuppressed(w) \/ Floor(w) \/ Settle(w)
  BY <1>11, <1>a, EndingMoves
<1>12. CASE \E w \in Workers : CheckAndClaim(w) \/ ConsumeTriggers(w) \/ BeginRefresh(w)
  BY <1>12, <1>a, ClaimMoves, ConsumeMoves, BeginMoves
<1>13. CASE \E w \in Workers : Accept(w) \/ NothingToReplace(w) \/ Decline(w) \/ Fail(w)
  BY <1>13, <1>a, OutcomeMoves
<1>14. CASE \E w \in Workers : Block(w)
  <2> PICK w \in Workers : Block(w)
    BY <1>14
  <2>1. UNCHANGED <<pending, processing, wake, lastViewed>>
    BY DEF Block, queueVars
  <2>2. ViewedProbeFails /\ Ready("clusterList") = {}
    BY DEF Block
  <2>3. SUFFICES ASSUME Ready("viewed") # {}, \A v \in Workers : wk'[v].pc = "blocked"
                 PROVE  wake \/ Ready("normal") # {}
    BY <2>1 DEF NoStrandedViewed, Ready
  <2>4. \A v \in Workers : wk[v].pc \in {"probe", "blocked"}
    BY <2>3, BlockMoves DEF Keeps, Only
  <2>5. ~viewedSlotFree
    BY <2>2, <2>3 DEF ViewedProbeFails
  <2>6. OtherWork
    BY <2>4, <2>5, SlotRefused
  <2> QED BY <2>2, <2>6 DEF OtherWork
<1> QED BY <1>1, <1>2, <1>3, <1>4, <1>5, <1>6, <1>7, <1>8, <1>9, <1>10, <1>11, <1>12, <1>13, <1>14,
           Steps, Zenon

----------------------------------------------------------------------------
\* A dequeue is on its way.

\* Nothing but a dequeue takes a key out of a tier.
LEMMA TiersGrow ==
    ASSUME TypeOK, Next
    PROVE  \/ \E w \in Workers, t \in Tiers, k \in Keys : Take(w, t, k)
           \/ \A t \in Tiers : pending[t] \subseteq pending'[t]
<1> USE TypeFacts
<1>a. ASSUME NEW ts, NEW k, Enqueue(ts, k) PROVE \A t \in Tiers : pending[t] \subseteq pending'[t]
  BY <1>a DEF Enqueue
<1>b. ASSUME NEW w, NEW adds, GiveBack(w, adds) PROVE \A t \in Tiers : pending[t] \subseteq pending'[t]
  BY <1>b DEF GiveBack
<1>1. CASE \E w \in Workers, k \in Keys :
             TakeViewed(w, k) \/ TakeClusterList(w, k) \/ TakeNormal(w, k)
  BY <1>1, Zenon DEF TakeViewed, TakeClusterList, TakeNormal, Tiers
<1>2. CASE \/ \E k \in Keys : PromoteEnqueue(k) \/ EnqueueRefresh(k) \/ RevalidateInBackground(k)
           \/ \E t \in Tiers, k \in Keys : DelayExpires(t, k)
           \/ \E a \in Actors : MarkRoute(a)
  BY <1>2, <1>a DEF PromoteEnqueue, EnqueueRefresh, RevalidateInBackground, DelayExpires, MarkRoute
<1>3. CASE \E w \in Workers : Release(w) \/ Done(w)
  BY <1>3, <1>b DEF Release, Done
<1>4. CASE pending' = pending
  BY <1>4
<1>5. CASE \/ \E k \in Keys : InputEvent(k) \/ PromoteOnArm(k) \/ Arm(k) \/ Disarm(k) \/ Evict(k)
           \/ \E k \in Keys : \E start \in 0..seq : CustomerPut(k, start)
           \/ \E a \in Actors : MarkMerge(a) \/ MarkWindow(a)
           \/ \E w \in Workers :
                \/ Block(w) \/ TakeWake(w) \/ CheckAndClaim(w) \/ SkipSuppressed(w) \/ Floor(w)
                \/ ConsumeTriggers(w) \/ BeginRefresh(w) \/ Accept(w) \/ NothingToReplace(w)
                \/ Decline(w) \/ Fail(w) \/ Settle(w)
  BY <1>4, <1>5, Zenon DEF InputEvent, PromoteOnArm, Arm, Disarm, Evict, CustomerPut, MarkMerge, MarkWindow,
     Block, TakeWake, CheckAndClaim, SkipSuppressed, Floor, ConsumeTriggers, BeginRefresh, Accept,
     NothingToReplace, Decline, Fail, Settle, queueVars
<1> QED BY <1>1, <1>2, <1>3, <1>5, Steps, Zenon

\* Nothing but the expiry of its timer takes a key out of the delayed adds.
LEMMA DelaysGrow ==
    ASSUME TypeOK, Next
    PROVE  \/ \E t \in Tiers, k \in Keys : DelayExpires(t, k)
           \/ \A t \in Tiers : delayed[t] \subseteq delayed'[t]
<1> USE TypeFacts
<1>0. delayed \in [Tiers -> SUBSET Keys]
  BY DEF QueueTypeOK
<1>1. ASSUME NEW w \in Workers, delayed' = Deferred(wk[w].tier, wk[w].key)
      PROVE  \A t \in Tiers : delayed[t] \subseteq delayed'[t]
  BY <1>0, <1>1 DEF Deferred
<1>2. CASE \E w \in Workers : Floor(w) \/ Settle(w)
  BY <1>1, <1>2 DEF Floor, Settle
<1>3. CASE delayed' = delayed
  BY <1>3
<1>4. CASE \/ \E k \in Keys : \/ InputEvent(k) \/ PromoteOnArm(k) \/ PromoteEnqueue(k) \/ Arm(k)
                              \/ Disarm(k) \/ Evict(k) \/ EnqueueRefresh(k) \/ RevalidateInBackground(k)
           \/ \E k \in Keys : \E start \in 0..seq : CustomerPut(k, start)
           \/ \E a \in Actors : MarkMerge(a) \/ MarkWindow(a) \/ MarkRoute(a)
  BY <1>3, <1>4, Zenon DEF InputEvent, PromoteOnArm, PromoteEnqueue, Arm, Disarm, Evict, EnqueueRefresh,
     RevalidateInBackground, CustomerPut, MarkMerge, MarkWindow, MarkRoute, queueVars
<1>5. CASE \/ \E w \in Workers, k \in Keys :
                TakeViewed(w, k) \/ TakeClusterList(w, k) \/ TakeNormal(w, k)
           \/ \E w \in Workers :
                \/ Block(w) \/ TakeWake(w) \/ CheckAndClaim(w) \/ SkipSuppressed(w)
                \/ ConsumeTriggers(w) \/ BeginRefresh(w) \/ Accept(w) \/ NothingToReplace(w)
                \/ Decline(w) \/ Fail(w) \/ Release(w) \/ Done(w)
  BY <1>3, <1>5, Zenon DEF TakeViewed, TakeClusterList, TakeNormal, Take, Block, TakeWake, CheckAndClaim,
     SkipSuppressed, ConsumeTriggers, BeginRefresh, Accept, NothingToReplace, Decline, Fail, Release,
     Done, queueVars
<1> QED BY <1>2, <1>4, <1>5, Steps, Zenon

\* Who leaves the arm hooks and the promotions alone.
LEMMA PromotionFrame ==
    ASSUME \/ \E k \in Keys : \/ InputEvent(k) \/ Disarm(k) \/ EnqueueRefresh(k)
                              \/ RevalidateInBackground(k) \/ Evict(k)
           \/ \E k \in Keys : \E start \in 0..seq : CustomerPut(k, start)
           \/ \E t \in Tiers, k \in Keys : DelayExpires(t, k)
           \/ \E a \in Actors : MarkMerge(a) \/ MarkWindow(a) \/ MarkRoute(a)
           \/ \E w \in Workers, t \in Tiers, k \in Keys : Take(w, t, k)
           \/ \E w \in Workers :
                \/ Block(w) \/ TakeWake(w) \/ SkipSuppressed(w) \/ Floor(w) \/ BeginRefresh(w)
                \/ Accept(w) \/ NothingToReplace(w) \/ Decline(w) \/ Fail(w) \/ Settle(w)
                \/ Release(w) \/ Done(w)
    PROVE  UNCHANGED <<arm, promoted>>
  BY Zenon DEF InputEvent, Disarm, EnqueueRefresh, RevalidateInBackground, Evict, CustomerPut,
     DelayExpires, MarkMerge, MarkWindow, MarkRoute, Take, Block, TakeWake, SkipSuppressed, Floor,
     BeginRefresh, Accept, NothingToReplace, Decline, Fail, Settle, Release, Done, viewVars

\* What a worker that has just dequeued does: it stays, or it checks and claims.
LEMMA GotStays ==
    ASSUME TypeOK, Next, NEW w \in Workers, wk[w].pc = "got"
    PROVE  \/ CheckAndClaim(w)
           \/ wk'[w].pc = "got" /\ wk'[w].key = wk[w].key /\ wk'[w].tier = wk[w].tier
<1> USE TypeFacts, Guards
<1>a. ASSUME NEW v \in Workers, Only(v), v # w PROVE wk'[w] = wk[w]
  BY <1>a DEF Only
<1>1. CASE wk' = wk
  BY <1>1
<1>2. CASE \E k \in Keys : Evict(k)
  BY <1>2, EvictMoves
<1>3. CASE \E v \in Workers, k \in Keys :
             TakeViewed(v, k) \/ TakeClusterList(v, k) \/ TakeNormal(v, k)
  <2> PICK v \in Workers, k \in Keys : TakeViewed(v, k) \/ TakeClusterList(v, k) \/ TakeNormal(v, k)
    BY <1>3
  <2>1. Only(v) /\ v # w
    BY TakeMoves DEF TakeViewed, TakeClusterList, TakeNormal, Tiers
  <2> QED BY <1>a, <2>1
<1>4. CASE \E v \in Workers : TakeWake(v) \/ Release(v) \/ Done(v)
  BY <1>4, <1>a, IdleMoves
<1>5. CASE \E v \in Workers : SkipSuppressed(v) \/ Floor(v) \/ Settle(v)
  BY <1>5, <1>a, EndingMoves
<1>6. CASE \E v \in Workers : Block(v) \/ CheckAndClaim(v) \/ ConsumeTriggers(v) \/ BeginRefresh(v)
  BY <1>6, <1>a, BlockMoves, ClaimMoves, ConsumeMoves, BeginMoves DEF Keeps
<1>7. CASE \E v \in Workers : Accept(v) \/ NothingToReplace(v) \/ Decline(v) \/ Fail(v)
  BY <1>7, <1>a, OutcomeMoves DEF Keeps
<1> QED BY <1>1, <1>2, <1>3, <1>4, <1>5, <1>6, <1>7, Steps, WorkerFrame, Zenon

\* The promoted copy reaches the viewed queue, and its dequeue ends the promotion.
LEMMA PromotedStep ==
    ASSUME TypeOK, PromotedComing, Next
    PROVE  PromotedComing'
<1> USE TypeFacts
<1> DEFINE Got(x, k) == x.key = k /\ x.pc = "got" /\ x.tier = "viewed"
           Way(k) == arm[k] = "enqueue" \/ k \in pending["viewed"] \/ \E w \in Workers : Got(wk[w], k)
<1>0. \A k \in Keys : promoted[k] = "pending" => Way(k)
  BY DEF PromotedComing
<1>s. SUFFICES ASSUME NEW k \in Keys, promoted'[k] = "pending"
               PROVE  arm'[k] = "enqueue" \/ k \in pending'["viewed"] \/ \E w \in Workers : Got(wk'[w], k)
  BY Zenon DEF PromotedComing
<1>t. "viewed" \in Tiers
  BY DEF Tiers
<1>1. CASE \E w \in Workers : CheckAndClaim(w)
  <2> PICK w \in Workers : CheckAndClaim(w)
    BY <1>1
  <2>1. arm' = arm /\ pending' = pending
    BY DEF CheckAndClaim, viewVars
  <2>2. promoted[k] = "pending" /\ (wk[w].key = k => wk[w].tier # "viewed")
    <3>1. promoted' = [promoted EXCEPT ![wk[w].key] =
             CASE wk[w].tier = "viewed" /\ promoted[wk[w].key] = "pending" -> "done"
               [] wk[w].tier # "viewed" /\ Skips(wk[w].key, wk[w].tier)    -> "no"
               [] OTHER                                                    -> promoted[wk[w].key]]
      BY DEF CheckAndClaim
    <3> QED BY <1>s, <3>1 DEF KeyTypeOK
  <2>3. Only(w)
    BY ClaimMoves DEF Keeps
  <2> QED BY <1>0, <2>1, <2>2, <2>3 DEF Only
<1>2. CASE \A w \in Workers : ~CheckAndClaim(w)
  <2>g. \A w \in Workers : Got(wk[w], k) => Got(wk'[w], k)
    BY <1>2, GotStays
  <2>1. CASE \E j \in Keys : PromoteOnArm(j)
    <3> PICK j \in Keys : PromoteOnArm(j)
      BY <2>1
    <3>1. pending' = pending
      BY DEF PromoteOnArm, queueVars
    <3>2. \/ arm'[k] = "enqueue"
          \/ promoted'[k] = promoted[k] /\ (arm[k] = "enqueue" => arm'[k] = "enqueue")
      BY DEF PromoteOnArm, CellTypeOK, KeyTypeOK
    <3> QED BY <1>0, <1>s, <2>g, <3>1, <3>2
  <2>2. CASE \E j \in Keys : PromoteEnqueue(j)
    <3> PICK j \in Keys : PromoteEnqueue(j)
      BY <2>2
    <3>1. /\ pending["viewed"] \subseteq pending'["viewed"] /\ j \in pending'["viewed"]
          /\ promoted' = promoted /\ (k # j => arm'[k] = arm[k])
      BY <1>t DEF PromoteEnqueue, Enqueue, CellTypeOK
    <3> QED BY <1>0, <1>s, <2>g, <3>1
  <2>3. CASE \E j \in Keys : Arm(j)
    <3>1. pending' = pending /\ promoted' = promoted /\ (arm[k] = "enqueue" => arm'[k] = "enqueue")
      BY <2>3 DEF Arm, CellTypeOK, queueVars
    <3> QED BY <1>0, <1>s, <2>g, <3>1
  <2>4. CASE \E w \in Workers : ConsumeTriggers(w)
    <3>1. pending' = pending /\ arm' = arm /\ promoted[k] = "pending"
      BY <1>s, <2>4 DEF ConsumeTriggers, KeyTypeOK, queueVars, viewVars
    <3> QED BY <1>0, <2>g, <3>1
  <2>5. CASE \E w \in Workers, t \in Tiers, j \in Keys : Take(w, t, j)
    <3> PICK w \in Workers, t \in Tiers, j \in Keys : Take(w, t, j)
      BY <2>5
    <3>1. UNCHANGED <<arm, promoted>>
      BY PromotionFrame
    <3>2. k \in pending["viewed"] => k \in pending'["viewed"] \/ (t = "viewed" /\ j = k)
      BY <1>t DEF Take, QueueTypeOK
    <3>3. t = "viewed" /\ j = k => Got(wk'[w], k)
      BY TakeMoves
    <3> QED BY <1>0, <1>s, <2>g, <3>1, <3>2, <3>3
  <2>6. CASE UNCHANGED <<arm, promoted>> /\ pending["viewed"] \subseteq pending'["viewed"]
    BY <1>0, <1>s, <2>g, <2>6
  <2>7. CASE ~\E w \in Workers, t \in Tiers, j \in Keys : Take(w, t, j)
    <3>1. pending["viewed"] \subseteq pending'["viewed"]
      BY <1>t, <2>7, TiersGrow
    <3>2. \/ \E w \in Workers, j \in Keys : TakeViewed(w, j) \/ TakeClusterList(w, j) \/ TakeNormal(w, j)
          \/ \E j \in Keys : PromoteOnArm(j) \/ PromoteEnqueue(j) \/ Arm(j)
          \/ \E w \in Workers : ConsumeTriggers(w)
          \/ UNCHANGED <<arm, promoted>>
      BY <1>2, Steps, PromotionFrame, Zenon
    <3>3. ~\E w \in Workers, j \in Keys : TakeViewed(w, j) \/ TakeClusterList(w, j) \/ TakeNormal(w, j)
      BY <2>7, Zenon DEF TakeViewed, TakeClusterList, TakeNormal, Tiers
    <3> QED BY <2>1, <2>2, <2>3, <2>4, <2>6, <3>1, <3>2, <3>3
  <2> QED BY <2>5, <2>7
<1> QED BY <1>1, <1>2

\* A queued or delayed key stays so, or is in a worker's hands.
LEMMA QueuedStays ==
    ASSUME TypeOK, Next, NEW t \in Tiers, NEW k \in Keys, k \in pending[t] \cup delayed[t]
    PROVE  \/ \E u \in Tiers : k \in pending'[u] \cup delayed'[u]
           \/ \E w \in Workers : wk'[w].key = k /\ wk'[w].pc = "got"
<1> USE TypeFacts
<1>1. CASE k \in pending[t]
  <2>1. CASE \E w \in Workers, u \in Tiers, j \in Keys : Take(w, u, j)
    <3> PICK w \in Workers, u \in Tiers, j \in Keys : Take(w, u, j)
      BY <2>1
    <3>1. k \in pending'[t] \/ j = k
      BY <1>1 DEF Take, QueueTypeOK
    <3> QED BY <3>1, TakeMoves
  <2>2. CASE \A u \in Tiers : pending[u] \subseteq pending'[u]
    BY <1>1, <2>2
  <2> QED BY <2>1, <2>2, TiersGrow
<1>2. CASE k \in delayed[t]
  <2>1. CASE \E u \in Tiers, j \in Keys : DelayExpires(u, j)
    BY <1>2, <2>1 DEF DelayExpires, Enqueue, QueueTypeOK
  <2> QED BY <1>2, <2>1, DelaysGrow
<1> QED BY <1>1, <1>2

\* A claimed key waits for its worker.
LEMMA ClaimedStays ==
    ASSUME TypeOK, Next, NEW w \in Workers, wk[w].pc = "claimed"
    PROVE  \/ SkipSuppressed(w) \/ Floor(w) \/ ConsumeTriggers(w)
           \/ wk'[w].pc = "claimed" /\ wk'[w].key = wk[w].key
<1> USE TypeFacts, Guards
<1>a. ASSUME NEW v \in Workers, Only(v), v # w PROVE wk'[w] = wk[w]
  BY <1>a DEF Only
<1>1. CASE wk' = wk
  BY <1>1
<1>2. CASE \E k \in Keys : Evict(k)
  BY <1>2, EvictMoves
<1>3. CASE \E v \in Workers, k \in Keys :
             TakeViewed(v, k) \/ TakeClusterList(v, k) \/ TakeNormal(v, k)
  <2> PICK v \in Workers, k \in Keys : TakeViewed(v, k) \/ TakeClusterList(v, k) \/ TakeNormal(v, k)
    BY <1>3
  <2>1. Only(v) /\ v # w
    BY TakeMoves DEF TakeViewed, TakeClusterList, TakeNormal, Tiers
  <2> QED BY <1>a, <2>1
<1>4. CASE \E v \in Workers : TakeWake(v) \/ Release(v) \/ Done(v)
  BY <1>4, <1>a, IdleMoves
<1>5. CASE \E v \in Workers : SkipSuppressed(v) \/ Floor(v) \/ Settle(v)
  BY <1>5, <1>a, EndingMoves
<1>6. CASE \E v \in Workers : Block(v) \/ CheckAndClaim(v) \/ ConsumeTriggers(v) \/ BeginRefresh(v)
  BY <1>6, <1>a, BlockMoves, ClaimMoves, ConsumeMoves, BeginMoves DEF Keeps
<1>7. CASE \E v \in Workers : Accept(v) \/ NothingToReplace(v) \/ Decline(v) \/ Fail(v)
  BY <1>7, <1>a, OutcomeMoves DEF Keeps
<1> QED BY <1>1, <1>2, <1>3, <1>4, <1>5, <1>6, <1>7, Steps, WorkerFrame, Zenon

\* A mark past its merge reaches a queue.
LEMMA MarkStays ==
    ASSUME TypeOK, WorkerShape, Next, NEW a \in Actors, mark[a].pc \in {"window", "route"}
    PROVE  \/ mark'[a].key = mark[a].key /\ mark'[a].pc \in {"window", "route"}
           \/ \E t \in Tiers : mark[a].key \in pending'[t]
<1> USE TypeFacts, PoolFacts
<1>1. CASE \E b \in Actors : MarkMerge(b) \/ MarkWindow(b)
  BY <1>1 DEF MarkMerge, MarkWindow, WorkerTypeOK
<1>2. CASE \E b \in Actors : MarkRoute(b)
  <2> PICK b \in Actors : MarkRoute(b)
    BY <1>2
  <2>1. b # a => mark'[a] = mark[a]
    BY DEF MarkRoute, WorkerTypeOK
  <2>2. RouteTier(mark[b].key) \in Tiers
    BY DEF RouteTier, OwnTier, Tiers
  <2>3. mark[b].key \in pending'[RouteTier(mark[b].key)]
    BY <2>2 DEF MarkRoute, Enqueue
  <2> QED BY <2>1, <2>2, <2>3
<1>3. CASE \E k \in Keys : InputEvent(k)
  BY <1>3 DEF InputEvent, WorkerTypeOK
<1>4. CASE \E k \in Keys : \E start \in 0..seq : CustomerPut(k, start)
  BY <1>4 DEF CustomerPut, WorkerTypeOK
<1>5. CASE \E w \in Workers : Accept(w)
  BY <1>5 DEF Accept, WorkerTypeOK, WorkerShape
<1>6. CASE mark' = mark
  BY <1>6
<1> QED BY <1>1, <1>2, <1>3, <1>4, <1>5, <1>6, Steps, MarkFrame, Zenon

\* An arm hook past its marker reaches the viewed queue.
LEMMA ArmStays ==
    ASSUME TypeOK, Next, NEW k \in Keys, arm[k] = "enqueue"
    PROVE  arm'[k] = "enqueue" \/ k \in pending'["viewed"]
<1> USE TypeFacts
<1>1. CASE \E j \in Keys : PromoteOnArm(j) \/ Arm(j)
  BY <1>1 DEF PromoteOnArm, Arm, CellTypeOK
<1>2. CASE \E j \in Keys : PromoteEnqueue(j)
  BY <1>2 DEF PromoteEnqueue, Enqueue, CellTypeOK, Tiers
<1>3. CASE arm' = arm
  BY <1>3
<1>4. CASE \/ \E w \in Workers : CheckAndClaim(w) \/ ConsumeTriggers(w)
           \/ \E w \in Workers, j \in Keys : TakeViewed(w, j) \/ TakeClusterList(w, j) \/ TakeNormal(w, j)
  BY <1>3, <1>4, Zenon DEF CheckAndClaim, ConsumeTriggers, TakeViewed, TakeClusterList, TakeNormal, Take, viewVars
<1> QED BY <1>1, <1>2, <1>3, <1>4, Steps, PromotionFrame, Zenon

\* A deferred dequeue is routed again when the claim is released.
LEMMA DeferredStays ==
    ASSUME TypeOK, Next, NEW k \in Keys, inFlight[k] = "deferred"
    PROVE  inFlight'[k] = "deferred" \/ \E t \in Tiers : k \in pending'[t]
<1> USE TypeFacts
<1>1. CASE \E w \in Workers : CheckAndClaim(w)
  BY <1>1 DEF CheckAndClaim, Claimed, KeyTypeOK
<1>2. CASE \E w \in Workers : Release(w)
  <2> PICK w \in Workers : Release(w)
    BY <1>2
  <2>1. k # wk[w].key => inFlight'[k] = inFlight[k]
    BY DEF Release, KeyTypeOK
  <2>2. RouteTier(k) \in Tiers
    BY DEF RouteTier, OwnTier, Tiers
  <2>3. k = wk[w].key => k \in pending'[RouteTier(k)]
    BY <2>2 DEF Release, GiveBack
  <2> QED BY <2>1, <2>2, <2>3
<1>3. CASE inFlight' = inFlight
  BY <1>3
<1> QED BY <1>1, <1>2, <1>3, Steps, ClaimFrame, Zenon

\* A dequeue on its way stays so until a worker checks, skips, defers or consumes it.
LEMMA ComingStays ==
    ASSUME TypeOK, WorkerShape, Next, NEW k \in Keys, Coming(k)
    PROVE  \/ Coming(k)'
           \/ \E w \in Workers : wk[w].key = k /\ \/ CheckAndClaim(w) \/ SkipSuppressed(w)
                                                  \/ Floor(w) \/ ConsumeTriggers(w)
<1>t. "viewed" \in Tiers
  BY DEF Tiers
<1>1. CASE \E t \in Tiers : k \in pending[t] \cup delayed[t]
  <2>1. \/ \E u \in Tiers : k \in pending'[u] \cup delayed'[u]
        \/ \E w \in Workers : wk'[w].key = k /\ wk'[w].pc = "got"
    BY <1>1, QueuedStays
  <2> QED BY <2>1, Zenon DEF Coming
<1>2. CASE \E w \in Workers : wk[w].key = k /\ wk[w].pc \in {"got", "claimed"}
  <2> PICK w \in Workers : wk[w].key = k /\ wk[w].pc \in {"got", "claimed"}
    BY <1>2
  <2>1. \/ CheckAndClaim(w) \/ SkipSuppressed(w) \/ Floor(w) \/ ConsumeTriggers(w)
        \/ wk'[w].key = k /\ wk'[w].pc \in {"got", "claimed"}
    BY GotStays, ClaimedStays
  <2> QED BY <2>1, Zenon DEF Coming
<1>3. CASE \E a \in Actors : mark[a].key = k /\ mark[a].pc \in {"window", "route"}
  <2>1. \/ \E a \in Actors : mark'[a].key = k /\ mark'[a].pc \in {"window", "route"}
        \/ \E t \in Tiers : k \in pending'[t]
    BY <1>3, MarkStays
  <2> QED BY <2>1 DEF Coming
<1>4. CASE arm[k] = "enqueue"
  <2>1. arm'[k] = "enqueue" \/ k \in pending'["viewed"]
    BY <1>4, ArmStays
  <2> QED BY <1>t, <2>1 DEF Coming
<1>5. CASE inFlight[k] = "deferred"
  <2>1. inFlight'[k] = "deferred" \/ \E t \in Tiers : k \in pending'[t]
    BY <1>5, DeferredStays
  <2> QED BY <2>1 DEF Coming
<1> QED BY <1>1, <1>2, <1>3, <1>4, <1>5 DEF Coming

\* Who adds no trigger: all but a merge and the restoration of a retry.
LEMMA TriggersGrow ==
    ASSUME TypeOK, Next, NEW k \in Keys, k \in triggers', k \notin triggers
    PROVE  \/ \E a \in Actors : MarkMerge(a) /\ mark[a].key = k /\ Resident(k)
           \/ \E w \in Workers : Settle(w) /\ wk[w].key = k /\ wk[w].out = "retry"
<1>1. CASE \E a \in Actors : MarkMerge(a)
  BY <1>1 DEF MarkMerge
<1>2. CASE \E w \in Workers : Settle(w)
  BY <1>2 DEF Settle, Restored
<1>3. CASE triggers' \subseteq triggers
  BY <1>3
<1>4. CASE \E w \in Workers : SkipSuppressed(w) \/ ConsumeTriggers(w)
  BY <1>3, <1>4 DEF SkipSuppressed, ConsumeTriggers
<1>5. CASE \/ \E j \in Keys : \/ InputEvent(j) \/ PromoteOnArm(j) \/ PromoteEnqueue(j) \/ Arm(j)
                              \/ Disarm(j) \/ EnqueueRefresh(j) \/ RevalidateInBackground(j) \/ Evict(j)
           \/ \E j \in Keys : \E start \in 0..seq : CustomerPut(j, start)
           \/ \E t \in Tiers, j \in Keys : DelayExpires(t, j)
           \/ \E a \in Actors : MarkWindow(a) \/ MarkRoute(a)
  BY <1>3, <1>5 DEF InputEvent, PromoteOnArm, PromoteEnqueue, Arm, Disarm, EnqueueRefresh,
     RevalidateInBackground, Evict, CustomerPut, DelayExpires, MarkWindow, MarkRoute
<1>6. CASE \/ \E w \in Workers, j \in Keys :
                TakeViewed(w, j) \/ TakeClusterList(w, j) \/ TakeNormal(w, j)
           \/ \E w \in Workers :
                \/ Block(w) \/ TakeWake(w) \/ CheckAndClaim(w) \/ Floor(w) \/ BeginRefresh(w)
                \/ Accept(w) \/ NothingToReplace(w) \/ Decline(w) \/ Fail(w) \/ Release(w) \/ Done(w)
  BY <1>3, <1>6 DEF TakeViewed, TakeClusterList, TakeNormal, Take, Block, TakeWake, CheckAndClaim,
     Floor, BeginRefresh, Accept, NothingToReplace, Decline, Fail, Release, Done
<1> QED BY <1>1, <1>2, <1>4, <1>5, <1>6, Steps, Zenon

\* A dequeue that is skipped leaves the triggers to the copy of another tier.
LEMMA TriggersStep ==
    ASSUME TypeOK, WorkerShape, PromotedComing, TriggersComing, Next
    PROVE  TriggersComing'
<1> USE TypeFacts
<1>s. SUFFICES ASSUME NEW k \in triggers' PROVE Coming(k)'
  BY Zenon DEF TriggersComing
<1>k. k \in Keys
  BY KeyTypeStep DEF KeyTypeOK
<1>1. CASE k \notin triggers
  <2>1. CASE \E a \in Actors : MarkMerge(a) /\ mark[a].key = k /\ Resident(k)
    <3>1. \E a \in Actors : mark'[a].key = k /\ mark'[a].pc = "window"
      BY <2>1 DEF MarkMerge, WorkerTypeOK
    <3> QED BY <3>1 DEF Coming
  <2>2. CASE \E w \in Workers : Settle(w) /\ wk[w].key = k /\ wk[w].out = "retry"
    <3>1. \E t \in Tiers : k \in delayed'[t]
      BY <2>2 DEF Settle, Deferred, QueueTypeOK
    <3> QED BY <3>1 DEF Coming
  <2> QED BY <1>1, <1>k, <2>1, <2>2, TriggersGrow
<1>2. CASE k \in triggers
  <2>1. CASE \E w \in Workers : wk[w].key = k /\ CheckAndClaim(w)
    <3> PICK w \in Workers : wk[w].key = k /\ CheckAndClaim(w)
      BY <2>1
    <3>0. UNCHANGED <<arm, pending, triggers>>
      BY DEF CheckAndClaim, viewVars
    <3>1. Only(w) /\ wk'[w].key = k
      BY ClaimMoves DEF Keeps
    <3>2. CASE Skips(k, wk[w].tier)
      <4>1. wk[w].tier # "viewed" /\ promoted[k] = "pending"
        BY <1>2, <3>2 DEF Skips
      <4>2. \/ arm[k] = "enqueue" \/ k \in pending["viewed"]
            \/ \E v \in Workers : wk[v].key = k /\ wk[v].pc = "got" /\ wk[v].tier = "viewed"
        BY <1>k, <4>1 DEF PromotedComing
      <4>3. \/ arm'[k] = "enqueue" \/ k \in pending'["viewed"]
            \/ \E v \in Workers : wk'[v].key = k /\ wk'[v].pc = "got"
        BY <3>0, <3>1, <4>1, <4>2 DEF Only
      <4> QED BY <4>3 DEF Coming, Tiers
    <3>3. CASE ~Skips(k, wk[w].tier)
      <4>1. inFlight'[k] = "deferred" \/ wk'[w].pc = "claimed"
        BY <1>k, <3>3, ClaimMoves DEF CheckAndClaim, Claimed, KeyTypeOK
      <4> QED BY <3>1, <4>1 DEF Coming
    <3> QED BY <3>2, <3>3
  <2>2. CASE \E w \in Workers : wk[w].key = k /\ (SkipSuppressed(w) \/ ConsumeTriggers(w))
    BY <1>s, <2>2 DEF SkipSuppressed, ConsumeTriggers
  <2>3. CASE \E w \in Workers : wk[w].key = k /\ Floor(w)
    <3>1. \E t \in Tiers : k \in delayed'[t]
      BY <2>3 DEF Floor, Deferred, QueueTypeOK
    <3> QED BY <3>1 DEF Coming
  <2>4. Coming(k)
    BY <1>2 DEF TriggersComing
  <2> QED BY <1>k, <2>1, <2>2, <2>3, <2>4, ComingStays
<1> QED BY <1>1, <1>2

----------------------------------------------------------------------------
\* A stale body is noticed.

\* What keeps the notice of a key.
LEMMA NoticeStays ==
    ASSUME NEW k \in Keys, Noticed(k),
           window[k].stale => window'[k].stale,
           window[k].inflight => window'[k].inflight,
           k \in unflagged => k \in unflagged', k \in triggers => k \in triggers',
           \A a \in Actors : mark[a].key = k /\ mark[a].pc = "decide" => mark'[a] = mark[a],
           \A w \in Workers : Carries(w, k) => wk'[w] = wk[w]
    PROVE  Noticed(k)'
<1>1. CASE \E w \in Workers : Carries(w, k)
  <2> PICK w \in Workers : Carries(w, k)
    BY <1>1
  <2>1. Carries(w, k)'
    BY Zenon DEF Carries
  <2> QED BY <2>1, Zenon DEF Noticed
<1>2. CASE ~\E w \in Workers : Carries(w, k)
  BY <1>2 DEF Noticed, KnownStale
<1> QED BY <1>1, <1>2

\* Who touches nothing that a notice is made of.
LEMMA NoticeFrame ==
    ASSUME \/ \E k \in Keys : \/ PromoteOnArm(k) \/ PromoteEnqueue(k) \/ Arm(k) \/ Disarm(k)
                              \/ EnqueueRefresh(k) \/ RevalidateInBackground(k)
           \/ \E t \in Tiers, k \in Keys : DelayExpires(t, k)
           \/ \E w \in Workers, k \in Keys :
                TakeViewed(w, k) \/ TakeClusterList(w, k) \/ TakeNormal(w, k)
           \/ \E w \in Workers :
                \/ Block(w) \/ TakeWake(w) \/ CheckAndClaim(w) \/ Floor(w) \/ NothingToReplace(w)
                \/ Decline(w) \/ Fail(w) \/ Release(w) \/ Done(w)
    PROVE  UNCHANGED <<ev, asOf, window, triggers, unflagged, mark>>
  BY Zenon DEF PromoteOnArm, PromoteEnqueue, Arm, Disarm, EnqueueRefresh, RevalidateInBackground,
     DelayExpires, TakeViewed, TakeClusterList, TakeNormal, Take, Block, TakeWake, CheckAndClaim, Floor,
     NothingToReplace, Decline, Fail, Release, Done, cellVars

\* The marks, the Puts and the removals.
LEMMA NoticeByOthers ==
    ASSUME TypeOK, WorkerShape, StaleNoticed,
           \/ \E k \in Keys : InputEvent(k) \/ Evict(k)
           \/ \E k \in Keys : \E start \in 0..seq : CustomerPut(k, start)
           \/ \E a \in Actors : MarkMerge(a) \/ MarkWindow(a) \/ MarkRoute(a)
    PROVE  StaleNoticed'
<1> USE TypeFacts, PoolFacts
<1>s. SUFFICES ASSUME NEW j \in Keys, Overtaken(j)' PROVE Noticed(j)'
  BY Zenon DEF StaleNoticed
<1>a. ASSUME asOf'[j] = asOf[j], ev'[j] = ev[j] PROVE Noticed(j) /\ Resident(j)
  BY <1>s, <1>a DEF StaleNoticed, Overtaken, Resident, NoCell
<1>1. CASE \E k \in Keys : InputEvent(k)
  <2> PICK k \in Keys : InputEvent(k)
    BY <1>1
  <2>1. /\ UNCHANGED <<asOf, window, triggers, unflagged, wk>>
        /\ ev' = [ev EXCEPT ![k] = seq + 1]
        /\ mark' = [mark EXCEPT !["bridge"] = [pc |-> "decide", key |-> k]]
        /\ mark["bridge"].pc = "idle"
    BY DEF InputEvent, cellVars
  <2>2. CASE j = k
    <3>1. mark'["bridge"].key = j /\ mark'["bridge"].pc = "decide"
      BY <2>1, <2>2 DEF WorkerTypeOK
    <3> QED BY <3>1, Zenon DEF Noticed
  <2>3. CASE j # k
    <3>1. asOf'[j] = asOf[j] /\ ev'[j] = ev[j]
      BY <2>1, <2>3 DEF CellTypeOK
    <3>2. \A a \in Actors : mark[a].pc = "decide" => mark'[a] = mark[a]
      BY <2>1 DEF WorkerTypeOK
    <3> QED BY <1>a, <2>1, <3>1, <3>2, NoticeStays
  <2> QED BY <2>2, <2>3
<1>2. CASE \E k \in Keys : Evict(k)
  <2> PICK k \in Keys : Evict(k)
    BY <1>2
  <2>1. UNCHANGED <<ev, triggers, mark>> /\ RemoveCell(k)
    BY DEF Evict
  <2>2. j # k /\ asOf'[j] = asOf[j] /\ ev'[j] = ev[j]
    BY <1>s, <2>1 DEF RemoveCell, Overtaken, Resident, CellTypeOK
  <2>3. window'[j] = window[j] /\ (j \in unflagged => j \in unflagged')
    BY <2>1, <2>2, WindowEffects DEF RemoveCell
  <2>4. \A w \in Workers : Carries(w, j) => wk'[w] = wk[w]
    BY <2>2, EvictMoves DEF Carries
  <2> QED BY <1>a, <2>1, <2>2, <2>3, <2>4, NoticeStays
<1>3. CASE \E k \in Keys : \E start \in 0..seq : CustomerPut(k, start)
  <2> PICK k \in Keys, start \in 0..seq : CustomerPut(k, start)
    BY <1>3
  <2>1. /\ UNCHANGED <<ev, triggers, wk>> /\ StorePut(k, start)
        /\ mark' = IF Remarks(k, start)
                   THEN [mark EXCEPT !["customer"] = [pc |-> "decide", key |-> k]] ELSE mark
        /\ mark["customer"].pc = "idle"
    BY DEF CustomerPut
  <2>2. CASE j = k
    <3>1. asOf'[j] = start /\ ev'[j] = ev[j]
      BY <2>1, <2>2 DEF StorePut, CellTypeOK
    <3>2. Remarks(k, start)
      BY <1>s, <2>2, <3>1 DEF Overtaken, Remarks, CellTypeOK
    <3>3. mark'["customer"].key = j /\ mark'["customer"].pc = "decide"
      BY <2>1, <2>2, <3>2 DEF WorkerTypeOK
    <3> QED BY <3>3, Zenon DEF Noticed
  <2>3. CASE j # k
    <3>1. asOf'[j] = asOf[j] /\ ev'[j] = ev[j] /\ (j \in unflagged => j \in unflagged')
      BY <2>1, <2>3 DEF StorePut, CellTypeOK
    <3>2. \A a \in Actors : mark[a].pc = "decide" => mark'[a] = mark[a]
      BY <2>1 DEF WorkerTypeOK
    <3>3. window'[j] = window[j]
      BY <2>3, WindowEffects
    <3> QED BY <1>a, <2>1, <3>1, <3>2, <3>3, NoticeStays
  <2> QED BY <2>2, <2>3
<1>4. CASE \E a \in Actors : MarkMerge(a)
  <2> PICK a \in Actors : MarkMerge(a)
    BY <1>4
  <2>1. UNCHANGED <<ev, asOf, window, unflagged, wk>>
    BY DEF MarkMerge, cellVars
  <2>2. Noticed(j) /\ Resident(j)
    BY <1>a, <2>1
  <2>3. CASE mark[a].key = j
    <3>1. j \in triggers'
      BY <2>2, <2>3 DEF MarkMerge
    <3> QED BY <3>1 DEF Noticed
  <2>4. CASE mark[a].key # j
    <3>1. \A b \in Actors : mark[b].key = j => mark'[b] = mark[b]
      BY <2>4 DEF MarkMerge, WorkerTypeOK
    <3>2. triggers \subseteq triggers'
      BY DEF MarkMerge
    <3> QED BY <2>1, <2>2, <3>1, <3>2, NoticeStays
  <2> QED BY <2>3, <2>4
<1>5. CASE \E a \in Actors : MarkWindow(a) \/ MarkRoute(a)
  <2> PICK a \in Actors : MarkWindow(a) \/ MarkRoute(a)
    BY <1>5
  <2>1. UNCHANGED <<ev, asOf, triggers, unflagged, wk>>
    BY DEF MarkWindow, MarkRoute, cellVars
  <2>2. \A b \in Actors : mark[b].pc = "decide" => mark'[b] = mark[b]
    BY DEF MarkWindow, MarkRoute, WorkerTypeOK
  <2>3. (window[j].stale => window'[j].stale) /\ (window[j].inflight => window'[j].inflight)
    BY WindowEffects, WindowFrame
  <2> QED BY <1>a, <2>1, <2>2, <2>3, NoticeStays
<1> QED BY <1>1, <1>2, <1>3, <1>4, <1>5

\* The steps of a refresh.
LEMMA NoticeByWorker ==
    ASSUME TypeOK, WorkerShape, StaleNoticed, NEW w \in Workers,
           \/ SkipSuppressed(w) \/ ConsumeTriggers(w) \/ BeginRefresh(w) \/ Accept(w)
           \/ NothingToReplace(w) \/ Decline(w) \/ Fail(w)
    PROVE  StaleNoticed'
<1> USE TypeFacts, PoolFacts, Guards
<1> DEFINE k == wk[w].key
<1>s. SUFFICES ASSUME NEW j \in Keys, Overtaken(j)' PROVE Noticed(j)'
  BY Zenon DEF StaleNoticed
<1>a. ASSUME asOf'[j] = asOf[j], ev'[j] = ev[j] PROVE Noticed(j) /\ Resident(j)
  BY <1>s, <1>a DEF StaleNoticed, Overtaken, Resident, NoCell
<1>1. CASE SkipSuppressed(w)
  <2>1. UNCHANGED <<ev, asOf, mark>> /\ triggers' = triggers \ {k} /\ unflagged' = Failed(k, "declined", Open(k))
    BY <1>1 DEF SkipSuppressed, cellVars
  <2>2. CASE j = k
    <3>1. window'[k].stale \/ k \in unflagged'
      BY <1>1, <2>1, WindowEffects DEF Failed
    <3> QED BY <2>2, <3>1 DEF Noticed, KnownStale
  <2>3. CASE j # k
    <3>1. Only(w) /\ wk[w].pc = "claimed"
      BY <1>1, EndingMoves
    <3>2. \A v \in Workers : Carries(v, j) => wk'[v] = wk[v]
      BY <3>1 DEF Carries, Only
    <3>3. window'[j] = window[j] /\ (j \in unflagged => j \in unflagged') /\ (j \in triggers => j \in triggers')
      BY <1>1, <2>1, <2>3, WindowEffects DEF Failed
    <3> QED BY <1>a, <2>1, <3>2, <3>3, NoticeStays
  <2> QED BY <2>2, <2>3
<1>2. CASE ConsumeTriggers(w)
  <2>1. UNCHANGED <<ev, asOf, mark, window, unflagged>> /\ triggers' = triggers \ {k}
    BY <1>2 DEF ConsumeTriggers, cellVars
  <2>2. Noticed(j) /\ Resident(j)
    BY <1>a, <2>1
  <2>3. /\ Only(w) /\ wk[w].pc = "claimed" /\ wk'[w].pc = "begin" /\ wk'[w].key = k
        /\ wk'[w].out = "none" /\ ~wk'[w].gone
        /\ wk'[w].had = Resident(k) /\ wk'[w].trig = (k \in triggers)
    BY <1>2, ConsumeMoves DEF Keeps, WorkerShape
  <2>4. CASE j = k /\ k \in triggers
    <3>1. Carries(w, j)'
      BY <2>2, <2>3, <2>4 DEF Carries
    <3> QED BY <3>1, Zenon DEF Noticed
  <2>5. CASE ~(j = k /\ k \in triggers)
    <3>1. \A v \in Workers : Carries(v, j) => wk'[v] = wk[v]
      BY <2>3 DEF Carries, Only
    <3>2. j \in triggers => j \in triggers'
      BY <2>1, <2>5
    <3> QED BY <2>1, <2>2, <3>1, <3>2, NoticeStays
  <2> QED BY <2>4, <2>5
<1>3. CASE BeginRefresh(w)
  <2>1. UNCHANGED <<ev, asOf, mark, unflagged, triggers>>
    BY <1>3 DEF BeginRefresh, cellVars
  <2>2. Noticed(j)
    BY <1>a, <2>1
  <2>3. /\ Only(w) /\ wk[w].pc = "begin" /\ wk'[w].pc = "resolving" /\ wk'[w].key = k
        /\ wk'[w].out = wk[w].out /\ wk'[w].gone = wk[w].gone /\ wk'[w].had = wk[w].had
        /\ wk'[w].trig = wk[w].trig /\ wk'[w].open = Open(k)
    BY <1>3, BeginMoves DEF Keeps
  <2>4. /\ window'[k].inflight <=> Open(k)
        /\ window'[k].stale <=> window[k].stale
        /\ \A i \in Keys \ {k} : window'[i] = window[i]
    BY <1>3, WindowEffects
  <2>5. window[k].inflight => Open(k)
    BY StampFacts DEF Open
  <2>6. CASE Carries(w, j)
    <3>1. Carries(w, j)'
      BY <2>3, <2>4, <2>6 DEF Carries
    <3> QED BY <3>1, Zenon DEF Noticed
  <2>7. CASE ~Carries(w, j)
    <3>1. \A v \in Workers : Carries(v, j) => wk'[v] = wk[v]
      BY <2>3, <2>7 DEF Only
    <3>2. (window[j].stale => window'[j].stale) /\ (window[j].inflight => window'[j].inflight)
      BY <2>4, <2>5
    <3> QED BY <2>1, <2>2, <3>1, <3>2, NoticeStays
  <2> QED BY <2>6, <2>7
<1>4. CASE Accept(w)
  <2> DEFINE start == wk[w].start
  <2>1. /\ UNCHANGED <<ev, triggers>> /\ StorePut(k, start)
        /\ mark' = IF Remarks(k, start) THEN [mark EXCEPT ![w] = [pc |-> "decide", key |-> k]] ELSE mark
    BY <1>4 DEF Accept
  <2>2. Only(w) /\ wk[w].pc = "resolving" /\ mark[w].pc = "idle"
    BY <1>4, OutcomeMoves DEF Keeps, WorkerShape
  <2>3. CASE j = k
    <3>1. asOf'[j] = start /\ ev'[j] = ev[j]
      BY <2>1, <2>3 DEF StorePut, CellTypeOK
    <3>2. Remarks(k, start)
      BY <1>s, <2>3, <3>1 DEF Overtaken, Remarks, CellTypeOK
    <3>3. mark'[w].key = j /\ mark'[w].pc = "decide"
      BY <2>1, <2>3, <3>2 DEF WorkerTypeOK
    <3> QED BY <3>3, Zenon DEF Noticed
  <2>4. CASE j # k
    <3>1. asOf'[j] = asOf[j] /\ ev'[j] = ev[j] /\ (j \in unflagged => j \in unflagged')
      BY <2>1, <2>4 DEF StorePut, CellTypeOK
    <3>2. \A a \in Actors : mark[a].pc = "decide" => mark'[a] = mark[a]
      BY <2>1, <2>2 DEF WorkerTypeOK
    <3>3. window'[j] = window[j]
      BY <1>4, <2>4, WindowEffects
    <3>4. \A v \in Workers : Carries(v, j) => wk'[v] = wk[v]
      BY <2>2, <2>4 DEF Carries, Only
    <3> QED BY <1>a, <2>1, <3>1, <3>2, <3>3, <3>4, NoticeStays
  <2> QED BY <2>3, <2>4
<1>5. CASE NothingToReplace(w) \/ Decline(w) \/ Fail(w)
  <2>1. UNCHANGED <<ev, asOf, window, triggers, unflagged, mark>>
    BY <1>5, NoticeFrame
  <2>2. Noticed(j) /\ Resident(j)
    BY <1>a, <2>1
  <2>3. /\ Only(w) /\ KeepsNotes(w) /\ Outcomes(w) /\ wk[w].pc = "resolving" /\ wk'[w].pc = "settle"
        /\ wk'[w].key = k
    BY <1>5, OutcomeMoves DEF Keeps
  <2>4. CASE Carries(w, j)
    <3>1. ~NothingToReplace(w)
      BY <2>2, <2>4 DEF Carries, NothingToReplace
    <3>2. wk'[w].out \in {"retry", "declined", "dropped", "selfgone"}
      BY <1>5, <2>3, <3>1 DEF Outcomes
    <3>3. Carries(w, j)'
      BY <2>1, <2>3, <2>4, <3>2 DEF Carries, KeepsNotes
    <3> QED BY <3>3, Zenon DEF Noticed
  <2>5. CASE ~Carries(w, j)
    <3>1. \A v \in Workers : Carries(v, j) => wk'[v] = wk[v]
      BY <2>3, <2>5 DEF Only
    <3> QED BY <2>1, <2>2, <3>1, NoticeStays
  <2> QED BY <2>4, <2>5
<1> QED BY <1>1, <1>2, <1>3, <1>4, <1>5

\* An outcome leaves a flag, a trigger or, without a window, the history of both.
LEMMA NoticeBySettle ==
    ASSUME TypeOK, WorkerShape, ClaimsOwned, StampOwner, StaleKept, StaleNoticed,
           NEW w \in Workers, Settle(w)
    PROVE  StaleNoticed'
<1> USE TypeFacts, Guards
<1> DEFINE k == wk[w].key
           o == wk[w].out
<1>s. SUFFICES ASSUME NEW j \in Keys, Overtaken(j)' PROVE Noticed(j)'
  BY Zenon DEF StaleNoticed
<1>0. /\ UNCHANGED <<ev, mark>> /\ wk[w].pc = "settle"
      /\ o = "retry" => triggers' = Restored(w)
      /\ o # "retry" => triggers' = triggers
  BY DEF Settle
<1>t. triggers \subseteq triggers'
  BY <1>0 DEF Restored
<1>1. \/ o = "selfgone" /\ Resident(k) /\ RemoveCell(k)
      \/ ~(o = "selfgone" /\ Resident(k)) /\ asOf' = asOf /\ unflagged' = Failed(k, o, wk[w].open)
  BY DEF Settle, cellVars
<1>2. asOf'[j] = asOf[j] /\ ev'[j] = ev[j] /\ (j \in unflagged => j \in unflagged')
      /\ (j = k => o # "selfgone" /\ unflagged' = Failed(k, o, wk[w].open))
  BY <1>0, <1>1, <1>s DEF RemoveCell, Failed, Overtaken, Resident, CellTypeOK
<1>3. Noticed(j) /\ Resident(j)
  BY <1>s, <1>2 DEF StaleNoticed, Overtaken, Resident, NoCell
<1>4. Only(w) /\ wk'[w].pc = "release"
  BY EndingMoves
<1>5. CASE j # k
  <2>1. window'[j] = window[j]
    BY <1>5, SettleEffects
  <2>2. \A v \in Workers : Carries(v, j) => wk'[v] = wk[v]
    BY <1>4, <1>5 DEF Carries, Only
  <2> QED BY <1>0, <1>t, <1>2, <1>3, <2>1, <2>2, NoticeStays
<1>6. CASE j = k
  <2>1. CASE KnownStale(k)
    <3>1. o \notin {"fresh", "remarked", "evicted"}
      BY <1>0, <1>3, <1>6, <2>1 DEF StaleKept
    <3>2. o \in {"retry", "declined", "dropped"}
      BY <1>2, <1>6, <3>1, SettleEffects DEF Outs
    <3>3. window'[k].stale
      BY <2>1, <3>2, SettleEffects DEF KnownStale
    <3> QED BY <1>6, <3>3 DEF Noticed, KnownStale
  <2>2. CASE k \in unflagged \/ k \in triggers
    BY <1>t, <1>2, <1>6, <2>2 DEF Noticed
  <2>3. CASE \E a \in Actors : mark[a].key = k /\ mark[a].pc = "decide"
    BY <1>0, <1>6, <2>3 DEF Noticed
  <2>4. CASE \E v \in Workers : Carries(v, k)
    <3>1. Carries(w, k)
      BY <1>0, <2>4 DEF Carries, ClaimsOwned, Claiming
    <3>2. o \in {"retry", "declined", "dropped"} /\ wk[w].trig /\ (wk[w].open => window[k].inflight)
      BY <1>0, <1>2, <1>6, <3>1, SettleEffects DEF Carries, Outs
    <3>3. CASE o = "retry"
      <4>1. k \in triggers'
        BY <1>0, <3>2, <3>3 DEF Restored
      <4> QED BY <1>6, <4>1 DEF Noticed
    <3>4. CASE o \in {"declined", "dropped"} /\ wk[w].open
      <4>1. window'[k].stale
        BY <3>2, <3>4, SettleEffects
      <4> QED BY <1>6, <4>1 DEF Noticed, KnownStale
    <3>5. CASE o \in {"declined", "dropped"} /\ ~wk[w].open
      <4>1. k \in unflagged'
        BY <1>2, <1>6, <3>5 DEF Failed
      <4> QED BY <1>6, <4>1 DEF Noticed
    <3> QED BY <3>2, <3>3, <3>4, <3>5
  <2> QED BY <1>3, <1>6, <2>1, <2>2, <2>3, <2>4 DEF Noticed
<1> QED BY <1>5, <1>6

\* Every step keeps a stale body noticed.
LEMMA NoticedStep ==
    ASSUME TypeOK, WorkerShape, ClaimsOwned, StampOwner, StaleKept, StaleNoticed, Next
    PROVE  StaleNoticed'
<1> USE TypeFacts, Guards
<1>a. ASSUME UNCHANGED <<ev, asOf, window, triggers, unflagged, mark>>,
             \A w \in Workers, k \in Keys : Carries(w, k) => wk'[w] = wk[w]
      PROVE  StaleNoticed'
  <2> SUFFICES ASSUME NEW j \in Keys, Overtaken(j)' PROVE Noticed(j)'
    BY Zenon DEF StaleNoticed
  <2>1. Noticed(j)
    BY <1>a DEF StaleNoticed, Overtaken, Resident
  <2> QED BY <1>a, <2>1, NoticeStays
<1>b. ASSUME NEW w \in Workers, Only(w), wk[w].pc \notin {"begin", "resolving", "settle"},
             UNCHANGED <<ev, asOf, window, triggers, unflagged, mark>>
      PROVE  StaleNoticed'
  BY <1>a, <1>b DEF Only, Carries
<1>1. CASE \/ \E k \in Keys : \/ PromoteOnArm(k) \/ PromoteEnqueue(k) \/ Arm(k) \/ Disarm(k)
                              \/ EnqueueRefresh(k) \/ RevalidateInBackground(k)
           \/ \E t \in Tiers, k \in Keys : DelayExpires(t, k)
  BY <1>a, <1>1, NoticeFrame, WorkerFrame
<1>2. CASE \/ \E k \in Keys : InputEvent(k) \/ Evict(k)
           \/ \E k \in Keys : \E start \in 0..seq : CustomerPut(k, start)
           \/ \E a \in Actors : MarkMerge(a) \/ MarkWindow(a) \/ MarkRoute(a)
  BY <1>2, NoticeByOthers
<1>3. CASE \E w \in Workers, k \in Keys :
             TakeViewed(w, k) \/ TakeClusterList(w, k) \/ TakeNormal(w, k)
  BY <1>b, <1>3, TakeMoves, NoticeFrame DEF TakeViewed, TakeClusterList, TakeNormal, Tiers
<1>4. CASE \E w \in Workers : TakeWake(w) \/ Release(w) \/ Done(w)
  BY <1>b, <1>4, IdleMoves, NoticeFrame
<1>5. CASE \E w \in Workers : Floor(w)
  BY <1>b, <1>5, EndingMoves, NoticeFrame
<1>6. CASE \E w \in Workers : Block(w) \/ CheckAndClaim(w)
  BY <1>b, <1>6, BlockMoves, ClaimMoves, NoticeFrame DEF Keeps
<1>7. CASE \E w \in Workers :
             \/ SkipSuppressed(w) \/ ConsumeTriggers(w) \/ BeginRefresh(w) \/ Accept(w)
             \/ NothingToReplace(w) \/ Decline(w) \/ Fail(w)
  BY <1>7, NoticeByWorker
<1>8. CASE \E w \in Workers : Settle(w)
  BY <1>8, NoticeBySettle
<1> QED BY <1>1, <1>2, <1>3, <1>4, <1>5, <1>6, <1>7, <1>8, Steps, Zenon

----------------------------------------------------------------------------
\* The invariant.
LEMMA InitIInv ==
    ASSUME Init
    PROVE  IInv
<1> USE IdleFacts, PoolFacts DEF Init
<1>a. CellTypeOK
  BY DEF CellTypeOK
<1>c. 0 \in 0..MaxRequeues /\ 0 \in 0..Parallelism
  OBVIOUS
<1>b. QueueTypeOK
  <2>1. requeues \in [Tiers -> [Keys -> 0..MaxRequeues]]
    BY <1>c
  <2>2. wake \in BOOLEAN /\ lastViewed \in BOOLEAN /\ viewedActive \in 0..Parallelism
    BY <1>c
  <2>3. pending \in [Tiers -> SUBSET Keys] /\ processing \in [Tiers -> SUBSET Keys]
        /\ delayed \in [Tiers -> SUBSET Keys]
    OBVIOUS
  <2> QED BY <2>1, <2>2, <2>3, Zenon DEF QueueTypeOK
<1>2. KeyTypeOK /\ WorkerTypeOK
  BY DEF KeyTypeOK, WorkerTypeOK
<1>3. \A w \in Workers : wk[w].pc = "probe" /\ mark[w].pc = "idle"
  OBVIOUS
<1>4. ClaimsOwned /\ WorkerShape /\ RetryBudget /\ StaleKept
  BY <1>3 DEF ClaimsOwned, Claiming, WorkerShape, RetryBudget, StaleKept
<1>5. StampOwner
  BY StampFacts DEF StampOwner
<1>6. PromotedComing /\ TriggersComing
  BY DEF PromotedComing, TriggersComing
<1>7. StaleNoticed
  BY DEF StaleNoticed, Overtaken
<1>8. Viewing = {}
  BY <1>3 DEF Viewing
<1>9. viewedActive = Cardinality(Viewing) /\ (Parallelism > 1 => Viewing # Workers)
  BY <1>8, FS_EmptySet, ConstantsAssumption
<1>10. WorkerReserved
  BY <1>9, Zenon DEF WorkerReserved, Viewing
<1>11. NoStrandedViewed
  BY DEF NoStrandedViewed, Ready, Tiers
<1> QED BY <1>a, <1>b, <1>2, <1>4, <1>5, <1>6, <1>7, <1>10, <1>11 DEF IInv, TypeOK

\* Every step keeps it.
LEMMA NextIInv ==
    ASSUME IInv, Next
    PROVE  IInv'
<1>1. /\ TypeOK /\ ClaimsOwned /\ WorkerShape /\ RetryBudget /\ StampOwner /\ StaleKept
      /\ PromotedComing /\ TriggersComing /\ StaleNoticed /\ WorkerReserved /\ NoStrandedViewed
  BY DEF IInv
<1>2. WorkerReserved'
  BY <1>1, ReservedStep
<1>3. (viewedActive \in 0..Parallelism)'
  BY <1>2, ReservedFacts, PTL
<1>4. QueueTypeOK'
  BY <1>1, <1>3, QueueTypeStep DEF QueueTypeOK
<1>5. TypeOK'
  BY <1>1, <1>4, CellTypeStep, KeyTypeStep, WorkerTypeStep DEF TypeOK
<1>6. ClaimsOwned' /\ WorkerShape' /\ RetryBudget' /\ StampOwner' /\ StaleKept'
  BY <1>1, ClaimsStep, ShapeStep, BudgetStep, OwnerStep, StaleKeptStep
<1>7. PromotedComing' /\ TriggersComing' /\ StaleNoticed' /\ NoStrandedViewed'
  BY <1>1, PromotedStep, TriggersStep, NoticedStep, StrandedStep
<1> QED BY <1>2, <1>5, <1>6, <1>7 DEF IInv

\* The inductive invariant holds in every reachable state of the worker pool.
THEOREM Invariance == Spec => []IInv
<1>1. ASSUME IInv, UNCHANGED vars PROVE IInv'
  BY <1>1 DEF vars, cellVars, viewVars, queueVars, IInv, TypeOK, CellTypeOK, QueueTypeOK, KeyTypeOK,
     WorkerTypeOK, ClaimsOwned, WorkerShape, RetryBudget, StampOwner, StaleKept, PromotedComing,
     TriggersComing, Coming, StaleNoticed, Overtaken, Noticed, Carries, WorkerReserved,
     NoStrandedViewed, Ready, Resident, KnownStale
<1> QED BY InitIInv, NextIInv, <1>1, PTL DEF Spec

\* Every variable keeps its type: in particular beginViewed and endViewed balance
\* for every pool and no tier's requeues exceed maxRefreshRequeues.
THEOREM TypeCorrect == Spec => []TypeOK
<1>1. IInv => TypeOK
  BY DEF IInv
<1> QED BY Invariance, <1>1, PTL

\* A stamp in flight belongs to exactly one worker, which will settle it: over all
\* tiers, outcomes, promotions and evictions.
THEOREM StampOwned == Spec => []InFlightStampOwned
<1>1. ASSUME IInv PROVE InFlightStampOwned
  <2> SUFFICES ASSUME NEW k \in Keys, window[k].inflight
               PROVE  Cardinality({w \in Workers : /\ wk[w].key = k /\ wk[w].open
                                                   /\ wk[w].pc \in {"resolving", "settle"}}) = 1
    BY DEF InFlightStampOwned
  <2>1. PICK w \in Workers : wk[w].key = k /\ wk[w].open /\ wk[w].pc \in {"resolving", "settle"}
    BY <1>1 DEF IInv, StampOwner
  <2>2. \A v \in Workers : wk[v].key = k /\ wk[v].pc \in {"resolving", "settle"} => v = w
    BY <1>1, <2>1 DEF IInv, ClaimsOwned, Claiming
  <2>3. {v \in Workers : wk[v].key = k /\ wk[v].open /\ wk[v].pc \in {"resolving", "settle"}} = {w}
    BY <2>1, <2>2
  <2> QED BY <2>3, FS_Singleton
<1> QED BY Invariance, <1>1, PTL

\* With several workers one is never in viewed work, and the count is exact.
THEOREM Reserved == Spec => []WorkerReserved
<1>1. IInv => WorkerReserved
  BY DEF IInv
<1> QED BY Invariance, <1>1, PTL

\* A pool of several workers never sleeps on a viewed key; a pool of one does so
\* only in the case the code has.
THEOREM ViewedNotStranded == Spec => []NoStrandedViewed
<1>1. IInv => NoStrandedViewed
  BY DEF IInv
<1> QED BY Invariance, <1>1, PTL

\* A body that a change overtook is known-stale, or something will still refresh
\* it, or its last refresh failed without a window.
THEOREM RefreshNotLost == Spec => []NoLostRefresh
<1>1. ASSUME IInv PROVE NoLostRefresh
  <2> SUFFICES ASSUME NEW k \in Keys, Resident(k), asOf[k] < ev[k], ~KnownStale(k), k \notin unflagged
               PROVE  Attended(k)
    BY DEF NoLostRefresh
  <2>1. Noticed(k)
    BY <1>1 DEF IInv, StaleNoticed, Overtaken
  <2>2. CASE k \in triggers
    <3>1. Coming(k)
      BY <1>1, <2>2 DEF IInv, TriggersComing
    <3> QED BY <3>1 DEF Coming, Attended
  <2>3. CASE \E a \in Actors : mark[a].key = k /\ mark[a].pc = "decide"
    BY <2>3 DEF Attended
  <2>4. CASE \E w \in Workers : Carries(w, k)
    BY <2>4 DEF Carries, Attended
  <2> QED BY <2>1, <2>2, <2>3, <2>4 DEF Noticed
<1> QED BY Invariance, <1>1, PTL

----------------------------------------------------------------------------
\* The slot of a background revalidation.

\* Nothing but a Done, alone or in a release, takes a key out of a worker's hands.
LEMMA HandsKept ==
    ASSUME TypeOK, Next
    PROVE  \/ \E w \in Workers : Release(w) \/ Done(w)
           \/ \A t \in Tiers : processing[t] \subseteq processing'[t]
<1> USE TypeFacts
<1>1. CASE \E w \in Workers, k \in Keys :
             TakeViewed(w, k) \/ TakeClusterList(w, k) \/ TakeNormal(w, k)
  <2> PICK w \in Workers, t \in Tiers, k \in Keys : Take(w, t, k)
    BY <1>1, Zenon DEF TakeViewed, TakeClusterList, TakeNormal, Tiers
  <2> QED BY DEF Take, QueueTypeOK
<1>2. CASE processing' = processing
  BY <1>2
<1>3. CASE \/ \E k \in Keys : \/ InputEvent(k) \/ PromoteOnArm(k) \/ PromoteEnqueue(k) \/ Arm(k)
                              \/ Disarm(k) \/ Evict(k) \/ EnqueueRefresh(k) \/ RevalidateInBackground(k)
           \/ \E k \in Keys : \E start \in 0..seq : CustomerPut(k, start)
           \/ \E t \in Tiers, k \in Keys : DelayExpires(t, k)
           \/ \E a \in Actors : MarkMerge(a) \/ MarkWindow(a) \/ MarkRoute(a)
  BY <1>2, <1>3, Zenon DEF InputEvent, PromoteOnArm, PromoteEnqueue, Arm, Disarm, Evict, EnqueueRefresh,
     RevalidateInBackground, CustomerPut, DelayExpires, MarkMerge, MarkWindow, MarkRoute, queueVars
<1>4. CASE \E w \in Workers :
             \/ Block(w) \/ TakeWake(w) \/ CheckAndClaim(w) \/ SkipSuppressed(w) \/ Floor(w)
             \/ ConsumeTriggers(w) \/ BeginRefresh(w) \/ Accept(w) \/ NothingToReplace(w)
             \/ Decline(w) \/ Fail(w) \/ Settle(w)
  BY <1>2, <1>4, Zenon DEF Block, TakeWake, CheckAndClaim, SkipSuppressed, Floor, ConsumeTriggers,
     BeginRefresh, Accept, NothingToReplace, Decline, Fail, Settle, queueVars
<1> QED BY <1>1, <1>3, <1>4, Steps, Zenon

\* What keeps a key underway, step by step.
LEMMA UnderwayStays ==
    ASSUME TypeOK, WorkerShape, Next, NEW k \in Keys, Underway(k)
    PROVE  \/ Underway(k)'
           \/ \E w \in Workers : wk[w].key = k /\ (Release(w) \/ Done(w))
<1> USE TypeFacts
<1>t. "viewed" \in Tiers
  BY DEF Tiers
<1>1. CASE \E t \in Tiers : k \in pending[t] \cup delayed[t]
  <2>1. CASE \E w \in Workers, t \in Tiers, j \in Keys : Take(w, t, j)
    <3> PICK w \in Workers, t \in Tiers, j \in Keys : Take(w, t, j)
      BY <2>1
    <3>1. \/ \E u \in Tiers : k \in pending'[u] \cup delayed'[u]
          \/ k \in processing'[t]
      BY <1>1 DEF Take, QueueTypeOK
    <3> QED BY <3>1 DEF Underway
  <2>2. CASE \E t \in Tiers, j \in Keys : DelayExpires(t, j)
    <3>1. \E u \in Tiers : k \in pending'[u] \cup delayed'[u]
      BY <1>1, <2>2 DEF DelayExpires, Enqueue, QueueTypeOK
    <3> QED BY <3>1 DEF Underway
  <2>3. CASE \A t \in Tiers : pending[t] \subseteq pending'[t] /\ delayed[t] \subseteq delayed'[t]
    <3>1. \E u \in Tiers : k \in pending'[u] \cup delayed'[u]
      BY <1>1, <2>3
    <3> QED BY <3>1 DEF Underway
  <2> QED BY <2>1, <2>2, <2>3, TiersGrow, DelaysGrow
<1>2. CASE \E t \in Tiers : k \in processing[t]
  <2>1. CASE \E w \in Workers : Release(w) \/ Done(w)
    <3> PICK w \in Workers : Release(w) \/ Done(w)
      BY <2>1
    <3>1. processing' = [processing EXCEPT ![wk[w].tier] = processing[wk[w].tier] \ {wk[w].key}]
      BY DEF Release, Done, GiveBack
    <3>2. wk[w].key # k => \E t \in Tiers : k \in processing'[t]
      BY <1>2, <3>1 DEF QueueTypeOK
    <3> QED BY <3>2 DEF Underway
  <2>2. CASE \A t \in Tiers : processing[t] \subseteq processing'[t]
    <3>1. \E t \in Tiers : k \in processing'[t]
      BY <1>2, <2>2
    <3> QED BY <3>1 DEF Underway
  <2> QED BY <2>1, <2>2, HandsKept
<1>3. CASE \E a \in Actors : mark[a].key = k /\ mark[a].pc \in {"window", "route"}
  <2>1. \/ \E a \in Actors : mark'[a].key = k /\ mark'[a].pc \in {"window", "route"}
        \/ \E t \in Tiers : k \in pending'[t]
    BY <1>3, MarkStays
  <2> QED BY <2>1 DEF Underway
<1>4. CASE arm[k] = "enqueue"
  <2>1. arm'[k] = "enqueue" \/ k \in pending'["viewed"]
    BY <1>4, ArmStays
  <2> QED BY <1>t, <2>1 DEF Underway
<1>5. CASE inFlight[k] # "no"
  <2>1. CASE \E w \in Workers : CheckAndClaim(w)
    <3>1. inFlight'[k] # "no"
      BY <1>5, <2>1 DEF CheckAndClaim, Claimed, KeyTypeOK
    <3> QED BY <3>1 DEF Underway
  <2>2. CASE \E w \in Workers : Release(w)
    <3> PICK w \in Workers : Release(w)
      BY <2>2
    <3>1. wk[w].key # k => inFlight'[k] # "no"
      BY <1>5 DEF Release, KeyTypeOK
    <3> QED BY <3>1 DEF Underway
  <2>3. CASE inFlight' = inFlight
    BY <1>5, <2>3 DEF Underway
  <2> QED BY <2>1, <2>2, <2>3, Steps, ClaimFrame, Zenon
<1> QED BY <1>1, <1>2, <1>3, <1>4, <1>5 DEF Underway

\* A slot that is still held after a step still has its refresh underway, unless
\* the step is the Done of a skipped dequeue.
THEOREM SlotKept == Spec => SlotLeaksOnlyBySkip
<1>1. ASSUME IInv, Next, NEW k \in Keys, Underway(k), bgSlot'[k] # "free"
      PROVE  \/ Underway(k)'
             \/ \E w \in Workers : wk[w].key = k /\ wk[w].pc = "done" /\ wk'[w] = IdleWorker
  <2>0. TypeOK /\ WorkerShape
    BY <1>1 DEF IInv
  <2> USE <2>0, TypeFacts
  <2>1. CASE \E w \in Workers : wk[w].key = k /\ Release(w)
    <3> PICK w \in Workers : wk[w].key = k /\ Release(w)
      BY <2>1
    <3>1. bgSlot'[k] = SlotAfter(k)
      BY <1>1 DEF Release, KeyTypeOK
    <3>2. Reruns(k) /\ OwnTier(k) \in Tiers
      BY <1>1, <3>1 DEF SlotAfter, OwnTier, Tiers
    <3>3. k \in pending'[OwnTier(k)]
      BY <3>2 DEF Release, GiveBack
    <3> QED BY <3>2, <3>3 DEF Underway
  <2>2. CASE \E w \in Workers : wk[w].key = k /\ Done(w)
    BY <2>2, IdleMoves, Guards
  <2> QED BY <1>1, <2>1, <2>2, UnderwayStays
<1>2. ASSUME NEW k \in Keys, Underway(k), UNCHANGED vars
      PROVE  Underway(k)'
  BY <1>2 DEF Underway, vars, viewVars, queueVars
<1>3. IInv /\ [Next]_vars =>
        \A k \in Keys : Underway(k) /\ bgSlot'[k] # "free" =>
          \/ Underway(k)'
          \/ \E w \in Workers : wk[w].key = k /\ wk[w].pc = "done" /\ wk'[w] = IdleWorker
  BY <1>1, <1>2, Zenon
<1> QED BY Invariance, <1>3, PTL DEF Spec, SlotLeaksOnlyBySkip
=============================================================================
