------------------------- MODULE RbacPublish_proofs -------------------------
(***************************************************************************)
(* Proofs about RbacPublish, for every number of subjects, goroutines,       *)
(* requests, versions and panics.                                           *)
(***************************************************************************)
EXTENDS RbacPublish, TLAPS

\* The rebuild of w holds a taken set it has not flushed.
Carrying == {"read", "stamp", "store", "build", "flush"}

\* Where each version can be at most: nothing is published, pending or taken
\* that was not delivered or written, and a rebuild past its read carries at
\* least what it took and what is published.
Ordered ==
    /\ \A s \in Subjects :
         /\ 1 <= rules[s] /\ delivered[s] <= rules[s] /\ pending[s] <= delivered[s]
         /\ snap[s] <= rules[s] /\ rotated[s] <= snap[s]
    /\ \A w \in Writers, s \in Subjects :
         /\ writer[w].seen[s] <= rules[s] /\ writer[w].taken[s] <= delivered[s]
         /\ pending[s] > 0 => writer[w].taken[s] <= pending[s]
         /\ writer[w].pc \in {"stamp", "store"} =>
              writer[w].taken[s] <= writer[w].seen[s] /\ snap[s] <= writer[w].seen[s]
         /\ writer[w].pc \in {"build", "flush"} => writer[w].taken[s] <= snap[s]
         /\ writer[w].pc \notin Carrying => writer[w].taken[s] = 0

\* Until the index is built the note stands for the latest event of each subject
\* that took one: once something is published every event takes one.
Noting ==
    \A s \in Subjects :
        /\ noted[s] <= delivered[s] /\ missed[s] <= delivered[s]
        /\ noted[s] > 0 => gen /\ (built \/ (note /\ noted[s] = delivered[s] /\ noted[s] > 1))

\* The rotation for the current rules of s: ahead, done over a snapshot that
\* contains them, or missed.
Rotating(s) == RotationAhead(s) \/ missed[s] = rules[s] \/ snap[s] = rules[s]

\* A request has a key no newer than the current one; what it resolved under the
\* current key is as fresh as a cell must be.
RequestFresh(r) ==
    LET q == request[r]
    IN q # NoRequest =>
         /\ q.key <= RBACSubGen(q.subject)
         /\ /\ q.pc \in {"guard", "put"} /\ q.key = RBACSubGen(q.subject)
            /\ q.body < rules[q.subject]
            => RotationAhead(q.subject) \/ missed[q.subject] = rules[q.subject]

CellInv ==
    /\ \A s \in Subjects : Rotating(s)
    /\ \A r \in Requests : RequestFresh(r)
    /\ StaleCellUnreachable

\* The epoch is raised by the first build only.
EpochOnce == built \/ epoch = 0

\* Versions are the natural numbers up to the bound.
LEMMA VersionFacts ==
    /\ 0 \in Versions /\ 1 \in Versions /\ Versions \subseteq Nat
    /\ \A v \in Versions : v < MaxVer => v + 1 \in Versions
    /\ \A v \in Versions, u \in Versions : u < v => u + 1 \in Versions
  BY ConstantsAssumption DEF Versions

\* The empty batch of bumps.
LEMMA NothingFacts == Nothing \in [Subjects -> Versions] /\ \A s \in Subjects : Nothing[s] = 0
  BY VersionFacts DEF Nothing

\* Updates of one goroutine's state.
LEMMA WriterGoes ==
    ASSUME NEW w \in Writers, writer \in [Writers -> WriterStates],
           NEW p \in Holding \cup {"off", "mark", "wait", "recheck", "reacquire", "settle", "close",
                                  "done"}
    PROVE  [writer EXCEPT ![w].pc = p] \in [Writers -> WriterStates]
  BY DEF WriterStates

\* A goroutine that takes the pending bumps, reads the indexers or enters the slot.
LEMMA WriterTakes ==
    ASSUME NEW w \in Writers, writer \in [Writers -> WriterStates],
           NEW p \in Holding, NEW f \in [Subjects -> Versions]
    PROVE  /\ [writer EXCEPT ![w].pc = p, ![w].taken = f] \in [Writers -> WriterStates]
           /\ [writer EXCEPT ![w].pc = p, ![w].seen = f] \in [Writers -> WriterStates]
           /\ [writer EXCEPT ![w] = [Off EXCEPT !.pc = p]] \in [Writers -> WriterStates]
<1>1. /\ [writer[w] EXCEPT !.pc = p, !.taken = f] \in WriterStates
      /\ [writer[w] EXCEPT !.pc = p, !.seen = f] \in WriterStates
  BY DEF WriterStates
<1>2. [Off EXCEPT !.pc = p] \in WriterStates
  BY NothingFacts DEF WriterStates, Off
<1> QED BY <1>1, <1>2

\* What a goroutine has taken and read are versions.
LEMMA WriterTyped ==
    ASSUME NEW w \in Writers, writer \in [Writers -> WriterStates]
    PROVE  writer[w].taken \in [Subjects -> Versions] /\ writer[w].seen \in [Subjects -> Versions]
  BY DEF WriterStates

\* Every version of the state is a natural number.
LEMMA NatFacts ==
    ASSUME TypeOK
    PROVE  /\ \A s \in Subjects : /\ rules[s] \in Nat /\ delivered[s] \in Nat /\ pending[s] \in Nat
                                /\ snap[s] \in Nat /\ rotated[s] \in Nat /\ noted[s] \in Nat
                                /\ missed[s] \in Nat /\ cell[s] \in Nat
           /\ \A w \in Writers, s \in Subjects :
                writer[w].taken[s] \in Nat /\ writer[w].seen[s] \in Nat
  BY VersionFacts DEF TypeOK, WriterStates

\* What a build, or none, can leave behind.
LEMMA BuildTyped ==
    ASSUME TypeOK, EpochOnce, Build \/ UNCHANGED <<indexVars, missed, cell>>
    PROVE  /\ note' \in BOOLEAN /\ built' \in BOOLEAN /\ wanted' \in BOOLEAN /\ epoch' \in 0..1
           /\ raised' \in [Subjects -> Versions] /\ missed' \in [Subjects -> Versions]
           /\ cell' \in [Subjects -> Versions] /\ EpochOnce'
<1>1. CASE UNCHANGED <<indexVars, missed, cell>>
  BY <1>1 DEF TypeOK, EpochOnce, indexVars
<1>2. CASE Build
  <2>1. note' \in BOOLEAN /\ built' \in BOOLEAN /\ wanted' \in BOOLEAN
    BY <1>2 DEF TypeOK, Build
  <2>2. epoch' \in 0..1 /\ EpochOnce'
    BY <1>2 DEF TypeOK, EpochOnce, Build
  <2>3. raised' \in [Subjects -> Versions] /\ cell' \in [Subjects -> Versions]
    BY <1>2, NothingFacts DEF TypeOK, Build
  <2>4. missed' \in [Subjects -> Versions]
    BY <1>2 DEF TypeOK, Build
  <2> QED BY <2>1, <2>2, <2>3, <2>4
<1> QED BY <1>1, <1>2

\* Every step keeps the types.
LEMMA TypeStep == TypeOK /\ EpochOnce /\ [Next]_vars => (TypeOK' /\ EpochOnce')
<1> SUFFICES ASSUME TypeOK, EpochOnce, [Next]_vars PROVE (TypeOK' /\ EpochOnce')
    OBVIOUS
<1>1. ASSUME NEW s \in Subjects, Edit(s) PROVE (TypeOK' /\ EpochOnce')
  BY <1>1, VersionFacts, NothingFacts DEF Edit, handlerVars, loopVars, indexVars, requestVars,
     TypeOK, EpochOnce, Writers, Holding
<1>2. ASSUME NEW s \in Subjects, Deliver(s) PROVE (TypeOK' /\ EpochOnce')
  <2>1. delivered[s] + 1 \in Versions
    BY <1>2, VersionFacts DEF Deliver, TypeOK
  <2>2. /\ delivered' \in [Subjects -> Versions] /\ noted' \in [Subjects -> Versions]
        /\ note' \in BOOLEAN
    BY <1>2, <2>1 DEF Deliver, TypeOK
  <2>3. handler' \in [Subjects -> {"idle", "mark", "cas", "hook", "remark", "recas"}]
    BY <1>2 DEF Deliver, TypeOK
  <2> QED BY <1>2, <2>2, <2>3 DEF Deliver, loopVars, requestVars, TypeOK, EpochOnce
<1>3. ASSUME NEW s \in Subjects, Mark(s) PROVE (TypeOK' /\ EpochOnce')
  BY <1>3, VersionFacts, NothingFacts DEF Mark, indexVars, requestVars, TypeOK, EpochOnce,
     Writers, Holding
<1>4. ASSUME NEW s \in Subjects, Cas(s) PROVE (TypeOK' /\ EpochOnce')
  <2>1. handler' \in [Subjects -> {"idle", "mark", "cas", "hook", "remark", "recas"}]
    BY <1>4 DEF Cas, TypeOK
  <2>2. slot' \in BOOLEAN /\ writer' \in [Writers -> WriterStates]
    <3>1. CASE slot
      BY <1>4, <3>1 DEF Cas, TypeOK
    <3>2. CASE ~slot
      <4>1. PICK w \in Spawned : writer' = [writer EXCEPT ![w].pc = "clear"] /\ slot' = TRUE
        BY <1>4, <3>2 DEF Cas
      <4>2. w \in Writers /\ "clear" \in Holding
        BY DEF Writers, Holding
      <4> QED BY <4>1, <4>2, WriterGoes DEF TypeOK
    <3> QED BY <3>1, <3>2
  <2> QED BY <1>4, <2>1, <2>2 DEF Cas, indexVars, requestVars, TypeOK, EpochOnce
<1>5. ASSUME NEW s \in Subjects, Hook(s) PROVE (TypeOK' /\ EpochOnce')
  BY <1>5, VersionFacts, NothingFacts DEF Hook, loopVars, indexVars, requestVars, TypeOK,
     EpochOnce, Writers, Holding
<1>6. ASSUME NEW w \in Writers, Clear(w) PROVE (TypeOK' /\ EpochOnce')
  BY <1>6, VersionFacts, NothingFacts, WriterGoes DEF Clear, handlerVars, indexVars, requestVars,
     TypeOK, EpochOnce, Writers, Holding, Go, Returned
<1>7. ASSUME NEW w \in Writers, Take(w) PROVE (TypeOK' /\ EpochOnce')
  <2>1. writer' \in [Writers -> WriterStates]
    BY <1>7, WriterTakes DEF Take, TypeOK, Holding
  <2>2. pending' \in [Subjects -> Versions]
    BY <1>7, NothingFacts DEF Take
  <2> QED BY <1>7, <2>1, <2>2 DEF Take, handlerVars, indexVars, requestVars, TypeOK, EpochOnce
<1>8. ASSUME NEW w \in Writers, Read(w) PROVE (TypeOK' /\ EpochOnce')
  <2>1. writer' \in [Writers -> WriterStates]
    BY <1>8, WriterTakes DEF Read, TypeOK, Holding
  <2> QED BY <1>8, <2>1 DEF Read, handlerVars, indexVars, requestVars, TypeOK, EpochOnce
<1>9. ASSUME NEW w \in Writers, Stamp(w) PROVE (TypeOK' /\ EpochOnce')
  BY <1>9, VersionFacts, NothingFacts, WriterGoes DEF Stamp, handlerVars, indexVars, requestVars,
     TypeOK, EpochOnce, Writers, Holding, Go, Returned
<1>10. ASSUME NEW w \in Writers, Store(w) PROVE (TypeOK' /\ EpochOnce')
  <2>1. writer' \in [Writers -> WriterStates]
    BY <1>10, NothingFacts, WriterTakes DEF Store, TypeOK, Holding
  <2>2. snap' \in [Subjects -> Versions]
    BY <1>10, WriterTyped DEF Store, TypeOK
  <2> QED BY <1>10, <2>1, <2>2 DEF Store, handlerVars, indexVars, requestVars, TypeOK, EpochOnce
<1>11. ASSUME NEW w \in Writers, BuildDeferred(w) PROVE (TypeOK' /\ EpochOnce')
  BY <1>11, VersionFacts, NothingFacts, BuildTyped, WriterGoes DEF BuildDeferred, indexVars,
     TypeOK, EpochOnce, Writers, Holding, Go, BuildPending
<1>12. ASSUME NEW w \in Writers, Flush(w) PROVE (TypeOK' /\ EpochOnce')
  <2>1. writer' \in [Writers -> WriterStates]
    BY <1>12, WriterTakes, NothingFacts DEF Flush, TypeOK, Holding
  <2>2. writer[w].taken \in [Subjects -> Versions]
    BY WriterTyped DEF TypeOK
  <2>3. subgen' \in [Subjects -> Nat]
    BY <1>12 DEF Flush, TypeOK
  <2>4. cell' \in [Subjects -> Versions] /\ rotated' \in [Subjects -> Versions]
    BY <1>12, <2>2, VersionFacts DEF Flush, TypeOK
  <2> QED BY <1>12, <2>1, <2>3, <2>4 DEF Flush, handlerVars, indexVars, TypeOK, EpochOnce
<1>13. ASSUME NEW w \in Writers, Panic(w) PROVE (TypeOK' /\ EpochOnce')
  <2>1. writer' \in [Writers -> WriterStates]
    BY <1>13, WriterTakes, NothingFacts DEF Panic, TypeOK, Holding
  <2>2. writer[w].taken \in [Subjects -> Versions]
    BY WriterTyped DEF TypeOK
  <2>3. pending' \in [Subjects -> Versions]
    BY <1>13, <2>2 DEF Panic, Restored, TypeOK
  <2>4. panics' \in 0..MaxPanics
    BY <1>13, ConstantsAssumption DEF Panic, TypeOK
  <2> QED BY <1>13, <2>1, <2>3, <2>4 DEF Panic, handlerVars, indexVars, requestVars, TypeOK,
     EpochOnce
<1>14. ASSUME NEW w \in Writers, Check(w) PROVE (TypeOK' /\ EpochOnce')
  BY <1>14, VersionFacts, NothingFacts, WriterGoes DEF Check, handlerVars, indexVars, requestVars,
     TypeOK, EpochOnce, Writers, Holding, Go, Returned
<1>15. ASSUME NEW w \in Writers, Release(w) PROVE (TypeOK' /\ EpochOnce')
  BY <1>15, VersionFacts, NothingFacts, WriterGoes DEF Release, handlerVars, indexVars,
     requestVars, TypeOK, EpochOnce, Writers, Holding, Go, Returned
<1>16. ASSUME NEW w \in Writers, Recheck(w) PROVE (TypeOK' /\ EpochOnce')
  BY <1>16, VersionFacts, NothingFacts, WriterGoes DEF Recheck, handlerVars, indexVars,
     requestVars, TypeOK, EpochOnce, Writers, Holding, Go, Returned
<1>17. ASSUME NEW w \in Writers, Reacquire(w) PROVE (TypeOK' /\ EpochOnce')
  BY <1>17, VersionFacts, NothingFacts, WriterGoes DEF Reacquire, handlerVars, indexVars,
     requestVars, TypeOK, EpochOnce, Writers, Holding, Go, Returned
<1>18. CASE InitialMark
  BY <1>18, VersionFacts, NothingFacts, WriterGoes DEF InitialMark, handlerVars, indexVars,
     requestVars, TypeOK, EpochOnce, Writers, Holding, Go
<1>19. CASE InitialCas
  BY <1>19, VersionFacts, NothingFacts, WriterGoes DEF InitialCas, handlerVars, indexVars,
     requestVars, TypeOK, EpochOnce, Writers, Holding, Go
<1>20. CASE InitialSettle
  BY <1>20, VersionFacts, NothingFacts, BuildTyped, WriterGoes DEF InitialSettle, indexVars,
     TypeOK, EpochOnce, Writers, Holding, Go, BuildPending
<1>21. CASE InitialClose
  BY <1>21, VersionFacts, NothingFacts, WriterGoes DEF InitialClose, handlerVars, indexVars,
     requestVars, TypeOK, EpochOnce, Writers, Holding, Go
<1>22. CASE EngineBuild
  BY <1>22, VersionFacts, NothingFacts, BuildTyped DEF EngineBuild, loopVars, TypeOK, EpochOnce,
     Writers, Holding, BuildPending
<1>23. CASE ReadySettle
  BY <1>23, VersionFacts, NothingFacts, BuildTyped DEF ReadySettle, loopVars, TypeOK, EpochOnce,
     Writers, Holding, BuildPending
<1>24. CASE ReadyRecheck
  BY <1>24, VersionFacts, NothingFacts, BuildTyped DEF ReadyRecheck, loopVars, indexVars, TypeOK,
     EpochOnce, Writers, Holding, BuildPending
<1>25. ASSUME NEW r \in Requests, Resolve(r) PROVE (TypeOK' /\ EpochOnce')
  <2>1. request[r] \in RequestStates /\ request[r] # NoRequest
    BY <1>25 DEF Resolve, TypeOK, NoRequest
  <2>2. [request[r] EXCEPT !.pc = "guard", !.body = snap[request[r].subject]] \in RequestStates
    BY <2>1 DEF RequestStates, TypeOK
  <2>3. request' \in [Requests -> RequestStates]
    BY <1>25, <2>2 DEF Resolve, TypeOK
  <2> QED BY <1>25, <2>3 DEF Resolve, handlerVars, loopVars, indexVars, TypeOK, EpochOnce
<1>26. ASSUME NEW r \in Requests, Guard(r) PROVE (TypeOK' /\ EpochOnce')
  <2>1. request[r] \in RequestStates /\ request[r] # NoRequest
    BY <1>26 DEF Guard, TypeOK, NoRequest
  <2>2. [request[r] EXCEPT !.pc = "put"] \in RequestStates /\ NoRequest \in RequestStates
    BY <2>1 DEF RequestStates, TypeOK
  <2>3. request' \in [Requests -> RequestStates]
    BY <1>26, <2>2 DEF Guard, TypeOK
  <2> QED BY <1>26, <2>3 DEF Guard, handlerVars, loopVars, indexVars, TypeOK, EpochOnce
<1>27. ASSUME NEW r \in Requests, Put(r) PROVE (TypeOK' /\ EpochOnce')
  <2>1. request[r] \in RequestStates /\ request[r] # NoRequest
    BY <1>27 DEF Put, TypeOK, NoRequest
  <2>2. request[r].body \in Versions /\ NoRequest \in RequestStates
    BY <2>1 DEF RequestStates
  <2>3. request' \in [Requests -> RequestStates] /\ cell' \in [Subjects -> Versions]
    BY <1>27, <2>2 DEF Put, TypeOK
  <2> QED BY <1>27, <2>3 DEF Put, handlerVars, loopVars, indexVars, TypeOK, EpochOnce
<1>28. ASSUME NEW r \in Requests, NEW s \in Subjects, Mint(r, s) PROVE (TypeOK' /\ EpochOnce')
  <2>1. RBACSubGen(s) \in Nat
    BY DEF RBACSubGen, TypeOK
  <2>2. [pc |-> "resolve", subject |-> s, key |-> RBACSubGen(s), body |-> 0] \in RequestStates
    BY <2>1, VersionFacts DEF RequestStates
  <2>3. request' \in [Requests -> RequestStates]
    BY <1>28, <2>2 DEF Mint, TypeOK
  <2> QED BY <1>28, <2>3 DEF Mint, handlerVars, loopVars, indexVars, TypeOK, EpochOnce
<1>29. CASE UNCHANGED vars
  BY <1>29 DEF vars, handlerVars, loopVars, indexVars, requestVars, TypeOK, EpochOnce, Writers,
     Holding
<1> QED
  BY <1>1, <1>2, <1>3, <1>4, <1>5, <1>6, <1>7, <1>8, <1>9, <1>10, <1>11, <1>12, <1>13, <1>14,
     <1>15, <1>16, <1>17, <1>18, <1>19, <1>20, <1>21, <1>22, <1>23, <1>24, <1>25, <1>26, <1>27,
     <1>28, <1>29 DEF Next, Handle, Rebuild, Publish, Serve

\* Two rebuilds never run: whoever enters the slot found it free.
LEMMA OneStep == TypeOK /\ OneRebuild /\ [Next]_vars => OneRebuild'
<1> SUFFICES ASSUME TypeOK, OneRebuild, [Next]_vars PROVE OneRebuild'
    OBVIOUS
<1>1. ASSUME NEW s \in Subjects, Edit(s) PROVE OneRebuild'
  BY <1>1, ConstantsAssumption DEF Edit, handlerVars, loopVars, indexVars, requestVars, TypeOK,
     WriterStates, OneRebuild
<1>2. ASSUME NEW s \in Subjects, Deliver(s) PROVE OneRebuild'
  BY <1>2, ConstantsAssumption DEF Deliver, loopVars, requestVars, TypeOK, WriterStates,
     OneRebuild
<1>3. ASSUME NEW s \in Subjects, Mark(s) PROVE OneRebuild'
  BY <1>3, ConstantsAssumption DEF Mark, indexVars, requestVars, TypeOK, WriterStates, OneRebuild
<1>4. ASSUME NEW s \in Subjects, Cas(s) PROVE OneRebuild'
  BY <1>4, ConstantsAssumption DEF Cas, indexVars, requestVars, TypeOK, WriterStates, OneRebuild,
     Holding, Writers
<1>5. ASSUME NEW s \in Subjects, Hook(s) PROVE OneRebuild'
  BY <1>5, ConstantsAssumption DEF Hook, loopVars, indexVars, requestVars, TypeOK, WriterStates,
     OneRebuild
<1>6. ASSUME NEW w \in Writers, Clear(w) PROVE OneRebuild'
  BY <1>6, ConstantsAssumption DEF Clear, handlerVars, indexVars, requestVars, TypeOK,
     WriterStates, OneRebuild, Go, Returned, Off, Holding, Writers
<1>7. ASSUME NEW w \in Writers, Take(w) PROVE OneRebuild'
  BY <1>7, ConstantsAssumption DEF Take, handlerVars, indexVars, requestVars, TypeOK,
     WriterStates, OneRebuild, Go, Returned, Off, Holding, Writers
<1>8. ASSUME NEW w \in Writers, Read(w) PROVE OneRebuild'
  BY <1>8, ConstantsAssumption DEF Read, handlerVars, indexVars, requestVars, TypeOK,
     WriterStates, OneRebuild, Go, Returned, Off, Holding, Writers
<1>9. ASSUME NEW w \in Writers, Stamp(w) PROVE OneRebuild'
  BY <1>9, ConstantsAssumption DEF Stamp, handlerVars, indexVars, requestVars, TypeOK,
     WriterStates, OneRebuild, Go, Returned, Off, Holding, Writers
<1>10. ASSUME NEW w \in Writers, Store(w) PROVE OneRebuild'
  BY <1>10, ConstantsAssumption DEF Store, handlerVars, indexVars, requestVars, TypeOK,
     WriterStates, OneRebuild, Go, Returned, Off, Holding, Writers
<1>11. ASSUME NEW w \in Writers, BuildDeferred(w) PROVE OneRebuild'
  BY <1>11, ConstantsAssumption DEF BuildDeferred, indexVars, TypeOK, WriterStates, OneRebuild,
     Go, Returned, Off, Holding, Writers
<1>12. ASSUME NEW w \in Writers, Flush(w) PROVE OneRebuild'
  BY <1>12, ConstantsAssumption DEF Flush, handlerVars, indexVars, TypeOK, WriterStates,
     OneRebuild, Go, Returned, Off, Holding, Writers
<1>13. ASSUME NEW w \in Writers, Panic(w) PROVE OneRebuild'
  BY <1>13, ConstantsAssumption DEF Panic, handlerVars, indexVars, requestVars, TypeOK,
     WriterStates, OneRebuild, Go, Returned, Off, Holding, Writers
<1>14. ASSUME NEW w \in Writers, Check(w) PROVE OneRebuild'
  BY <1>14, ConstantsAssumption DEF Check, handlerVars, indexVars, requestVars, TypeOK,
     WriterStates, OneRebuild, Go, Returned, Off, Holding, Writers
<1>15. ASSUME NEW w \in Writers, Release(w) PROVE OneRebuild'
  BY <1>15, ConstantsAssumption DEF Release, handlerVars, indexVars, requestVars, TypeOK,
     WriterStates, OneRebuild, Go, Returned, Off, Holding, Writers
<1>16. ASSUME NEW w \in Writers, Recheck(w) PROVE OneRebuild'
  BY <1>16, ConstantsAssumption DEF Recheck, handlerVars, indexVars, requestVars, TypeOK,
     WriterStates, OneRebuild, Go, Returned, Off, Holding, Writers
<1>17. ASSUME NEW w \in Writers, Reacquire(w) PROVE OneRebuild'
  BY <1>17, ConstantsAssumption DEF Reacquire, handlerVars, indexVars, requestVars, TypeOK,
     WriterStates, OneRebuild, Go, Returned, Off, Holding, Writers
<1>18. CASE InitialMark
  BY <1>18, ConstantsAssumption DEF InitialMark, handlerVars, indexVars, requestVars, TypeOK,
     WriterStates, OneRebuild, Go, Returned, Off, Holding, Writers
<1>19. CASE InitialCas
  BY <1>19, ConstantsAssumption DEF InitialCas, handlerVars, indexVars, requestVars, TypeOK,
     WriterStates, OneRebuild, Go, Returned, Off, Holding, Writers
<1>20. CASE InitialSettle
  BY <1>20, ConstantsAssumption DEF InitialSettle, indexVars, TypeOK, WriterStates, OneRebuild,
     Go, Returned, Off, Holding, Writers
<1>21. CASE InitialClose
  BY <1>21, ConstantsAssumption DEF InitialClose, handlerVars, indexVars, requestVars, TypeOK,
     WriterStates, OneRebuild, Go, Returned, Off, Holding, Writers
<1>22. CASE EngineBuild
  BY <1>22, ConstantsAssumption DEF EngineBuild, loopVars, TypeOK, WriterStates, OneRebuild
<1>23. CASE ReadySettle
  BY <1>23, ConstantsAssumption DEF ReadySettle, loopVars, TypeOK, WriterStates, OneRebuild
<1>24. CASE ReadyRecheck
  BY <1>24, ConstantsAssumption DEF ReadyRecheck, loopVars, indexVars, TypeOK, WriterStates,
     OneRebuild
<1>25. ASSUME NEW r \in Requests, Resolve(r) PROVE OneRebuild'
  BY <1>25, ConstantsAssumption DEF Resolve, handlerVars, loopVars, indexVars, TypeOK,
     WriterStates, OneRebuild
<1>26. ASSUME NEW r \in Requests, Guard(r) PROVE OneRebuild'
  BY <1>26, ConstantsAssumption DEF Guard, handlerVars, loopVars, indexVars, TypeOK, WriterStates,
     OneRebuild
<1>27. ASSUME NEW r \in Requests, Put(r) PROVE OneRebuild'
  BY <1>27, ConstantsAssumption DEF Put, handlerVars, loopVars, indexVars, TypeOK, WriterStates,
     OneRebuild
<1>28. ASSUME NEW r \in Requests, NEW s \in Subjects, Mint(r, s) PROVE OneRebuild'
  BY <1>28, ConstantsAssumption DEF Mint, handlerVars, loopVars, indexVars, TypeOK, WriterStates,
     OneRebuild
<1>29. CASE UNCHANGED vars
  BY <1>29 DEF vars, handlerVars, loopVars, indexVars, requestVars, TypeOK, WriterStates,
     OneRebuild
<1> QED
  BY <1>1, <1>2, <1>3, <1>4, <1>5, <1>6, <1>7, <1>8, <1>9, <1>10, <1>11, <1>12, <1>13, <1>14,
     <1>15, <1>16, <1>17, <1>18, <1>19, <1>20, <1>21, <1>22, <1>23, <1>24, <1>25, <1>26, <1>27,
     <1>28, <1>29 DEF Next, Handle, Rebuild, Publish, Serve

\* A publish follows its read, a flush its publish; one rebuild at a time keeps
\* the snapshot below what that rebuild read.
LEMMA OrderedStep == TypeOK /\ OneRebuild /\ Ordered /\ [Next]_vars => Ordered'
<1> SUFFICES ASSUME TypeOK, OneRebuild, Ordered, [Next]_vars PROVE Ordered'
    OBVIOUS
<1>1. ASSUME NEW s \in Subjects, Edit(s) PROVE Ordered'
  <2>1. \A t \in Subjects : rules'[t] \in Nat /\ rules[t] <= rules'[t]
    BY <1>1, NatFacts DEF Edit, TypeOK
  <2>2. UNCHANGED <<delivered, pending, snap, rotated, writer>>
    BY <1>1 DEF Edit, handlerVars, loopVars
  <2> QED BY <2>1, <2>2, NatFacts DEF Ordered
<1>2. ASSUME NEW s \in Subjects, Deliver(s) PROVE Ordered'
  <2>1. \A t \in Subjects : /\ delivered'[t] \in Nat /\ delivered[t] <= delivered'[t]
                            /\ delivered'[t] <= rules[t]
    BY <1>2, NatFacts DEF Deliver, TypeOK, Ordered
  <2>2. UNCHANGED <<rules, pending, snap, rotated, writer>>
    BY <1>2 DEF Deliver, loopVars
  <2> QED BY <2>1, <2>2, NatFacts DEF Ordered
<1>3. ASSUME NEW s \in Subjects, Mark(s) PROVE Ordered'
  BY <1>3, VersionFacts DEF Mark, indexVars, requestVars, TypeOK, WriterStates, Ordered, Carrying
<1>4. ASSUME NEW s \in Subjects, Cas(s) PROVE Ordered'
  <2>1. \A w \in Writers : /\ writer'[w].taken = writer[w].taken /\ writer'[w].seen = writer[w].seen
                           /\ \/ writer'[w].pc = writer[w].pc
                              \/ writer[w].pc = "off" /\ writer'[w].pc = "clear"
    BY <1>4 DEF Cas, TypeOK, WriterStates, Writers
  <2>2. UNCHANGED <<rules, delivered, pending, snap, rotated>>
    BY <1>4 DEF Cas
  <2> QED BY <2>1, <2>2, NatFacts DEF Ordered, Carrying
<1>5. ASSUME NEW s \in Subjects, Hook(s) PROVE Ordered'
  <2>1. \A t \in Subjects : pending'[t] = pending[t] \/ pending'[t] = delivered[t]
    BY <1>5 DEF Hook, TypeOK
  <2>2. UNCHANGED <<rules, delivered, snap, rotated, writer>>
    BY <1>5 DEF Hook, loopVars
  <2> QED BY <2>1, <2>2, NatFacts DEF Ordered
<1>6. ASSUME NEW w \in Writers, Clear(w) PROVE Ordered'
  BY <1>6, VersionFacts DEF Clear, handlerVars, indexVars, requestVars, TypeOK, WriterStates,
     Ordered, Carrying, Go, Returned, Off, OneRebuild, Holding, Writers
<1>7. ASSUME NEW w \in Writers, Take(w) PROVE Ordered'
  BY <1>7, VersionFacts, NothingFacts DEF Take, handlerVars, indexVars, requestVars, TypeOK,
     WriterStates, Ordered, Carrying, OneRebuild, Holding
<1>8. ASSUME NEW w \in Writers, Read(w) PROVE Ordered'
  BY <1>8, VersionFacts DEF Read, handlerVars, indexVars, requestVars, TypeOK, WriterStates,
     Ordered, Carrying, Go, Returned, Off, OneRebuild, Holding, Writers
<1>9. ASSUME NEW w \in Writers, Stamp(w) PROVE Ordered'
  BY <1>9, VersionFacts DEF Stamp, handlerVars, indexVars, requestVars, TypeOK, WriterStates,
     Ordered, Carrying, Go, Returned, Off, OneRebuild, Holding, Writers
<1>10. ASSUME NEW w \in Writers, Store(w) PROVE Ordered'
  BY <1>10, VersionFacts, NothingFacts DEF Store, handlerVars, indexVars, requestVars, TypeOK,
     WriterStates, Ordered, Carrying, OneRebuild, Holding
<1>11. ASSUME NEW w \in Writers, BuildDeferred(w) PROVE Ordered'
  BY <1>11, VersionFacts DEF BuildDeferred, indexVars, TypeOK, WriterStates, Ordered, Carrying,
     Go, Returned, Off, OneRebuild, Holding, Writers
<1>12. ASSUME NEW w \in Writers, Flush(w) PROVE Ordered'
  BY <1>12, VersionFacts, NothingFacts DEF Flush, handlerVars, indexVars, TypeOK, WriterStates,
     Ordered, Carrying, OneRebuild, Holding
<1>13. ASSUME NEW w \in Writers, Panic(w) PROVE Ordered'
  BY <1>13, VersionFacts, NothingFacts DEF Panic, handlerVars, indexVars, requestVars, TypeOK,
     WriterStates, Ordered, Carrying, Restored, Off, OneRebuild, Holding
<1>14. ASSUME NEW w \in Writers, Check(w) PROVE Ordered'
  BY <1>14, VersionFacts DEF Check, handlerVars, indexVars, requestVars, TypeOK, WriterStates,
     Ordered, Carrying, Go, Returned, Off, OneRebuild, Holding, Writers
<1>15. ASSUME NEW w \in Writers, Release(w) PROVE Ordered'
  BY <1>15, VersionFacts DEF Release, handlerVars, indexVars, requestVars, TypeOK, WriterStates,
     Ordered, Carrying, Go, Returned, Off, OneRebuild, Holding, Writers
<1>16. ASSUME NEW w \in Writers, Recheck(w) PROVE Ordered'
  BY <1>16, VersionFacts DEF Recheck, handlerVars, indexVars, requestVars, TypeOK, WriterStates,
     Ordered, Carrying, Go, Returned, Off, OneRebuild, Holding, Writers
<1>17. ASSUME NEW w \in Writers, Reacquire(w) PROVE Ordered'
  BY <1>17, VersionFacts DEF Reacquire, handlerVars, indexVars, requestVars, TypeOK, WriterStates,
     Ordered, Carrying, Go, Returned, Off, OneRebuild, Holding, Writers
<1>18. CASE InitialMark
  BY <1>18, VersionFacts DEF InitialMark, handlerVars, indexVars, requestVars, TypeOK,
     WriterStates, Ordered, Carrying, Go, Returned, Off, OneRebuild, Holding, Writers
<1>19. CASE InitialCas
  BY <1>19, VersionFacts DEF InitialCas, handlerVars, indexVars, requestVars, TypeOK,
     WriterStates, Ordered, Carrying, Go, Returned, Off, OneRebuild, Holding, Writers
<1>20. CASE InitialSettle
  BY <1>20, VersionFacts DEF InitialSettle, indexVars, TypeOK, WriterStates, Ordered, Carrying,
     Go, Returned, Off, OneRebuild, Holding, Writers
<1>21. CASE InitialClose
  BY <1>21, VersionFacts DEF InitialClose, handlerVars, indexVars, requestVars, TypeOK,
     WriterStates, Ordered, Carrying, Go, Returned, Off, OneRebuild, Holding, Writers
<1>22. CASE EngineBuild
  BY <1>22, VersionFacts DEF EngineBuild, loopVars, TypeOK, WriterStates, Ordered, Carrying
<1>23. CASE ReadySettle
  BY <1>23, VersionFacts DEF ReadySettle, loopVars, TypeOK, WriterStates, Ordered, Carrying
<1>24. CASE ReadyRecheck
  BY <1>24, VersionFacts DEF ReadyRecheck, loopVars, indexVars, TypeOK, WriterStates, Ordered,
     Carrying
<1>25. ASSUME NEW r \in Requests, Resolve(r) PROVE Ordered'
  BY <1>25, VersionFacts DEF Resolve, handlerVars, loopVars, indexVars, TypeOK, WriterStates,
     Ordered, Carrying
<1>26. ASSUME NEW r \in Requests, Guard(r) PROVE Ordered'
  BY <1>26, VersionFacts DEF Guard, handlerVars, loopVars, indexVars, TypeOK, WriterStates,
     Ordered, Carrying
<1>27. ASSUME NEW r \in Requests, Put(r) PROVE Ordered'
  BY <1>27, VersionFacts DEF Put, handlerVars, loopVars, indexVars, TypeOK, WriterStates, Ordered,
     Carrying
<1>28. ASSUME NEW r \in Requests, NEW s \in Subjects, Mint(r, s) PROVE Ordered'
  BY <1>28, VersionFacts DEF Mint, handlerVars, loopVars, indexVars, TypeOK, WriterStates,
     Ordered, Carrying
<1>29. CASE UNCHANGED vars
  BY <1>29 DEF vars, handlerVars, loopVars, indexVars, requestVars, TypeOK, WriterStates, Ordered,
     Carrying
<1> QED
  BY <1>1, <1>2, <1>3, <1>4, <1>5, <1>6, <1>7, <1>8, <1>9, <1>10, <1>11, <1>12, <1>13, <1>14,
     <1>15, <1>16, <1>17, <1>18, <1>19, <1>20, <1>21, <1>22, <1>23, <1>24, <1>25, <1>26, <1>27,
     <1>28, <1>29 DEF Next, Handle, Rebuild, Publish, Serve

\* The mark, its reader and the handlers, step by step.
LEMMA WakeStep == TypeOK /\ OneRebuild /\ Ordered /\ NoLostWakeup /\ [Next]_vars => NoLostWakeup'
<1> SUFFICES ASSUME TypeOK, OneRebuild, Ordered, NoLostWakeup, [Next]_vars PROVE NoLostWakeup'
    OBVIOUS
<1>1. ASSUME NEW s \in Subjects, Edit(s) PROVE NoLostWakeup'
  BY <1>1, NatFacts DEF Edit, handlerVars, loopVars, indexVars, requestVars, TypeOK, WriterStates,
     Ordered, NoLostWakeup, PublishAhead, TakeAhead, Drained
<1>2. ASSUME NEW s \in Subjects, Deliver(s) PROVE NoLostWakeup'
  BY <1>2, NatFacts DEF Deliver, loopVars, requestVars, TypeOK, WriterStates, Ordered,
     NoLostWakeup, PublishAhead, TakeAhead, Drained
<1>3. ASSUME NEW s \in Subjects, Mark(s) PROVE NoLostWakeup'
  BY <1>3, NatFacts DEF Mark, indexVars, requestVars, TypeOK, WriterStates, Ordered, NoLostWakeup,
     PublishAhead, TakeAhead, Drained
<1>4. ASSUME NEW s \in Subjects, Cas(s) PROVE NoLostWakeup'
  <2>1. dirty' => Drained'
    <3>1. CASE slot
      BY <1>4, <3>1 DEF Cas, Drained, OneRebuild, Writers
    <3>2. CASE ~slot
      BY <1>4, <3>2 DEF Cas, Drained, Holding, Writers, TypeOK, WriterStates
    <3> QED BY <3>1, <3>2
  <2>2. \A v \in Writers : /\ writer'[v].seen = writer[v].seen
                           /\ writer'[v].pc = writer[v].pc \/ writer[v].pc = "off"
    <3>1. CASE slot
      BY <1>4, <3>1 DEF Cas
    <3>2. CASE ~slot
      <4>1. PICK w \in Spawned :
              writer[w].pc = "off" /\ writer' = [writer EXCEPT ![w].pc = "clear"]
        BY <1>4, <3>2 DEF Cas
      <4> QED BY <4>1 DEF TypeOK, WriterStates
    <3> QED BY <3>1, <3>2
  <2>3. UNCHANGED <<rules, delivered, dirty, pending, snap>>
    BY <1>4 DEF Cas
  <2>4. ASSUME NEW t \in Subjects
        PROVE  /\ handler[t] = "mark" => handler'[t] = "mark"
               /\ handler[t] = "remark" => handler'[t] = "remark"
    BY <1>4 DEF Cas, TypeOK
  <2>5. ASSUME NEW t \in Subjects, snap'[t] < rules'[t] PROVE PublishAhead(t)'
    BY <2>2, <2>3, <2>4, <2>5 DEF NoLostWakeup, PublishAhead
  <2>6. ASSUME NEW t \in Subjects, pending'[t] > 0 PROVE TakeAhead(t)'
    BY <2>2, <2>3, <2>4, <2>6 DEF NoLostWakeup, TakeAhead
  <2> QED BY <2>1, <2>5, <2>6 DEF NoLostWakeup
<1>5. ASSUME NEW s \in Subjects, Hook(s) PROVE NoLostWakeup'
  <2>1. dirty' => Drained'
    BY <1>5 DEF Hook, loopVars, TypeOK, WriterStates, NoLostWakeup, Drained, OneRebuild, Holding,
       Writers, Go, Returned
  <2>2. ASSUME NEW t \in Subjects, snap'[t] < rules'[t] PROVE PublishAhead(t)'
    BY <1>5, <2>2, NatFacts DEF Hook, loopVars, TypeOK, WriterStates, NoLostWakeup, PublishAhead,
       Ordered, OneRebuild, Holding, Go, Returned
  <2>3. ASSUME NEW t \in Subjects, pending'[t] > 0 PROVE TakeAhead(t)'
    BY <1>5, <2>3, NatFacts DEF Hook, loopVars, TypeOK, WriterStates, NoLostWakeup, TakeAhead, Go,
       Returned
  <2> QED BY <2>1, <2>2, <2>3 DEF NoLostWakeup
<1>6. ASSUME NEW w \in Writers, Clear(w) PROVE NoLostWakeup'
  <2>1. dirty' => Drained'
    BY <1>6 DEF Clear, handlerVars, TypeOK, WriterStates, NoLostWakeup, Drained, OneRebuild,
       Holding, Writers, Go, Returned
  <2>2. ASSUME NEW t \in Subjects, snap'[t] < rules'[t] PROVE PublishAhead(t)'
    <3>1. PublishAhead(t)
      BY <1>6, <2>2 DEF Clear, handlerVars, TypeOK, WriterStates, NoLostWakeup
    <3> QED BY <1>6, <3>1, NatFacts DEF Clear, handlerVars, TypeOK, WriterStates, NoLostWakeup,
       PublishAhead, Go
  <2>3. ASSUME NEW t \in Subjects, pending'[t] > 0 PROVE TakeAhead(t)'
    BY <1>6, <2>3, NatFacts, NothingFacts DEF Clear, handlerVars, TypeOK, WriterStates,
       NoLostWakeup, TakeAhead, Go, Returned
  <2> QED BY <2>1, <2>2, <2>3 DEF NoLostWakeup
<1>7. ASSUME NEW w \in Writers, Take(w) PROVE NoLostWakeup'
  <2>1. dirty' => Drained'
    BY <1>7 DEF Take, handlerVars, TypeOK, WriterStates, NoLostWakeup, Drained, OneRebuild,
       Holding, Writers, Go, Returned
  <2>2. ASSUME NEW t \in Subjects, snap'[t] < rules'[t] PROVE PublishAhead(t)'
    <3>1. PublishAhead(t)
      BY <1>7, <2>2 DEF Take, handlerVars, TypeOK, WriterStates, NoLostWakeup
    <3> QED BY <1>7, <3>1, NatFacts DEF Take, handlerVars, TypeOK, WriterStates, NoLostWakeup,
       PublishAhead, Go
  <2>3. ASSUME NEW t \in Subjects, pending'[t] > 0 PROVE TakeAhead(t)'
    BY <1>7, <2>3, NatFacts, NothingFacts DEF Take, handlerVars, TypeOK, WriterStates,
       NoLostWakeup, TakeAhead, Go, Returned
  <2> QED BY <2>1, <2>2, <2>3 DEF NoLostWakeup
<1>8. ASSUME NEW w \in Writers, Read(w) PROVE NoLostWakeup'
  BY <1>8, NatFacts DEF Read, handlerVars, indexVars, requestVars, TypeOK, WriterStates, Ordered,
     NoLostWakeup, PublishAhead, TakeAhead, Drained, Go, Returned, Off, OneRebuild, Holding,
     Writers
<1>9. ASSUME NEW w \in Writers, Stamp(w) PROVE NoLostWakeup'
  <2>1. dirty' => Drained'
    BY <1>9 DEF Stamp, handlerVars, TypeOK, WriterStates, NoLostWakeup, Drained, OneRebuild,
       Holding, Writers, Go, Returned
  <2>2. ASSUME NEW t \in Subjects, snap'[t] < rules'[t] PROVE PublishAhead(t)'
    <3>1. PublishAhead(t)
      BY <1>9, <2>2 DEF Stamp, handlerVars, TypeOK, WriterStates, NoLostWakeup
    <3> QED BY <1>9, <3>1, NatFacts DEF Stamp, handlerVars, TypeOK, WriterStates, NoLostWakeup,
       PublishAhead, Go
  <2>3. ASSUME NEW t \in Subjects, pending'[t] > 0 PROVE TakeAhead(t)'
    BY <1>9, <2>3, NatFacts, NothingFacts DEF Stamp, handlerVars, TypeOK, WriterStates,
       NoLostWakeup, TakeAhead, Go, Returned
  <2> QED BY <2>1, <2>2, <2>3 DEF NoLostWakeup
<1>10. ASSUME NEW w \in Writers, Store(w) PROVE NoLostWakeup'
  <2>1. dirty' => Drained'
    BY <1>10 DEF Store, handlerVars, TypeOK, WriterStates, NoLostWakeup, Drained, OneRebuild,
       Holding, Writers
  <2>2. ASSUME NEW t \in Subjects, snap'[t] < rules'[t] PROVE PublishAhead(t)'
    <3>1. writer[w].seen[t] < rules[t] /\ snap[t] <= writer[w].seen[t]
      BY <1>10, <2>2 DEF Store, Ordered
    <3>2. PublishAhead(t)
      BY <3>1, NatFacts DEF NoLostWakeup
    <3>3. \A v \in Writers : v # w => writer'[v] = writer[v]
      BY <1>10 DEF Store, TypeOK
    <3>4. writer[w].pc \notin {"take", "read"} /\ writer[w].seen[t] # rules[t]
      BY <1>10, <3>1, NatFacts DEF Store
    <3> QED BY <1>10, <3>2, <3>3, <3>4 DEF Store, handlerVars, PublishAhead
  <2>3. ASSUME NEW t \in Subjects, pending'[t] > 0 PROVE TakeAhead(t)'
    BY <1>10, <2>3 DEF Store, handlerVars, TypeOK, WriterStates, NoLostWakeup, TakeAhead
  <2> QED BY <2>1, <2>2, <2>3 DEF NoLostWakeup
<1>11. ASSUME NEW w \in Writers, BuildDeferred(w) PROVE NoLostWakeup'
  <2>1. dirty' => Drained'
    BY <1>11 DEF BuildDeferred, TypeOK, WriterStates, NoLostWakeup, Drained, OneRebuild, Holding,
       Writers, Go
  <2>2. ASSUME NEW t \in Subjects, snap'[t] < rules'[t] PROVE PublishAhead(t)'
    <3>1. PublishAhead(t)
      BY <1>11, <2>2 DEF BuildDeferred, TypeOK, WriterStates, NoLostWakeup
    <3> QED BY <1>11, <3>1 DEF BuildDeferred, TypeOK, WriterStates, NoLostWakeup, PublishAhead, Go
  <2>3. ASSUME NEW t \in Subjects, pending'[t] > 0 PROVE TakeAhead(t)'
    BY <1>11, <2>3 DEF BuildDeferred, TypeOK, WriterStates, NoLostWakeup, TakeAhead, Go
  <2> QED BY <2>1, <2>2, <2>3 DEF NoLostWakeup
<1>12. ASSUME NEW w \in Writers, Flush(w) PROVE NoLostWakeup'
  <2>1. dirty' => Drained'
    BY <1>12 DEF Flush, handlerVars, TypeOK, WriterStates, NoLostWakeup, Drained, OneRebuild,
       Holding, Writers, Go, Returned
  <2>2. ASSUME NEW t \in Subjects, snap'[t] < rules'[t] PROVE PublishAhead(t)'
    BY <1>12, <2>2, NatFacts DEF Flush, handlerVars, TypeOK, WriterStates, NoLostWakeup,
       PublishAhead, Ordered, OneRebuild, Holding, Go, Returned
  <2>3. ASSUME NEW t \in Subjects, pending'[t] > 0 PROVE TakeAhead(t)'
    BY <1>12, <2>3, NatFacts DEF Flush, handlerVars, TypeOK, WriterStates, NoLostWakeup,
       TakeAhead, Go, Returned
  <2> QED BY <2>1, <2>2, <2>3 DEF NoLostWakeup
<1>13. ASSUME NEW w \in Writers, Panic(w) PROVE NoLostWakeup'
  BY <1>13, NatFacts, NothingFacts DEF Panic, handlerVars, indexVars, requestVars, TypeOK,
     WriterStates, Ordered, NoLostWakeup, PublishAhead, TakeAhead, Drained, Restored, Off,
     OneRebuild, Holding
<1>14. ASSUME NEW w \in Writers, Check(w) PROVE NoLostWakeup'
  <2>1. dirty' => Drained'
    BY <1>14 DEF Check, handlerVars, TypeOK, WriterStates, NoLostWakeup, Drained, OneRebuild,
       Holding, Writers, Go
  <2>2. ASSUME NEW t \in Subjects, snap'[t] < rules'[t] PROVE PublishAhead(t)'
    <3>1. PublishAhead(t)
      BY <1>14, <2>2 DEF Check, handlerVars, TypeOK, WriterStates, NoLostWakeup
    <3> QED BY <1>14, <3>1 DEF Check, handlerVars, TypeOK, WriterStates, NoLostWakeup,
       PublishAhead, Go
  <2>3. ASSUME NEW t \in Subjects, pending'[t] > 0 PROVE TakeAhead(t)'
    BY <1>14, <2>3 DEF Check, handlerVars, TypeOK, WriterStates, NoLostWakeup, TakeAhead, Go
  <2> QED BY <2>1, <2>2, <2>3 DEF NoLostWakeup
<1>15. ASSUME NEW w \in Writers, Release(w) PROVE NoLostWakeup'
  <2>1. dirty' => Drained'
    BY <1>15 DEF Release, handlerVars, TypeOK, WriterStates, NoLostWakeup, Drained, OneRebuild,
       Holding, Writers, Go, Returned
  <2>2. ASSUME NEW t \in Subjects, snap'[t] < rules'[t] PROVE PublishAhead(t)'
    BY <1>15, <2>2, NatFacts DEF Release, handlerVars, TypeOK, WriterStates, NoLostWakeup,
       PublishAhead, Ordered, OneRebuild, Holding, Go, Returned
  <2>3. ASSUME NEW t \in Subjects, pending'[t] > 0 PROVE TakeAhead(t)'
    BY <1>15, <2>3, NatFacts DEF Release, handlerVars, TypeOK, WriterStates, NoLostWakeup,
       TakeAhead, Go, Returned
  <2> QED BY <2>1, <2>2, <2>3 DEF NoLostWakeup
<1>16. ASSUME NEW w \in Writers, Recheck(w) PROVE NoLostWakeup'
  <2>1. dirty' => Drained'
    BY <1>16 DEF Recheck, handlerVars, TypeOK, WriterStates, NoLostWakeup, Drained, OneRebuild,
       Holding, Writers, Go, Returned
  <2>2. ASSUME NEW t \in Subjects, snap'[t] < rules'[t] PROVE PublishAhead(t)'
    <3>1. PublishAhead(t)
      BY <1>16, <2>2 DEF Recheck, handlerVars, TypeOK, WriterStates, NoLostWakeup
    <3> QED BY <1>16, <3>1 DEF Recheck, handlerVars, TypeOK, WriterStates, NoLostWakeup,
       PublishAhead, Go
  <2>3. ASSUME NEW t \in Subjects, pending'[t] > 0 PROVE TakeAhead(t)'
    BY <1>16, <2>3 DEF Recheck, handlerVars, TypeOK, WriterStates, NoLostWakeup, TakeAhead, Go
  <2> QED BY <2>1, <2>2, <2>3 DEF NoLostWakeup
<1>17. ASSUME NEW w \in Writers, Reacquire(w) PROVE NoLostWakeup'
  <2>1. dirty' => Drained'
    BY <1>17 DEF Reacquire, handlerVars, TypeOK, WriterStates, NoLostWakeup, Drained, OneRebuild,
       Holding, Writers, Go, Returned
  <2>2. ASSUME NEW t \in Subjects, snap'[t] < rules'[t] PROVE PublishAhead(t)'
    BY <1>17, <2>2, NatFacts DEF Reacquire, handlerVars, TypeOK, WriterStates, NoLostWakeup,
       PublishAhead, Ordered, OneRebuild, Holding, Go, Returned
  <2>3. ASSUME NEW t \in Subjects, pending'[t] > 0 PROVE TakeAhead(t)'
    BY <1>17, <2>3, NatFacts DEF Reacquire, handlerVars, TypeOK, WriterStates, NoLostWakeup,
       TakeAhead, Go, Returned
  <2> QED BY <2>1, <2>2, <2>3 DEF NoLostWakeup
<1>18. CASE InitialMark
  BY <1>18, NatFacts DEF InitialMark, handlerVars, indexVars, requestVars, TypeOK, WriterStates,
     Ordered, NoLostWakeup, PublishAhead, TakeAhead, Drained, Go, Returned, Off, OneRebuild,
     Holding, Writers
<1>19. CASE InitialCas
  BY <1>19, NatFacts DEF InitialCas, handlerVars, indexVars, requestVars, TypeOK, WriterStates,
     Ordered, NoLostWakeup, PublishAhead, TakeAhead, Drained, Go, Returned, Off, OneRebuild,
     Holding, Writers
<1>20. CASE InitialSettle
  BY <1>20, NatFacts DEF InitialSettle, indexVars, TypeOK, WriterStates, Ordered, NoLostWakeup,
     PublishAhead, TakeAhead, Drained, Go, Returned, Off, OneRebuild, Holding, Writers
<1>21. CASE InitialClose
  BY <1>21, NatFacts DEF InitialClose, handlerVars, indexVars, requestVars, TypeOK, WriterStates,
     Ordered, NoLostWakeup, PublishAhead, TakeAhead, Drained, Go, Returned, Off, OneRebuild,
     Holding, Writers
<1>22. CASE EngineBuild
  BY <1>22, NatFacts DEF EngineBuild, loopVars, TypeOK, WriterStates, Ordered, NoLostWakeup,
     PublishAhead, TakeAhead, Drained
<1>23. CASE ReadySettle
  BY <1>23, NatFacts DEF ReadySettle, loopVars, TypeOK, WriterStates, Ordered, NoLostWakeup,
     PublishAhead, TakeAhead, Drained
<1>24. CASE ReadyRecheck
  BY <1>24, NatFacts DEF ReadyRecheck, loopVars, indexVars, TypeOK, WriterStates, Ordered,
     NoLostWakeup, PublishAhead, TakeAhead, Drained
<1>25. ASSUME NEW r \in Requests, Resolve(r) PROVE NoLostWakeup'
  BY <1>25, NatFacts DEF Resolve, handlerVars, loopVars, indexVars, TypeOK, WriterStates, Ordered,
     NoLostWakeup, PublishAhead, TakeAhead, Drained
<1>26. ASSUME NEW r \in Requests, Guard(r) PROVE NoLostWakeup'
  BY <1>26, NatFacts DEF Guard, handlerVars, loopVars, indexVars, TypeOK, WriterStates, Ordered,
     NoLostWakeup, PublishAhead, TakeAhead, Drained
<1>27. ASSUME NEW r \in Requests, Put(r) PROVE NoLostWakeup'
  BY <1>27, NatFacts DEF Put, handlerVars, loopVars, indexVars, TypeOK, WriterStates, Ordered,
     NoLostWakeup, PublishAhead, TakeAhead, Drained
<1>28. ASSUME NEW r \in Requests, NEW s \in Subjects, Mint(r, s) PROVE NoLostWakeup'
  BY <1>28, NatFacts DEF Mint, handlerVars, loopVars, indexVars, TypeOK, WriterStates, Ordered,
     NoLostWakeup, PublishAhead, TakeAhead, Drained
<1>29. CASE UNCHANGED vars
  BY <1>29 DEF vars, handlerVars, loopVars, indexVars, requestVars, TypeOK, WriterStates, Ordered,
     NoLostWakeup, PublishAhead, TakeAhead, Drained
<1> QED
  BY <1>1, <1>2, <1>3, <1>4, <1>5, <1>6, <1>7, <1>8, <1>9, <1>10, <1>11, <1>12, <1>13, <1>14,
     <1>15, <1>16, <1>17, <1>18, <1>19, <1>20, <1>21, <1>22, <1>23, <1>24, <1>25, <1>26, <1>27,
     <1>28, <1>29 DEF Next, Handle, Rebuild, Publish, Serve

\* What a build does to the note and its histories.
LEMMA BuildNotes ==
    ASSUME TypeOK, Noting, Build \/ UNCHANGED <<indexVars, missed, cell>>,
           UNCHANGED <<delivered, noted, gen>>
    PROVE  Noting'
<1>1. CASE UNCHANGED <<indexVars, missed, cell>>
  BY <1>1 DEF Noting, indexVars
<1>2. CASE Build
  BY <1>2, NatFacts DEF Noting, Build, TypeOK
<1> QED BY <1>1, <1>2

\* The note until the build.
LEMMA NoteStep == TypeOK /\ Ordered /\ Noting /\ [Next]_vars => Noting'
<1> SUFFICES ASSUME TypeOK, Ordered, Noting, [Next]_vars PROVE Noting'
    OBVIOUS
<1>1. ASSUME NEW s \in Subjects, Edit(s) PROVE Noting'
  BY <1>1, NatFacts DEF Edit, handlerVars, loopVars, indexVars, requestVars, TypeOK, Noting
<1>2. ASSUME NEW s \in Subjects, Deliver(s) PROVE Noting'
  BY <1>2, NatFacts DEF Deliver, loopVars, requestVars, TypeOK, Noting
<1>3. ASSUME NEW s \in Subjects, Mark(s) PROVE Noting'
  BY <1>3, NatFacts DEF Mark, indexVars, requestVars, TypeOK, Noting
<1>4. ASSUME NEW s \in Subjects, Cas(s) PROVE Noting'
  BY <1>4, NatFacts DEF Cas, indexVars, requestVars, TypeOK, Noting
<1>5. ASSUME NEW s \in Subjects, Hook(s) PROVE Noting'
  BY <1>5, NatFacts DEF Hook, loopVars, indexVars, requestVars, TypeOK, Noting
<1>6. ASSUME NEW w \in Writers, Clear(w) PROVE Noting'
  BY <1>6, NatFacts DEF Clear, handlerVars, indexVars, requestVars, TypeOK, Noting
<1>7. ASSUME NEW w \in Writers, Take(w) PROVE Noting'
  BY <1>7, NatFacts DEF Take, handlerVars, indexVars, requestVars, TypeOK, Noting
<1>8. ASSUME NEW w \in Writers, Read(w) PROVE Noting'
  BY <1>8, NatFacts DEF Read, handlerVars, indexVars, requestVars, TypeOK, Noting
<1>9. ASSUME NEW w \in Writers, Stamp(w) PROVE Noting'
  BY <1>9, NatFacts DEF Stamp, handlerVars, indexVars, requestVars, TypeOK, Noting
<1>10. ASSUME NEW w \in Writers, Store(w) PROVE Noting'
  BY <1>10, NatFacts DEF Store, handlerVars, indexVars, requestVars, TypeOK, Noting
<1>11. ASSUME NEW w \in Writers, BuildDeferred(w) PROVE Noting'
  BY <1>11, NatFacts, BuildNotes DEF BuildDeferred, indexVars, TypeOK, Noting, BuildPending
<1>12. ASSUME NEW w \in Writers, Flush(w) PROVE Noting'
  BY <1>12, NatFacts DEF Flush, handlerVars, indexVars, TypeOK, Noting
<1>13. ASSUME NEW w \in Writers, Panic(w) PROVE Noting'
  BY <1>13, NatFacts DEF Panic, handlerVars, indexVars, requestVars, TypeOK, Noting
<1>14. ASSUME NEW w \in Writers, Check(w) PROVE Noting'
  BY <1>14, NatFacts DEF Check, handlerVars, indexVars, requestVars, TypeOK, Noting
<1>15. ASSUME NEW w \in Writers, Release(w) PROVE Noting'
  BY <1>15, NatFacts DEF Release, handlerVars, indexVars, requestVars, TypeOK, Noting
<1>16. ASSUME NEW w \in Writers, Recheck(w) PROVE Noting'
  BY <1>16, NatFacts DEF Recheck, handlerVars, indexVars, requestVars, TypeOK, Noting
<1>17. ASSUME NEW w \in Writers, Reacquire(w) PROVE Noting'
  BY <1>17, NatFacts DEF Reacquire, handlerVars, indexVars, requestVars, TypeOK, Noting
<1>18. CASE InitialMark
  BY <1>18, NatFacts DEF InitialMark, handlerVars, indexVars, requestVars, TypeOK, Noting
<1>19. CASE InitialCas
  BY <1>19, NatFacts DEF InitialCas, handlerVars, indexVars, requestVars, TypeOK, Noting
<1>20. CASE InitialSettle
  BY <1>20, NatFacts, BuildNotes DEF InitialSettle, indexVars, TypeOK, Noting, BuildPending
<1>21. CASE InitialClose
  BY <1>21, NatFacts DEF InitialClose, handlerVars, indexVars, requestVars, TypeOK, Noting
<1>22. CASE EngineBuild
  BY <1>22, NatFacts, BuildNotes DEF EngineBuild, loopVars, TypeOK, Noting, BuildPending
<1>23. CASE ReadySettle
  BY <1>23, NatFacts, BuildNotes DEF ReadySettle, loopVars, TypeOK, Noting, BuildPending
<1>24. CASE ReadyRecheck
  BY <1>24, NatFacts, BuildNotes DEF ReadyRecheck, loopVars, indexVars, TypeOK, Noting,
     BuildPending
<1>25. ASSUME NEW r \in Requests, Resolve(r) PROVE Noting'
  BY <1>25, NatFacts DEF Resolve, handlerVars, loopVars, indexVars, TypeOK, Noting
<1>26. ASSUME NEW r \in Requests, Guard(r) PROVE Noting'
  BY <1>26, NatFacts DEF Guard, handlerVars, loopVars, indexVars, TypeOK, Noting
<1>27. ASSUME NEW r \in Requests, Put(r) PROVE Noting'
  BY <1>27, NatFacts DEF Put, handlerVars, loopVars, indexVars, TypeOK, Noting
<1>28. ASSUME NEW r \in Requests, NEW s \in Subjects, Mint(r, s) PROVE Noting'
  BY <1>28, NatFacts DEF Mint, handlerVars, loopVars, indexVars, TypeOK, Noting
<1>29. CASE UNCHANGED vars
  BY <1>29 DEF vars, handlerVars, loopVars, indexVars, requestVars, TypeOK, Noting
<1> QED
  BY <1>1, <1>2, <1>3, <1>4, <1>5, <1>6, <1>7, <1>8, <1>9, <1>10, <1>11, <1>12, <1>13, <1>14,
     <1>15, <1>16, <1>17, <1>18, <1>19, <1>20, <1>21, <1>22, <1>23, <1>24, <1>25, <1>26, <1>27,
     <1>28, <1>29 DEF Next, Handle, Rebuild, Publish, Serve

\* A step that rotates nothing and puts nothing keeps the cells fresh, if each
\* subject's rotation stays ahead or becomes so.
LEMMA CellKeeps ==
    ASSUME TypeOK, CellInv, UNCHANGED <<subgen, epoch, request, cell>>,
           \A s \in Subjects :
             \/ RotationAhead(s)'
             \/ /\ rules'[s] = rules[s]
                /\ snap[s] = rules[s] => snap'[s] = rules[s]
                /\ RotationAhead(s) \/ missed[s] = rules[s] =>
                     RotationAhead(s)' \/ missed'[s] = rules[s]
    PROVE  CellInv'
<1>1. \A s \in Subjects : Rotating(s)'
  BY DEF CellInv, Rotating
<1>2. ASSUME NEW r \in Requests PROVE RequestFresh(r)'
  <2>1. request[r] # NoRequest => request[r].subject \in Subjects
    BY DEF TypeOK, RequestStates
  <2> QED BY <2>1 DEF CellInv, RequestFresh, RBACSubGen
<1>3. StaleCellUnreachable'
  BY DEF CellInv, StaleCellUnreachable
<1> QED BY <1>1, <1>2, <1>3 DEF CellInv

\* A build that raises the epoch leaves no cell and no request of the new key;
\* an edit noted and not published is missed.
LEMMA BuildCells ==
    ASSUME TypeOK, EpochOnce, Ordered, Noting, CellInv,
           Build \/ UNCHANGED <<indexVars, missed, cell>>,
           UNCHANGED <<rules, delivered, handler, noted, pending, snap, subgen, request>>,
           \A w \in Writers : writer'[w].taken = writer[w].taken
    PROVE  CellInv'
<1>1. CASE epoch' = epoch /\ UNCHANGED <<note, missed, cell>>
  <2>1. \A s \in Subjects : RotationAhead(s)' <=> RotationAhead(s)
    BY <1>1 DEF RotationAhead, Hooking
  <2> QED BY <1>1, <2>1, CellKeeps
<1>2. CASE epoch' = epoch + 1
  <2>1. /\ ~built /\ note /\ epoch = 0 /\ cell' = Nothing /\ note' = FALSE
        /\ missed' = [s \in Subjects |->
                       IF noted[s] > snap[s] /\ ~(delivered[s] = noted[s] /\ Hooking(s))
                       THEN noted[s] ELSE missed[s]]
    BY <1>2 DEF Build, indexVars, TypeOK, EpochOnce
  <2>2. ASSUME NEW s \in Subjects PROVE Rotating(s)'
    <3>1. Rotating(s)
      BY DEF CellInv
    <3>2. noted[s] > 0 => noted[s] = delivered[s]
      BY <2>1 DEF Noting
    <3>3. missed[s] <= delivered[s]
      BY DEF Noting
    <3>4. missed'[s] = IF noted[s] > snap[s] /\ ~(delivered[s] = noted[s] /\ Hooking(s))
                       THEN noted[s] ELSE missed[s]
      BY <2>1
    <3>5. CASE delivered[s] < rules[s] \/ Hooking(s) \/ pending[s] = rules[s]
               \/ \E w \in Writers : writer[w].taken[s] = rules[s]
      BY <3>5 DEF Rotating, RotationAhead, Hooking
    <3>6. CASE noted[s] = rules[s] /\ ~Hooking(s)
      BY <3>4, <3>6, NatFacts DEF Rotating, Ordered
    <3>7. CASE missed[s] = rules[s] /\ ~Hooking(s)
      <4>1. noted[s] = 0 \/ noted[s] = rules[s]
        BY <3>2, <3>3, <3>7, NatFacts DEF Ordered
      <4> QED BY <3>4, <3>6, <3>7, <4>1, NatFacts DEF Rotating
    <3>8. CASE snap[s] = rules[s]
      BY <3>8 DEF Rotating
    <3> QED BY <3>1, <3>5, <3>6, <3>7, <3>8 DEF Rotating, RotationAhead
  <2>3. ASSUME NEW r \in Requests PROVE RequestFresh(r)'
    <3>1. request[r] # NoRequest => request[r].subject \in Subjects /\ request[r].key \in Nat
      BY DEF TypeOK, RequestStates
    <3>2. RequestFresh(r)
      BY DEF CellInv
    <3>3. \A s \in Subjects : RBACSubGen(s) \in Nat /\ RBACSubGen(s)' = RBACSubGen(s) + 1
      BY <1>2 DEF RBACSubGen, TypeOK
    <3> QED BY <3>1, <3>2, <3>3 DEF RequestFresh
  <2>4. StaleCellUnreachable'
    BY <2>1, NothingFacts DEF StaleCellUnreachable
  <2> QED BY <2>2, <2>3, <2>4 DEF CellInv
<1> QED BY <1>1, <1>2 DEF Build, indexVars

\* No step leaves a stale cell in reach but the windows of the epoch.
LEMMA CellStep == TypeOK /\ EpochOnce /\ OneRebuild /\ Ordered /\ Noting /\ CellInv /\ [Next]_vars => CellInv'
<1> SUFFICES ASSUME TypeOK, EpochOnce, OneRebuild, Ordered, Noting, CellInv, [Next]_vars PROVE CellInv'
    OBVIOUS
<1>1. ASSUME NEW s \in Subjects, Edit(s) PROVE CellInv'
  <2>1. \A t \in Subjects : RotationAhead(t)' \/ rules'[t] = rules[t]
    BY <1>1, NatFacts DEF Edit, handlerVars, RotationAhead, Ordered, TypeOK
  <2>2. \A t \in Subjects : rules'[t] = rules[t] => (RotationAhead(t)' <=> RotationAhead(t))
    BY <1>1 DEF Edit, handlerVars, loopVars, indexVars, RotationAhead, Hooking
  <2>3. UNCHANGED <<snap, missed, subgen, epoch, request, cell>>
    BY <1>1 DEF Edit, handlerVars, indexVars, requestVars
  <2> QED BY <2>1, <2>2, <2>3, CellKeeps
<1>2. ASSUME NEW s \in Subjects, Deliver(s) PROVE CellInv'
  <2>1. RotationAhead(s)'
    BY <1>2 DEF Deliver, RotationAhead, Hooking, TypeOK
  <2>2. \A t \in Subjects : t # s => RotationAhead(t)' \/ ~RotationAhead(t)
    BY <1>2 DEF Deliver, loopVars, RotationAhead, Hooking, TypeOK
  <2>3. UNCHANGED <<rules, snap, missed, subgen, epoch, request, cell>>
    BY <1>2 DEF Deliver, requestVars
  <2> QED BY <2>1, <2>2, <2>3, CellKeeps
<1>3. ASSUME NEW s \in Subjects, Mark(s) PROVE CellInv'
  <2>1. \A t \in Subjects : RotationAhead(t)' <=> RotationAhead(t)
    BY <1>3 DEF Mark, indexVars, requestVars, RotationAhead, Hooking, TypeOK, WriterStates, Go,
       Writers
  <2>2. UNCHANGED <<rules, snap, missed, subgen, epoch, request, cell>>
    BY <1>3 DEF Mark, indexVars, requestVars
  <2> QED BY <2>1, <2>2, CellKeeps
<1>4. ASSUME NEW s \in Subjects, Cas(s) PROVE CellInv'
  <2>1. \A t \in Subjects : RotationAhead(t)' <=> RotationAhead(t)
    BY <1>4 DEF Cas, indexVars, requestVars, RotationAhead, Hooking, TypeOK, WriterStates, Go,
       Writers
  <2>2. UNCHANGED <<rules, snap, missed, subgen, epoch, request, cell>>
    BY <1>4 DEF Cas, indexVars, requestVars
  <2> QED BY <2>1, <2>2, CellKeeps
<1>5. ASSUME NEW s \in Subjects, Hook(s) PROVE CellInv'
  <2>1. UNCHANGED <<rules, snap, subgen, epoch, request, cell, note, noted, delivered, writer>>
    BY <1>5 DEF Hook, loopVars, indexVars, requestVars
  <2>2. \A t \in Subjects : t # s =>
          (RotationAhead(t)' <=> RotationAhead(t)) /\ missed'[t] = missed[t]
    BY <1>5, <2>1 DEF Hook, RotationAhead, Hooking, TypeOK
  <2>3. RotationAhead(s)' \/ missed'[s] = rules[s]
    <3>1. CASE delivered[s] < rules[s]
      BY <3>1, <2>1 DEF RotationAhead
    <3>2. CASE ~(delivered[s] < rules[s])
      <4>1. delivered[s] = rules[s]
        BY <3>2, NatFacts DEF Ordered
      <4>2. CASE built
        BY <1>5, <4>1, <4>2, <2>1 DEF Hook, RotationAhead, TypeOK
      <4>3. CASE ~built /\ noted[s] = delivered[s]
        BY <4>1, <4>3, <2>1, NatFacts DEF Noting, RotationAhead, Ordered
      <4>4. CASE ~built /\ noted[s] # delivered[s]
        BY <1>5, <4>1, <4>4 DEF Hook, TypeOK
      <4> QED BY <4>2, <4>3, <4>4
    <3> QED BY <3>1, <3>2
  <2> QED BY <2>1, <2>2, <2>3, CellKeeps
<1>6. ASSUME NEW w \in Writers, Clear(w) PROVE CellInv'
  <2>1. \A t \in Subjects : RotationAhead(t)' <=> RotationAhead(t)
    BY <1>6 DEF Clear, handlerVars, indexVars, requestVars, RotationAhead, Hooking, TypeOK,
       WriterStates, Go, Writers
  <2>2. UNCHANGED <<rules, snap, missed, subgen, epoch, request, cell>>
    BY <1>6 DEF Clear, handlerVars, indexVars, requestVars
  <2> QED BY <2>1, <2>2, CellKeeps
<1>7. ASSUME NEW w \in Writers, Take(w) PROVE CellInv'
  <2>1. UNCHANGED <<rules, snap, subgen, epoch, request, cell, note, noted, delivered, handler,
                    missed>>
    BY <1>7 DEF Take, handlerVars, indexVars, requestVars
  <2>2. writer'[w].taken = pending /\ \A v \in Writers : v # w => writer'[v] = writer[v]
    BY <1>7 DEF Take, TypeOK, WriterStates
  <2>3. \A t \in Subjects : writer[w].taken[t] # rules[t]
    BY <1>7, NatFacts DEF Take, Ordered, Carrying
  <2>4. \A t \in Subjects : RotationAhead(t) => RotationAhead(t)'
    BY <2>1, <2>2, <2>3 DEF RotationAhead, Hooking
  <2> QED BY <2>1, <2>4, CellKeeps
<1>8. ASSUME NEW w \in Writers, Read(w) PROVE CellInv'
  <2>1. \A t \in Subjects : RotationAhead(t)' <=> RotationAhead(t)
    BY <1>8 DEF Read, handlerVars, indexVars, requestVars, RotationAhead, Hooking, TypeOK,
       WriterStates, Go, Writers
  <2>2. UNCHANGED <<rules, snap, missed, subgen, epoch, request, cell>>
    BY <1>8 DEF Read, handlerVars, indexVars, requestVars
  <2> QED BY <2>1, <2>2, CellKeeps
<1>9. ASSUME NEW w \in Writers, Stamp(w) PROVE CellInv'
  <2>1. \A t \in Subjects : RotationAhead(t)' <=> RotationAhead(t)
    BY <1>9 DEF Stamp, handlerVars, indexVars, requestVars, RotationAhead, Hooking, TypeOK,
       WriterStates, Go, Writers
  <2>2. UNCHANGED <<rules, snap, missed, subgen, epoch, request, cell>>
    BY <1>9 DEF Stamp, handlerVars, indexVars, requestVars
  <2> QED BY <2>1, <2>2, CellKeeps
<1>10. ASSUME NEW w \in Writers, Store(w) PROVE CellInv'
  <2>1. UNCHANGED <<rules, subgen, epoch, request, cell, note, noted, delivered, handler, missed,
                    pending>>
    BY <1>10 DEF Store, handlerVars, indexVars, requestVars
  <2>2. \A v \in Writers : writer'[v].taken = writer[v].taken
    BY <1>10 DEF Store, TypeOK, WriterStates
  <2>3. \A t \in Subjects : snap[t] = rules[t] => snap'[t] = rules[t]
    BY <1>10, NatFacts DEF Store, Ordered
  <2>4. \A t \in Subjects : RotationAhead(t) => RotationAhead(t)'
    BY <2>1, <2>2 DEF RotationAhead, Hooking
  <2> QED BY <2>1, <2>3, <2>4, CellKeeps
<1>11. ASSUME NEW w \in Writers, BuildDeferred(w) PROVE CellInv'
  <2>1. UNCHANGED <<rules, delivered, handler, noted, pending, snap, subgen, request>>
    BY <1>11 DEF BuildDeferred
  <2>2. Build \/ UNCHANGED <<indexVars, missed, cell>>
    BY <1>11 DEF BuildDeferred, BuildPending
  <2>3. \A v \in Writers : writer'[v].taken = writer[v].taken
    BY <1>11 DEF BuildDeferred, Go, TypeOK, WriterStates
  <2> QED BY <2>1, <2>2, <2>3, BuildCells
<1>12. ASSUME NEW w \in Writers, Flush(w) PROVE CellInv'
  <2> DEFINE taken == writer[w].taken
  <2>1. UNCHANGED <<rules, snap, epoch, request, note, noted, delivered, handler, missed, pending>>
    BY <1>12 DEF Flush, handlerVars, indexVars
  <2>2. \A v \in Writers : v # w => writer'[v] = writer[v]
    BY <1>12 DEF Flush, TypeOK
  <2>3. \A t \in Subjects :
          /\ subgen'[t] = IF taken[t] > 0 THEN subgen[t] + 1 ELSE subgen[t]
          /\ cell'[t] = IF taken[t] > 0 THEN 0 ELSE cell[t]
    BY <1>12 DEF Flush
  <2>4. \A t \in Subjects : taken[t] # rules[t] /\ RotationAhead(t) => RotationAhead(t)'
    BY <2>1, <2>2 DEF RotationAhead, Hooking
  <2>5. \A t \in Subjects : taken[t] = rules[t] => taken[t] > 0 /\ snap[t] = rules[t]
    BY <1>12, NatFacts DEF Flush, Ordered
  <2>6. ASSUME NEW t \in Subjects PROVE Rotating(t)'
    BY <2>1, <2>4, <2>5 DEF CellInv, Rotating
  <2>7. ASSUME NEW r \in Requests PROVE RequestFresh(r)'
    <3>1. request[r] # NoRequest => request[r].subject \in Subjects /\ request[r].key \in Nat
      BY DEF TypeOK, RequestStates
    <3>2. RequestFresh(r)
      BY DEF CellInv
    <3>3. \A t \in Subjects :
            /\ RBACSubGen(t) \in Nat
            /\ RBACSubGen(t)' = IF taken[t] > 0 THEN RBACSubGen(t) + 1 ELSE RBACSubGen(t)
      BY <2>1, <2>3 DEF RBACSubGen, TypeOK
    <3> HIDE DEF taken
    <3> QED BY <3>1, <3>2, <3>3, <2>1, <2>4, <2>5 DEF RequestFresh
  <2>8. StaleCellUnreachable'
    BY <2>1, <2>3, <2>4, <2>5, NatFacts DEF CellInv, StaleCellUnreachable
  <2> QED BY <2>6, <2>7, <2>8 DEF CellInv
<1>13. ASSUME NEW w \in Writers, Panic(w) PROVE CellInv'
  <2>1. UNCHANGED <<rules, snap, subgen, epoch, request, cell, note, noted, delivered, handler,
                    missed>>
    BY <1>13 DEF Panic, handlerVars, indexVars, requestVars
  <2>2. \A v \in Writers : v # w => writer'[v] = writer[v]
    BY <1>13 DEF Panic, TypeOK
  <2>3. \A t \in Subjects : pending[t] = rules[t] => pending'[t] = rules[t]
    BY <1>13, NatFacts DEF Panic, Restored, Ordered
  <2>4. \A t \in Subjects : writer[w].taken[t] = rules[t] => pending'[t] = rules[t]
    BY <1>13, NatFacts DEF Panic, Restored, Ordered
  <2>5. \A t \in Subjects : RotationAhead(t) => RotationAhead(t)'
    BY <2>1, <2>2, <2>3, <2>4 DEF RotationAhead, Hooking
  <2> QED BY <2>1, <2>5, CellKeeps
<1>14. ASSUME NEW w \in Writers, Check(w) PROVE CellInv'
  <2>1. \A t \in Subjects : RotationAhead(t)' <=> RotationAhead(t)
    BY <1>14 DEF Check, handlerVars, indexVars, requestVars, RotationAhead, Hooking, TypeOK,
       WriterStates, Go, Writers
  <2>2. UNCHANGED <<rules, snap, missed, subgen, epoch, request, cell>>
    BY <1>14 DEF Check, handlerVars, indexVars, requestVars
  <2> QED BY <2>1, <2>2, CellKeeps
<1>15. ASSUME NEW w \in Writers, Release(w) PROVE CellInv'
  <2>1. \A t \in Subjects : RotationAhead(t)' <=> RotationAhead(t)
    BY <1>15 DEF Release, handlerVars, indexVars, requestVars, RotationAhead, Hooking, TypeOK,
       WriterStates, Go, Writers
  <2>2. UNCHANGED <<rules, snap, missed, subgen, epoch, request, cell>>
    BY <1>15 DEF Release, handlerVars, indexVars, requestVars
  <2> QED BY <2>1, <2>2, CellKeeps
<1>16. ASSUME NEW w \in Writers, Recheck(w) PROVE CellInv'
  <2>1. \A t \in Subjects : RotationAhead(t)' <=> RotationAhead(t)
    BY <1>16 DEF Recheck, handlerVars, indexVars, requestVars, RotationAhead, Hooking, TypeOK,
       WriterStates, Go, Writers
  <2>2. UNCHANGED <<rules, snap, missed, subgen, epoch, request, cell>>
    BY <1>16 DEF Recheck, handlerVars, indexVars, requestVars
  <2> QED BY <2>1, <2>2, CellKeeps
<1>17. ASSUME NEW w \in Writers, Reacquire(w) PROVE CellInv'
  <2>1. \A t \in Subjects : RotationAhead(t)' <=> RotationAhead(t)
    BY <1>17 DEF Reacquire, handlerVars, indexVars, requestVars, RotationAhead, Hooking, TypeOK,
       WriterStates, Go, Writers
  <2>2. UNCHANGED <<rules, snap, missed, subgen, epoch, request, cell>>
    BY <1>17 DEF Reacquire, handlerVars, indexVars, requestVars
  <2> QED BY <2>1, <2>2, CellKeeps
<1>18. CASE InitialMark
  <2>1. \A t \in Subjects : RotationAhead(t)' <=> RotationAhead(t)
    BY <1>18 DEF InitialMark, handlerVars, indexVars, requestVars, RotationAhead, Hooking, TypeOK,
       WriterStates, Go, Writers
  <2>2. UNCHANGED <<rules, snap, missed, subgen, epoch, request, cell>>
    BY <1>18 DEF InitialMark, handlerVars, indexVars, requestVars
  <2> QED BY <2>1, <2>2, CellKeeps
<1>19. CASE InitialCas
  <2>1. \A t \in Subjects : RotationAhead(t)' <=> RotationAhead(t)
    BY <1>19 DEF InitialCas, handlerVars, indexVars, requestVars, RotationAhead, Hooking, TypeOK,
       WriterStates, Go, Writers
  <2>2. UNCHANGED <<rules, snap, missed, subgen, epoch, request, cell>>
    BY <1>19 DEF InitialCas, handlerVars, indexVars, requestVars
  <2> QED BY <2>1, <2>2, CellKeeps
<1>20. CASE InitialSettle
  <2>1. UNCHANGED <<rules, delivered, handler, noted, pending, snap, subgen, request>>
    BY <1>20 DEF InitialSettle
  <2>2. Build \/ UNCHANGED <<indexVars, missed, cell>>
    BY <1>20 DEF InitialSettle, BuildPending
  <2>3. \A v \in Writers : writer'[v].taken = writer[v].taken
    BY <1>20 DEF InitialSettle, Go, TypeOK, WriterStates
  <2> QED BY <2>1, <2>2, <2>3, BuildCells
<1>21. CASE InitialClose
  <2>1. \A t \in Subjects : RotationAhead(t)' <=> RotationAhead(t)
    BY <1>21 DEF InitialClose, handlerVars, indexVars, requestVars, RotationAhead, Hooking,
       TypeOK, WriterStates, Go, Writers
  <2>2. UNCHANGED <<rules, snap, missed, subgen, epoch, request, cell>>
    BY <1>21 DEF InitialClose, handlerVars, indexVars, requestVars
  <2> QED BY <2>1, <2>2, CellKeeps
<1>22. CASE EngineBuild
  <2>1. UNCHANGED <<rules, delivered, handler, noted, pending, snap, subgen, request, writer>>
    BY <1>22 DEF EngineBuild, loopVars
  <2>2. Build \/ UNCHANGED <<indexVars, missed, cell>>
    BY <1>22 DEF EngineBuild, BuildPending
  <2> QED BY <2>1, <2>2, BuildCells
<1>23. CASE ReadySettle
  <2>1. UNCHANGED <<rules, delivered, handler, noted, pending, snap, subgen, request, writer>>
    BY <1>23 DEF ReadySettle, loopVars
  <2>2. CASE Build
    BY <2>1, <2>2, BuildCells
  <2>3. CASE ~Build
    <3>1. UNCHANGED <<note, missed, epoch, cell>>
      BY <1>23, <2>3 DEF ReadySettle
    <3>2. \A t \in Subjects : RotationAhead(t)' <=> RotationAhead(t)
      BY <2>1, <3>1 DEF RotationAhead, Hooking
    <3> QED BY <2>1, <3>1, <3>2, CellKeeps
  <2> QED BY <2>2, <2>3
<1>24. CASE ReadyRecheck
  <2>1. UNCHANGED <<rules, delivered, handler, noted, pending, snap, subgen, request, writer>>
    BY <1>24 DEF ReadyRecheck, loopVars
  <2>2. Build \/ UNCHANGED <<indexVars, missed, cell>>
    BY <1>24 DEF ReadyRecheck, BuildPending
  <2> QED BY <2>1, <2>2, BuildCells
<1>25. ASSUME NEW r \in Requests, Resolve(r) PROVE CellInv'
  <2>1. UNCHANGED <<rules, snap, subgen, epoch, note, noted, delivered, handler, missed, pending,
                    writer>>
    BY <1>25 DEF Resolve, handlerVars, loopVars, indexVars
  <2>2. \A t \in Subjects : RotationAhead(t)' <=> RotationAhead(t)
    BY <2>1 DEF RotationAhead, Hooking
  <2>3. \A t \in Subjects : RBACSubGen(t)' = RBACSubGen(t) /\ RBACSubGen(t) \in Nat
    BY <2>1 DEF RBACSubGen, TypeOK
  <2>4. \A q \in Requests : q # r => request'[q] = request[q]
    BY <1>25 DEF Resolve, TypeOK
  <2>5. RequestFresh(r)'
    <3>1. request[r] # NoRequest /\ request[r].subject \in Subjects
      BY <1>25 DEF Resolve, NoRequest, TypeOK, RequestStates
    <3>2. request'[r] = [request[r] EXCEPT !.pc = "guard", !.body = snap[request[r].subject]]
      BY <1>25 DEF Resolve, TypeOK
    <3>3. /\ request'[r].subject = request[r].subject /\ request'[r].key = request[r].key
          /\ request'[r].body = snap[request[r].subject]
      BY <3>1, <3>2 DEF TypeOK, RequestStates
    <3>4. RequestFresh(r) /\ Rotating(request[r].subject)
      BY <3>1 DEF CellInv
    <3> QED BY <2>1, <2>2, <2>3, <3>1, <3>3, <3>4, NatFacts DEF RequestFresh, Rotating
  <2>6. ASSUME NEW q \in Requests PROVE RequestFresh(q)'
    <3>1. request[q] # NoRequest => request[q].subject \in Subjects
      BY DEF TypeOK, RequestStates
    <3>2. CASE q # r
      BY <2>1, <2>2, <2>3, <2>4, <3>1, <3>2 DEF CellInv, RequestFresh
    <3> QED BY <2>5, <3>2
  <2>7. StaleCellUnreachable'
    BY <1>25, <2>1, <2>2 DEF Resolve, CellInv, StaleCellUnreachable
  <2> QED BY <2>1, <2>2, <2>6, <2>7 DEF CellInv, Rotating
<1>26. ASSUME NEW r \in Requests, Guard(r) PROVE CellInv'
  <2>1. UNCHANGED <<rules, snap, subgen, epoch, note, noted, delivered, handler, missed, pending,
                    writer>>
    BY <1>26 DEF Guard, handlerVars, loopVars, indexVars
  <2>2. \A t \in Subjects : RotationAhead(t)' <=> RotationAhead(t)
    BY <2>1 DEF RotationAhead, Hooking
  <2>3. \A t \in Subjects : RBACSubGen(t)' = RBACSubGen(t) /\ RBACSubGen(t) \in Nat
    BY <2>1 DEF RBACSubGen, TypeOK
  <2>4. \A q \in Requests : q # r => request'[q] = request[q]
    BY <1>26 DEF Guard, TypeOK
  <2>5. RequestFresh(r)'
    <3>1. /\ request[r] # NoRequest /\ request[r].subject \in Subjects
          /\ request[r].pc = "guard"
      BY <1>26 DEF Guard, NoRequest, TypeOK, RequestStates
    <3>2. request'[r] = NoRequest \/ request'[r] = [request[r] EXCEPT !.pc = "put"]
      BY <1>26 DEF Guard, TypeOK
    <3>3. request'[r] # NoRequest =>
            /\ request'[r].subject = request[r].subject /\ request'[r].key = request[r].key
            /\ request'[r].body = request[r].body
      BY <3>1, <3>2 DEF TypeOK, RequestStates
    <3>4. RequestFresh(r)
      BY DEF CellInv
    <3> QED BY <2>1, <2>2, <2>3, <3>1, <3>3, <3>4 DEF RequestFresh
  <2>6. ASSUME NEW q \in Requests PROVE RequestFresh(q)'
    <3>1. request[q] # NoRequest => request[q].subject \in Subjects
      BY DEF TypeOK, RequestStates
    <3>2. CASE q # r
      BY <2>1, <2>2, <2>3, <2>4, <3>1, <3>2 DEF CellInv, RequestFresh
    <3> QED BY <2>5, <3>2
  <2>7. StaleCellUnreachable'
    BY <1>26, <2>1, <2>2 DEF Guard, CellInv, StaleCellUnreachable
  <2> QED BY <2>1, <2>2, <2>6, <2>7 DEF CellInv, Rotating
<1>27. ASSUME NEW r \in Requests, Put(r) PROVE CellInv'
  <2>1. UNCHANGED <<rules, snap, subgen, epoch, note, noted, delivered, handler, missed, pending,
                    writer>>
    BY <1>27 DEF Put, handlerVars, loopVars, indexVars
  <2>2. \A t \in Subjects : RotationAhead(t)' <=> RotationAhead(t)
    BY <2>1 DEF RotationAhead, Hooking
  <2>3. \A t \in Subjects : RBACSubGen(t)' = RBACSubGen(t) /\ RBACSubGen(t) \in Nat
    BY <2>1 DEF RBACSubGen, TypeOK
  <2>4. \A q \in Requests : q # r => request'[q] = request[q]
    BY <1>27 DEF Put, TypeOK
  <2>5. RequestFresh(r)'
    BY <1>27 DEF Put, TypeOK, RequestFresh
  <2>6. ASSUME NEW q \in Requests PROVE RequestFresh(q)'
    <3>1. request[q] # NoRequest => request[q].subject \in Subjects
      BY DEF TypeOK, RequestStates
    <3>2. CASE q # r
      BY <2>1, <2>2, <2>3, <2>4, <3>1, <3>2 DEF CellInv, RequestFresh
    <3> QED BY <2>5, <3>2
  <2>7. StaleCellUnreachable'
    <3>1. /\ request[r] # NoRequest /\ request[r].subject \in Subjects /\ request[r].pc = "put"
      BY <1>27 DEF Put, NoRequest, TypeOK, RequestStates
    <3>2. RequestFresh(r)
      BY DEF CellInv
    <3>3. \A t \in Subjects :
            \/ cell'[t] = cell[t]
            \/ /\ t = request[r].subject /\ cell'[t] = request[r].body
               /\ request[r].key = RBACSubGen(t)
      BY <1>27, <3>1 DEF Put, TypeOK
    <3> QED BY <2>1, <2>2, <3>1, <3>2, <3>3 DEF CellInv, StaleCellUnreachable, RequestFresh
  <2> QED BY <2>1, <2>2, <2>6, <2>7 DEF CellInv, Rotating
<1>28. ASSUME NEW r \in Requests, NEW s \in Subjects, Mint(r, s) PROVE CellInv'
  <2>1. UNCHANGED <<rules, snap, subgen, epoch, note, noted, delivered, handler, missed, pending,
                    writer>>
    BY <1>28 DEF Mint, handlerVars, loopVars, indexVars
  <2>2. \A t \in Subjects : RotationAhead(t)' <=> RotationAhead(t)
    BY <2>1 DEF RotationAhead, Hooking
  <2>3. \A t \in Subjects : RBACSubGen(t)' = RBACSubGen(t) /\ RBACSubGen(t) \in Nat
    BY <2>1 DEF RBACSubGen, TypeOK
  <2>4. \A q \in Requests : q # r => request'[q] = request[q]
    BY <1>28 DEF Mint, TypeOK
  <2>5. RequestFresh(r)'
    BY <1>28, <2>3 DEF Mint, TypeOK, RequestFresh
  <2>6. ASSUME NEW q \in Requests PROVE RequestFresh(q)'
    <3>1. request[q] # NoRequest => request[q].subject \in Subjects
      BY DEF TypeOK, RequestStates
    <3>2. CASE q # r
      BY <2>1, <2>2, <2>3, <2>4, <3>1, <3>2 DEF CellInv, RequestFresh
    <3> QED BY <2>5, <3>2
  <2>7. StaleCellUnreachable'
    BY <1>28, <2>1, <2>2 DEF Mint, CellInv, StaleCellUnreachable
  <2> QED BY <2>1, <2>2, <2>6, <2>7 DEF CellInv, Rotating
<1>29. CASE UNCHANGED vars
  BY <1>29 DEF vars, handlerVars, loopVars, indexVars, requestVars, CellInv, Rotating,
     RequestFresh, StaleCellUnreachable, RotationAhead, Hooking, RBACSubGen
<1> QED
  BY <1>1, <1>2, <1>3, <1>4, <1>5, <1>6, <1>7, <1>8, <1>9, <1>10, <1>11, <1>12, <1>13, <1>14,
     <1>15, <1>16, <1>17, <1>18, <1>19, <1>20, <1>21, <1>22, <1>23, <1>24, <1>25, <1>26, <1>27,
     <1>28, <1>29 DEF Next, Handle, Rebuild, Publish, Serve

\* The inductive invariant.
IInv == TypeOK /\ EpochOnce /\ OneRebuild /\ Ordered /\ NoLostWakeup /\ Noting /\ CellInv

\* The inductive invariant holds initially.
LEMMA InitIInv == Init => IInv
<1> SUFFICES ASSUME Init PROVE IInv
    OBVIOUS
<1>1. TypeOK
  <2>1. /\ rules \in [Subjects -> Versions] /\ Off \in WriterStates
        /\ [Off EXCEPT !.pc = "mark"] \in WriterStates /\ NoRequest \in RequestStates
    BY VersionFacts, NothingFacts DEF Init, WriterStates, Off, RequestStates
  <2>2. writer \in [Writers -> WriterStates] /\ request \in [Requests -> RequestStates]
    BY <2>1 DEF Init
  <2>3. subgen \in [Subjects -> Nat]
    BY DEF Init, Nothing
  <2>4. handler \in [Subjects -> {"idle", "mark", "cas", "hook", "remark", "recas"}]
    BY DEF Init
  <2>5. panics \in 0..MaxPanics /\ epoch \in 0..1
    BY ConstantsAssumption DEF Init
  <2> QED BY <2>1, <2>2, <2>3, <2>4, <2>5, NothingFacts DEF Init, TypeOK
<1>2. OneRebuild
  BY DEF Init, OneRebuild, Holding, Off
<1>3. Ordered
  BY NothingFacts DEF Init, Ordered, Off
<1>4. NoLostWakeup
  BY NothingFacts DEF Init, NoLostWakeup, PublishAhead
<1>5. Noting
  <2>1. ASSUME NEW s \in Subjects
        PROVE  noted[s] <= delivered[s] /\ missed[s] <= delivered[s] /\ ~(noted[s] > 0)
    <3>1. noted[s] = 0 /\ missed[s] = 0 /\ delivered[s] = 0
      BY NothingFacts DEF Init
    <3> QED BY <3>1
  <2> QED BY <2>1, Zenon DEF Noting
<1>6. CellInv
  BY NothingFacts DEF Init, CellInv, Rotating, RotationAhead, RequestFresh, StaleCellUnreachable
<1> QED BY <1>1, <1>2, <1>3, <1>4, <1>5, <1>6 DEF IInv, Init, EpochOnce

\* The inductive invariant is inductive.
LEMMA NextIInv == IInv /\ [Next]_vars => IInv'
  BY TypeStep, OneStep, OrderedStep, WakeStep, NoteStep, CellStep DEF IInv

\* The inductive invariant holds in every reachable state.
LEMMA Invariance == Spec => []IInv
  BY InitIInv, NextIInv, PTL DEF Spec

\* Every variable keeps its type.
THEOREM TypeCorrect == Spec => []TypeOK
  BY Invariance, PTL DEF IInv

\* #687: at most one goroutine rebuilds, and only under the slot.
THEOREM AtMostOneRebuild == Spec => []OneRebuild
  BY Invariance, PTL DEF IInv

\* #687: a dirty mark always has a goroutine that will look at it, and every
\* unpublished edit and untaken bump has its mark, handler or rebuild.
THEOREM WakeupNotLost == Spec => []NoLostWakeup
  BY Invariance, PTL DEF IInv

\* #703: a flushed bump's edit is in the published snapshot.
THEOREM BumpAfterContent == Spec => []BumpCarriesContent
<1>1. IInv => BumpCarriesContent
  BY DEF IInv, Ordered, BumpCarriesContent
<1> QED BY <1>1, Invariance, PTL

\* A cell resolved before an edit goes out of reach, but for the two windows of
\* the boot epoch.
THEOREM StaleCellRotates == Spec => []StaleCellUnreachable
<1>1. IInv => StaleCellUnreachable
  BY DEF IInv, CellInv
<1> QED BY <1>1, Invariance, PTL

\* #687: no publish stores an older read over a newer one.
THEOREM SnapshotNeverGoesBack == Spec => SnapshotMonotone
<1>1. IInv /\ [Next]_vars => [\A s \in Subjects : snap[s] <= snap'[s]]_vars
  <2> SUFFICES ASSUME IInv, Next, NEW s \in Subjects PROVE snap[s] <= snap'[s]
      OBVIOUS
  <2>1. snap[s] \in Nat
    BY NatFacts DEF IInv
  <2>2. CASE \E w \in Writers : Store(w)
    BY <2>2 DEF Store, IInv, Ordered
  <2>3. CASE UNCHANGED snap
    BY <2>1, <2>3
  <2>4. UNCHANGED snap \/ \E w \in Writers : Store(w)
    BY DEF Next, Handle, Rebuild, Publish, Serve, Edit, Deliver, Mark, Cas, Hook, Clear, Take,
       Read, Stamp, BuildDeferred, Flush, Panic, Check, Release, Recheck, Reacquire, InitialMark,
       InitialCas, InitialSettle, InitialClose, EngineBuild, ReadySettle, ReadyRecheck, Resolve,
       Guard, Put, Mint
  <2> QED BY <2>2, <2>3, <2>4
<1> QED BY <1>1, Invariance, PTL DEF Spec, SnapshotMonotone

=============================================================================
