----------------------------- MODULE RefreshHub -----------------------------
(***************************************************************************)
(* The live-refresh hub (internal/cache/refresh_broadcaster.go), the        *)
(* /refreshes handler that drains it (internal/handlers/refreshes.go) and    *)
(* the identity-class signal it waits on (identity_class_signal.go,          *)
(* dispatchers/refresh_rotation.go).                                        *)
(*                                                                          *)
(* A frame only says "refetch this key"; a tab has no other way to learn of  *)
(* a change.  So the state a property needs is which keys each stream is     *)
(* owed a frame for (owed, history) and every place such a frame can be:     *)
(* a publisher, the key's coalesce window, the stream's two pending sets,    *)
(* its sink.                                                                *)
(*                                                                          *)
(* Atomicity.  A step is one critical section of the hub (mu), of the        *)
(* windows (cmu) or of a stream (pmu).  A fan-out holds mu for reading over  *)
(* the offers to all the streams of its key; those touch one stream each,    *)
(* so it is one step.  Time (windows, pacing, the stall bound, heartbeats)   *)
(* is a choice of when a step happens.                                      *)
(***************************************************************************)
EXTENDS Integers, Sequences, FiniteSets

CONSTANTS
    Keys,        \* L1 keys
    BoundKeys,   \* the identity-bound ones: they fold the requester's class
    Conns,       \* /refreshes clients; each has one stream at a time
    Publishers,  \* goroutines in PublishRefresh, PublishEviction or windowEnd
    Cap,         \* refreshSubChanCap
    MaxChanges,  \* bound: commits, evictions and class moves
    MaxStreams   \* bound: streams opened

ASSUME ConstantsAssumption ==
    /\ BoundKeys \subseteq Keys /\ "off" \notin Keys /\ "pick" \notin Keys
    /\ Cap \in Nat \ {0}
    /\ MaxChanges \in Nat /\ MaxStreams \in Nat

VARIABLES
    phase,     \* conn -> idle, deriving, derived, open, ending, closing
    keys,      \* conn -> the armed set; keySubs is its inverse
    announce,  \* conn -> keys the arm still has to announce (no replay)
    sub,       \* conn -> its sink and pending sets
    window,    \* key -> none, open, suppressed
    pub,       \* publisher -> what it does, for which key
    class,     \* conn -> the current class of its identity
    minted,    \* conn -> the class its keys were derived under
    told,      \* conn -> the keys announced as rotated
    noted,     \* conn -> the signal channel it holds is closed
    noting,    \* a class moved and its note is still to come
    checking,  \* conn -> the signal was taken, the classes not yet compared
    rotating,  \* conn -> rotated keys still to be announced
    owed,      \* history: conn -> keys that changed with no frame written since
    changes, streams

streamVars == <<phase, keys, announce, sub, owed>>
classVars == <<class, minted, told, noted, noting, checking, rotating>>
bounds == <<changes, streams>>
vars == <<streamVars, window, pub, classVars, bounds>>

Idle == [pc |-> "idle"]
At(pc, k) == [pc |-> pc, key |-> k]

EmptySub == [sink |-> <<>>, rpending |-> {}, rorder |-> <<>>, rdraining |-> FALSE,
             pending |-> {}, order |-> <<>>, drain |-> "off", resynced |-> FALSE]

Ran(s) == {s[i] : i \in 1..Len(s)}

\* Mutant: off by one.
MutRoom(s) == Len(s.sink) <= Cap

\* A non-blocking send succeeds.
Room(s) == Len(s.sink) < Cap

\* Armed: the stream is registered, so it is in keySubs[k].
Registered(c) == phase[c] \in {"open", "ending"}
Subscribers(k) == {c \in Conns : Registered(c) /\ k \in keys[c]}

Init ==
    /\ phase = [c \in Conns |-> "idle"]
    /\ keys = [c \in Conns |-> {}]
    /\ announce = [c \in Conns |-> {}]
    /\ sub = [c \in Conns |-> EmptySub]
    /\ owed = [c \in Conns |-> {}]
    /\ window = [k \in Keys |-> "none"]
    /\ pub = [p \in Publishers |-> Idle]
    /\ class = [c \in Conns |-> 0]
    /\ minted = [c \in Conns |-> 0]
    /\ told = [c \in Conns |-> {}]
    /\ noted = [c \in Conns |-> FALSE]
    /\ noting = FALSE
    /\ checking = [c \in Conns |-> FALSE]
    /\ rotating = [c \in Conns |-> {}]
    /\ changes = 0 /\ streams = 0

----------------------------------------------------------------------------
\* A stream's queues.

\* Mutant: a full sink drops the key, as before #484.
MutDrops(s, k) ==
    IF s.resynced \/ k \in s.rpending \cup s.pending \/ ~Room(s) THEN s
    ELSE [s EXCEPT !.sink = Append(@, k)]

\* Mutant: a key waiting in the eviction backlog is queued a second time.
MutQueuesTwice(s, k) ==
    IF s.resynced \/ k \in s.rpending THEN s
    ELSE IF ~s.rdraining /\ Room(s) THEN [s EXCEPT !.sink = Append(@, k)]
    ELSE [s EXCEPT !.rpending = @ \cup {k}, !.rorder = Append(@, k), !.rdraining = TRUE]

\* offerRefreshLocked: a queued key is absorbed; a full sink or a backlog
\* defers; the first deferral starts the drain.
OfferRefresh(s, k) ==
    IF s.resynced \/ k \in s.rpending \cup s.pending THEN s
    ELSE IF ~s.rdraining /\ Room(s) THEN [s EXCEPT !.sink = Append(@, k)]
    ELSE [s EXCEPT !.rpending = @ \cup {k}, !.rorder = Append(@, k), !.rdraining = TRUE]

\* offerEviction: it supersedes a deferred refresh; the bucket grants a token
\* or not.
OfferEviction(s, k, token) ==
    LET t == [s EXCEPT !.rpending = @ \ {k}]
    IN CASE s.resynced -> s
         [] ~s.resynced /\ k \in s.pending -> t
         [] ~s.resynced /\ k \notin s.pending /\ s.drain = "off" /\ token /\ Room(s) ->
              [t EXCEPT !.sink = Append(@, k)]
         [] OTHER -> [t EXCEPT !.pending = @ \cup {k}, !.order = Append(@, k),
                               !.drain = IF @ = "off" THEN "pick" ELSE @]

\* offerRotated, for one key: out of the paced backlog, onto the refresh path.
OfferRotated(s, k) == OfferRefresh([s EXCEPT !.pending = @ \ {k}], k)

\* The queue from its first key still pending: the drains skip withdrawn ones.
SkipDead(q, live) ==
    IF \E i \in 1..Len(q) : q[i] \in live
    THEN LET first == CHOOSE i \in 1..Len(q) : /\ q[i] \in live
                                               /\ \A j \in 1..(i - 1) : q[j] \notin live
         IN SubSeq(q, first, Len(q))
    ELSE <<>>

----------------------------------------------------------------------------
\* Publishing.

\* The streams armed for k that k's change concerns.
Owing(k) == [c \in Conns |-> IF c \in Subscribers(k) THEN owed[c] \cup {k} ELSE owed[c]]

\* A commit of k to L1, and PublishRefresh entered.
Commit(p, k) ==
    /\ changes < MaxChanges
    /\ changes' = changes + 1
    /\ pub[p] = Idle
    /\ pub' = [pub EXCEPT ![p] = At("check", k)]
    /\ owed' = Owing(k)
    /\ UNCHANGED <<phase, keys, announce, sub, window, classVars, streams>>

\* A DELETE-semantics eviction of k, and PublishEviction entered.
Evict(p, k) ==
    /\ changes < MaxChanges
    /\ changes' = changes + 1
    /\ pub[p] = Idle
    /\ pub' = [pub EXCEPT ![p] = At("stop", k)]
    /\ owed' = Owing(k)
    /\ UNCHANGED <<phase, keys, announce, sub, window, classVars, streams>>

\* coalesced, first half: nobody armed, no window.
CheckArmed(p) ==
    /\ pub[p].pc = "check"
    /\ pub' = [pub EXCEPT ![p].pc = IF Subscribers(pub[p].key) = {} THEN "fanout" ELSE "coalesce"]
    /\ UNCHANGED <<streamVars, window, classVars, bounds>>

\* Mutant: a suppressed signal is a duplicate, as before #484.
MutNoTrailing(w) == "open"

\* The window after a signal: opened, or marked to owe a trailing emit.
Coalesced(w) == IF w = "none" THEN "open" ELSE "suppressed"

\* coalesced, second half.
Coalesce(p) ==
    LET k == pub[p].key
    IN
    /\ pub[p].pc = "coalesce"
    /\ window' = [window EXCEPT ![k] = Coalesced(@)]
    /\ pub' = [pub EXCEPT ![p] = IF window[k] = "none" THEN At("fanout", k) ELSE Idle]
    /\ UNCHANGED <<streamVars, classVars, bounds>>

\* fanoutRefresh.
FanoutRefresh(p) ==
    LET k == pub[p].key
    IN
    /\ pub[p].pc = "fanout"
    /\ sub' = [c \in Conns |-> IF c \in Subscribers(k) THEN OfferRefresh(sub[c], k) ELSE sub[c]]
    /\ pub' = [pub EXCEPT ![p] = Idle]
    /\ UNCHANGED <<phase, keys, announce, owed, window, classVars, bounds>>

\* Mutant: a marked window has lost its timer.
MutNoTimer(p, k) ==
    /\ window[k] = "open"
    /\ window' = [window EXCEPT ![k] = "none"]
    /\ UNCHANGED <<pub, streamVars, classVars, bounds>>

\* windowEnd: a marked window emits once more and opens again.  The timer of a
\* window that was torn down is inert (identity check).
WindowEnd(p, k) ==
    /\ \/ /\ window[k] = "open"
          /\ window' = [window EXCEPT ![k] = "none"]
          /\ UNCHANGED pub
       \/ /\ window[k] = "suppressed" /\ pub[p] = Idle
          /\ window' = [window EXCEPT ![k] = "open"]
          /\ pub' = [pub EXCEPT ![p] = At("fanout", k)]
    /\ UNCHANGED <<streamVars, classVars, bounds>>

\* PublishEviction: the window is torn down, then the key is offered.
StopWindow(p) ==
    /\ pub[p].pc = "stop"
    /\ window' = [window EXCEPT ![pub[p].key] = "none"]
    /\ pub' = [pub EXCEPT ![p].pc = "evict"]
    /\ UNCHANGED <<streamVars, classVars, bounds>>

FanoutEviction(p) ==
    LET k == pub[p].key
    IN
    /\ pub[p].pc = "evict"
    /\ \E tokens \in SUBSET Subscribers(k) :
         sub' = [c \in Conns |-> IF c \in Subscribers(k)
                                 THEN OfferEviction(sub[c], k, c \in tokens) ELSE sub[c]]
    /\ pub' = [pub EXCEPT ![p] = Idle]
    /\ UNCHANGED <<phase, keys, announce, owed, window, classVars, bounds>>

----------------------------------------------------------------------------
\* The drains of a stream's backlogs.

\* forceResyncLocked.
Resynced(s) == [EmptySub EXCEPT !.sink = s.sink, !.drain = s.drain, !.resynced = TRUE]

\* drainRefreshes, one turn of its loop; a full sink may have been full for the
\* stall bound.
DrainRefreshes(c) ==
    LET s == sub[c]
        q == SkipDead(s.rorder, s.rpending)
    IN
    /\ s.rdraining
    /\ \/ /\ q = <<>>
          /\ sub' = [sub EXCEPT ![c].rdraining = FALSE, ![c].rorder = <<>>]
       \/ /\ q # <<>> /\ Room(s)
          /\ sub' = [sub EXCEPT ![c] = [s EXCEPT !.sink = Append(@, Head(q)), !.rorder = Tail(q),
                                                 !.rpending = @ \ {Head(q)}]]
       \/ /\ q # <<>> /\ ~Room(s)
          /\ sub' \in {[sub EXCEPT ![c].rorder = q], [sub EXCEPT ![c] = Resynced(s)]}
    /\ UNCHANGED <<phase, keys, announce, owed, window, pub, classVars, bounds>>

\* drainEvictions: the next key is taken out of the order and waits for its
\* token; its pending slot stays.
PickEviction(c) ==
    LET s == sub[c]
        q == SkipDead(s.order, s.pending)
    IN
    /\ s.drain = "pick"
    /\ sub' = [sub EXCEPT ![c] =
                 IF q = <<>> THEN [s EXCEPT !.order = <<>>, !.drain = "off"]
                 ELSE [s EXCEPT !.order = Tail(q), !.drain = Head(q)]]
    /\ UNCHANGED <<phase, keys, announce, owed, window, pub, classVars, bounds>>

\* Mutant: a sent key keeps its pending slot.
MutKeepsPending(s) == [s EXCEPT !.sink = Append(@, s.drain), !.drain = "pick"]

\* trySendDeferred, with room.
SentDeferred(s) ==
    [s EXCEPT !.sink = Append(@, s.drain), !.pending = @ \ {s.drain}, !.drain = "pick"]

\* trySendDeferred: gone, sent, or (a full sink) tried again.
SendDeferred(c) ==
    LET s == sub[c]
    IN
    /\ s.drain \in Keys
    /\ \/ /\ s.drain \notin s.pending
          /\ sub' = [sub EXCEPT ![c].drain = "pick"]
       \/ /\ s.drain \in s.pending /\ Room(s)
          /\ sub' = [sub EXCEPT ![c] = SentDeferred(s)]
    /\ UNCHANGED <<phase, keys, announce, owed, window, pub, classVars, bounds>>

----------------------------------------------------------------------------
\* The handler of one stream.

\* Refreshes takes the signal before it derives the keys.
TakeSignal(c) ==
    /\ phase[c] = "idle"
    /\ streams < MaxStreams
    /\ streams' = streams + 1
    /\ phase' = [phase EXCEPT ![c] = "deriving"]
    /\ noted' = [noted EXCEPT ![c] = FALSE]
    /\ UNCHANGED <<keys, announce, sub, owed, window, pub, class, minted, told, noting,
                   checking, rotating, changes>>

\* Derive: the keys are minted under the class of this moment.
Derive(c) ==
    /\ phase[c] = "deriving"
    /\ \E armed \in (SUBSET Keys) \ {{}} :
          /\ keys' = [keys EXCEPT ![c] = armed]
          /\ minted' = [minted EXCEPT ![c] = class[c]]
    /\ told' = [told EXCEPT ![c] = {}]
    /\ phase' = [phase EXCEPT ![c] = "derived"]
    /\ UNCHANGED <<announce, sub, owed, window, pub, class, noted, noting, checking, rotating, bounds>>

\* Mutant: the signal is taken when the stream is registered.
MutSubscribe(c) ==
    /\ phase[c] = "derived"
    /\ \E missed \in SUBSET keys[c] :
          /\ announce' = [announce EXCEPT ![c] = missed]
          /\ owed' = [owed EXCEPT ![c] = missed]
    /\ phase' = [phase EXCEPT ![c] = "open"]
    /\ noted' = [noted EXCEPT ![c] = FALSE]
    /\ UNCHANGED <<keys, sub, window, pub, class, minted, told, noting, checking, rotating,
                   bounds>>

\* SubscribeRefreshStreamAs registers the stream; the ledgers name keys whose
\* replacement was published before it.
Subscribe(c) ==
    /\ phase[c] = "derived"
    /\ \E missed \in SUBSET keys[c] :
          /\ announce' = [announce EXCEPT ![c] = missed]
          /\ owed' = [owed EXCEPT ![c] = missed]
    /\ phase' = [phase EXCEPT ![c] = "open"]
    /\ UNCHANGED <<keys, sub, window, pub, classVars, bounds>>

\* ... and offers them, one at a time.
AnnounceOnArm(c, k) ==
    /\ phase[c] = "open" /\ k \in announce[c]
    /\ announce' = [announce EXCEPT ![c] = @ \ {k}]
    /\ sub' = [sub EXCEPT ![c] = OfferRefresh(@, k)]
    /\ UNCHANGED <<phase, keys, owed, window, pub, classVars, bounds>>

\* The handler is in its loop.
Serving(c) == phase[c] = "open" /\ announce[c] = {} /\ ~checking[c] /\ rotating[c] = {}

\* A key is read and its frame written; a failed write ends the stream.  The
\* check for a resync and the read are one step.
WriteFrame(c) ==
    /\ Serving(c) /\ ~sub[c].resynced
    /\ sub[c].sink # <<>>
    /\ sub' = [sub EXCEPT ![c].sink = Tail(@)]
    /\ \/ /\ owed' = [owed EXCEPT ![c] = @ \ {Head(sub[c].sink)}]
          /\ UNCHANGED phase
       \/ /\ phase' = [phase EXCEPT ![c] = "ending"]
          /\ UNCHANGED owed
    /\ UNCHANGED <<keys, announce, window, pub, classVars, bounds>>

\* A resync frame ends the stream.
WriteResync(c) ==
    /\ Serving(c) /\ sub[c].resynced
    /\ phase' = [phase EXCEPT ![c] = "ending"]
    /\ UNCHANGED <<keys, announce, sub, owed, window, pub, classVars, bounds>>

\* The client goes away, or a heartbeat cannot be written.
ClientGone(c) ==
    /\ Serving(c)
    /\ phase' = [phase EXCEPT ![c] = "ending"]
    /\ UNCHANGED <<keys, announce, sub, owed, window, pub, classVars, bounds>>

\* Unsub: disarmed under mu, the window of a key nobody is armed for torn down.
Unsub(c) ==
    /\ phase[c] = "ending"
    /\ phase' = [phase EXCEPT ![c] = "closing"]
    /\ keys' = [keys EXCEPT ![c] = {}]
    /\ window' = [k \in Keys |-> IF Subscribers(k) = {c} THEN "none" ELSE window[k]]
    /\ UNCHANGED <<announce, sub, owed, pub, classVars, bounds>>

\* ... and closed under pmu; the drains then exit.
Close(c) ==
    /\ phase[c] = "closing"
    /\ phase' = [phase EXCEPT ![c] = "idle"]
    /\ sub' = [sub EXCEPT ![c] = EmptySub]
    /\ owed' = [owed EXCEPT ![c] = {}]
    /\ UNCHANGED <<keys, announce, window, pub, classVars, bounds>>

----------------------------------------------------------------------------
\* Identity classes.

\* A publish or an epoch bump moves the class of an identity, or moves it back;
\* the note follows.
ClassMoves(c) ==
    /\ changes < MaxChanges
    /\ changes' = changes + 1
    /\ class' = [class EXCEPT ![c] = 1 - @]
    /\ noting' = TRUE
    /\ UNCHANGED <<streamVars, window, pub, minted, told, noted, checking, rotating, streams>>

\* noteIdentityClassesMayHaveMoved closes the channel every waiter holds.
NoteClasses ==
    /\ noting
    /\ noting' = FALSE
    /\ noted' = [c \in Conns |-> TRUE]
    /\ UNCHANGED <<streamVars, window, pub, class, minted, told, checking, rotating, bounds>>

\* The handler wakes on a closed channel and takes the next one.
Reacquire(c) ==
    /\ Serving(c) /\ ~sub[c].resynced
    /\ noted[c] /\ keys[c] \cap BoundKeys # {}
    /\ noted' = [noted EXCEPT ![c] = FALSE]
    /\ checking' = [checking EXCEPT ![c] = TRUE]
    /\ UNCHANGED <<streamVars, window, pub, class, minted, told, noting, rotating, bounds>>

\* Rotated: the armed keys of another class, once each.
RotatedKeys(c) ==
    IF class[c] = minted[c] THEN {} ELSE (keys[c] \cap BoundKeys) \ told[c]

CheckRotation(c) ==
    LET rotated == RotatedKeys(c)
    IN
    /\ checking[c]
    /\ checking' = [checking EXCEPT ![c] = FALSE]
    /\ told' = [told EXCEPT ![c] = @ \cup rotated]
    /\ rotating' = [rotating EXCEPT ![c] = rotated]
    /\ owed' = [owed EXCEPT ![c] = @ \cup rotated]
    /\ UNCHANGED <<phase, keys, announce, sub, window, pub, class, minted, noted, noting, bounds>>

\* offerRotated announces them, one critical section each.
AnnounceRotated(c, k) ==
    /\ k \in rotating[c]
    /\ rotating' = [rotating EXCEPT ![c] = @ \ {k}]
    /\ sub' = [sub EXCEPT ![c] = OfferRotated(@, k)]
    /\ UNCHANGED <<phase, keys, announce, owed, window, pub, class, minted, told, noted,
                   noting, checking, bounds>>

----------------------------------------------------------------------------
Publish(p) ==
    \/ CheckArmed(p) \/ Coalesce(p) \/ FanoutRefresh(p) \/ StopWindow(p) \/ FanoutEviction(p)

Drain(c) == DrainRefreshes(c) \/ PickEviction(c) \/ SendDeferred(c)

\* The handler's own steps, without those that depend on the client.
Handle(c) ==
    \/ Derive(c) \/ Subscribe(c) \/ WriteFrame(c) \/ WriteResync(c) \/ Unsub(c) \/ Close(c)
    \/ Reacquire(c) \/ CheckRotation(c)
    \/ \E k \in Keys : AnnounceOnArm(c, k) \/ AnnounceRotated(c, k)

Next ==
    \/ \E p \in Publishers : Publish(p)
    \/ \E p \in Publishers, k \in Keys : Commit(p, k) \/ Evict(p, k) \/ WindowEnd(p, k)
    \/ \E c \in Conns : Drain(c) \/ Handle(c) \/ TakeSignal(c) \/ ClientGone(c) \/ ClassMoves(c)
    \/ NoteClasses

Spec == Init /\ [][Next]_vars

\* Goroutines run, timers fire; the select of the handler's loop is random, so
\* a key that stays in the sink is read.
Fairness ==
    /\ \A p \in Publishers : WF_vars(Publish(p))
    /\ \A k \in Keys : WF_vars(\E p \in Publishers : WindowEnd(p, k))
    /\ \A c \in Conns : /\ WF_vars(DrainRefreshes(c))
                         /\ WF_vars(PickEviction(c) \/ SendDeferred(c))
                         /\ WF_vars(Handle(c))
    /\ WF_vars(NoteClasses)

FairSpec == Spec /\ Fairness

----------------------------------------------------------------------------
Subs == [sink : Seq(Keys), rpending : SUBSET Keys, rorder : Seq(Keys), rdraining : BOOLEAN,
         pending : SUBSET Keys, order : Seq(Keys), drain : Keys \cup {"off", "pick"},
         resynced : BOOLEAN]

\* The sink never holds more than its capacity; everything has its type.
TypeOK ==
    /\ phase \in [Conns -> {"idle", "deriving", "derived", "open", "ending", "closing"}]
    /\ keys \in [Conns -> SUBSET Keys] /\ announce \in [Conns -> SUBSET Keys]
    /\ sub \in [Conns -> Subs] /\ \A c \in Conns : Len(sub[c].sink) <= Cap
    /\ owed \in [Conns -> SUBSET Keys]
    /\ window \in [Keys -> {"none", "open", "suppressed"}]
    /\ pub \in [Publishers -> {Idle} \cup
                 [pc : {"check", "coalesce", "fanout", "stop", "evict"}, key : Keys]]
    /\ class \in [Conns -> 0..1] /\ minted \in [Conns -> 0..1]
    /\ told \in [Conns -> SUBSET Keys] /\ rotating \in [Conns -> SUBSET Keys]
    /\ noted \in [Conns -> BOOLEAN] /\ checking \in [Conns -> BOOLEAN]
    /\ noting \in BOOLEAN
    /\ changes \in 0..MaxChanges /\ streams \in 0..MaxStreams

\* A frame for k is on its way to c.
OnItsWay(c, k) ==
    \/ k \in announce[c] \cup rotating[c] \cup sub[c].pending \cup sub[c].rpending
    \/ k \in Ran(sub[c].sink)
    \/ window[k] = "suppressed"
    \/ \E p \in Publishers : pub[p] # Idle /\ pub[p].key = k

\* No signal is lost (#484, C10): whatever was coalesced, deferred, superseded
\* by an eviction, moved by a rotation or torn down by another stream's
\* disarm, a key that changed under an open stream has a frame on its way to
\* it, or the stream is being resynced.
NoLostSignal ==
    \A c \in Conns : phase[c] = "open" /\ ~sub[c].resynced =>
        \A k \in owed[c] : OnItsWay(c, k)

\* A backlog always has the goroutine that drains it, and every pending key is
\* in the order that goroutine follows, although rotations and evictions
\* withdraw keys from the middle of both.
BacklogDrained ==
    \A c \in Conns :
        /\ sub[c].rpending # {} => sub[c].rdraining
        /\ sub[c].pending # {} => sub[c].drain # "off"
        /\ sub[c].rpending \subseteq Ran(sub[c].rorder)
        /\ sub[c].pending \subseteq Ran(sub[c].order) \cup {sub[c].drain}

\* "one frame per key per backlog": a key waits in one pending set at most, and
\* only while the stream is armed for it, so the sets never outgrow the armed
\* set.
OneSlotPerKey ==
    \A c \in Conns :
        /\ sub[c].pending \cap sub[c].rpending = {}
        /\ Registered(c) => sub[c].pending \cup sub[c].rpending \subseteq keys[c]

\* A tab armed on keys of another class is told, or about to look: no note is
\* lost between taking the signal, deriving the keys and comparing the classes.
RotationNoticed ==
    \A c \in Conns : phase[c] \in {"derived", "open"} /\ RotatedKeys(c) # {} =>
        noted[c] \/ noting \/ checking[c]

\* Once changes stop, every key a stream is owed is written to it, or the
\* stream ends.
SignalReaches ==
    \A c \in Conns, k \in Keys :
        (phase[c] = "open" /\ k \in owed[c]) ~> (phase[c] # "open" \/ k \notin owed[c])
=============================================================================
