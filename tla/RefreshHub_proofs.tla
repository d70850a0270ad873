-------------------------- MODULE RefreshHub_proofs -------------------------
(***************************************************************************)
(* Proofs about RefreshHub, for every set of keys, streams and publishers,   *)
(* every capacity of a sink and every number of changes and streams.         *)
(***************************************************************************)
EXTENDS RefreshHub, SequenceTheorems, WellFoundedInduction, TLAPS

\* The keys a stream still holds a frame for: in a backlog, or in its sink too.
Waiting(s) == s.pending \cup s.rpending
Carried(s) == Waiting(s) \cup Ran(s.sink)

\* A stream's queues are consistent: the parts of TypeOK, OneSlotPerKey and
\* BacklogDrained that are about one stream.
Good(s) ==
    /\ s \in Subs /\ Len(s.sink) <= Cap
    /\ s.pending \cap s.rpending = {}
    /\ s.rpending # {} => s.rdraining
    /\ s.pending # {} => s.drain # "off"
    /\ s.rpending \subseteq Ran(s.rorder)
    /\ s.pending \subseteq Ran(s.order) \cup {s.drain}

\* From s to t a stream was offered the keys in A: it still carries what it
\* carried and A, unless it is resynced, and only A is new in its backlogs.
Step(s, t, A) ==
    /\ Good(t)
    /\ s.resynced => t.resynced
    /\ Waiting(t) \subseteq Waiting(s) \cup A
    /\ t.resynced \/ Carried(s) \cup A \subseteq Carried(t)

\* TypeOK without the streams.
Typed ==
    /\ phase \in [Conns -> {"idle", "deriving", "derived", "open", "ending", "closing"}]
    /\ keys \in [Conns -> SUBSET Keys] /\ announce \in [Conns -> SUBSET Keys]
    /\ owed \in [Conns -> SUBSET Keys]
    /\ window \in [Keys -> {"none", "open", "suppressed"}]
    /\ pub \in [Publishers -> {Idle} \cup
                 [pc : {"check", "coalesce", "fanout", "stop", "evict"}, key : Keys]]
    /\ class \in [Conns -> 0..1] /\ minted \in [Conns -> 0..1]
    /\ told \in [Conns -> SUBSET Keys] /\ rotating \in [Conns -> SUBSET Keys]
    /\ noted \in [Conns -> BOOLEAN] /\ checking \in [Conns -> BOOLEAN]
    /\ noting \in BOOLEAN
    /\ changes \in 0..MaxChanges /\ streams \in 0..MaxStreams

\* Every stream is consistent and waits for armed keys only.
Streams ==
    /\ sub \in [Conns -> Subs]
    /\ \A c \in Conns : Good(sub[c]) /\ (Registered(c) => Waiting(sub[c]) \subseteq keys[c])

\* A stream is empty until it is registered; whatever it is owed, is about to
\* announce or found rotated is armed; the handler does one of those at a time.
Handlers ==
    \A c \in Conns :
        /\ phase[c] \in {"idle", "deriving", "derived"} => sub[c] = EmptySub
        /\ Registered(c) => owed[c] \subseteq keys[c]
        /\ announce[c] \cup rotating[c] \subseteq keys[c]
        /\ phase[c] # "open" => announce[c] = {} /\ rotating[c] = {} /\ ~checking[c]
        /\ checking[c] => rotating[c] = {}

\* The inductive invariant.
IInv == Typed /\ Streams /\ Handlers /\ NoLostSignal /\ RotationNoticed

----------------------------------------------------------------------------
\* Sequences.

\* The order of the naturals as a relation.
Below == {ss \in Nat \X Nat : ss[1] < ss[2]}

\* A nonempty set of naturals has a least element.
LEMMA Least ==
    ASSUME NEW T \in SUBSET Nat, T # {}
    PROVE  \E x \in T : \A y \in T : x <= y
<1>1. IsWellFoundedOn(Below, Nat)
    BY NatLessThanWellFounded, Zenon DEF OpToRel, Below
<1>2. PICK x \in T : \A y \in T : ~ (<<y, x>> \in Below)
    BY <1>1, WFMin
<1>3. \A y \in T : ~ (y < x)
    BY <1>2 DEF Below
<1> QED
    BY <1>3

\* The empty queue.
LEMMA EmptyRan == Ran(<<>>) = {} /\ <<>> \in Seq(Keys) /\ Len(<<>>) = 0
    BY DEF Ran

\* A key appended to a queue is the only one it gains.
LEMMA AppendRan ==
    ASSUME NEW q \in Seq(Keys), NEW k \in Keys
    PROVE  /\ Append(q, k) \in Seq(Keys)
           /\ Len(Append(q, k)) = Len(q) + 1
           /\ Ran(Append(q, k)) = Ran(q) \cup {k}
<1>1. Append(q, k) \in Seq(Keys) /\ Len(Append(q, k)) = Len(q) + 1 /\ Len(q) \in Nat
    BY AppendProperties, LenProperties
<1>2. ASSUME NEW x PROVE x \in Ran(Append(q, k)) <=> x \in Ran(q) \cup {k}
    <2>1. \A i \in 1..Len(q) : Append(q, k)[i] = q[i]
        BY AppendProperties
    <2>2. Append(q, k)[Len(q) + 1] = k
        BY AppendProperties
    <2>3. ASSUME x \in Ran(Append(q, k)) PROVE x \in Ran(q) \cup {k}
        <3>1. PICK i \in 1..(Len(q) + 1) : x = Append(q, k)[i]
            BY <1>1, <2>3 DEF Ran
        <3>2. CASE i = Len(q) + 1
            BY <3>1, <3>2, <2>2
        <3>3. CASE i \in 1..Len(q)
            BY <3>1, <3>3, <2>1 DEF Ran
        <3> QED
            BY <1>1, <3>1, <3>2, <3>3
    <2>4. ASSUME x \in Ran(q) \cup {k} PROVE x \in Ran(Append(q, k))
        <3>1. CASE x = k
            BY <1>1, <2>2, <3>1 DEF Ran
        <3>2. CASE x \in Ran(q)
            <4>1. PICK i \in 1..Len(q) : x = q[i]
                BY <3>2 DEF Ran
            <4>2. i \in 1..(Len(q) + 1) /\ x = Append(q, k)[i]
                BY <1>1, <2>1, <4>1
            <4> QED
                BY <1>1, <4>2 DEF Ran
        <3> QED
            BY <2>4, <3>1, <3>2
    <2> QED
        BY <2>3, <2>4
<1> QED
    BY <1>1, <1>2

\* Taking the head off a queue loses only the head.
LEMMA HeadTailRan ==
    ASSUME NEW q \in Seq(Keys), q # <<>>
    PROVE  /\ Head(q) \in Keys /\ Tail(q) \in Seq(Keys)
           /\ Len(Tail(q)) = Len(q) - 1 /\ Len(q) \in Nat \ {0}
           /\ Ran(q) = {Head(q)} \cup Ran(Tail(q))
<1>1. /\ Head(q) \in Keys /\ Tail(q) \in Seq(Keys)
      /\ Len(Tail(q)) = Len(q) - 1 /\ Len(q) \in Nat \ {0}
      /\ Head(q) = q[1]
      /\ \A i \in 1..Len(Tail(q)) : Tail(q)[i] = q[i + 1]
    BY HeadTailProperties, LenProperties, EmptySeq
<1>2. ASSUME NEW x \in Ran(q) PROVE x \in {Head(q)} \cup Ran(Tail(q))
    <2>1. PICK i \in 1..Len(q) : x = q[i]
        BY <1>2 DEF Ran
    <2>2. CASE i = 1
        BY <1>1, <2>1, <2>2
    <2>3. CASE i # 1
        <3>1. i - 1 \in 1..Len(Tail(q)) /\ (i - 1) + 1 = i
            BY <1>1, <2>1, <2>3
        <3>2. Tail(q)[i - 1] = x
            BY <1>1, <2>1, <3>1
        <3> QED
            BY <3>1, <3>2 DEF Ran
    <2> QED
        BY <2>2, <2>3
<1>3. ASSUME NEW x \in {Head(q)} \cup Ran(Tail(q)) PROVE x \in Ran(q)
    <2>1. CASE x = Head(q)
        BY <1>1, <2>1 DEF Ran
    <2>2. CASE x \in Ran(Tail(q))
        <3>1. PICK i \in 1..Len(Tail(q)) : x = Tail(q)[i]
            BY <2>2 DEF Ran
        <3>2. i + 1 \in 1..Len(q) /\ x = q[i + 1]
            BY <1>1, <3>1
        <3> QED
            BY <3>2 DEF Ran
    <2> QED
        BY <1>3, <2>1, <2>2
<1> QED
    BY <1>1, <1>2, <1>3

\* Skipping withdrawn keys loses no live one and leaves a live key at the head.
LEMMA SkipDeadFacts ==
    ASSUME NEW q \in Seq(Keys), NEW live
    PROVE  /\ SkipDead(q, live) \in Seq(Keys)
           /\ live \cap Ran(q) \subseteq Ran(SkipDead(q, live))
           /\ SkipDead(q, live) # <<>> => Head(SkipDead(q, live)) \in live
<1>0. Len(q) \in Nat /\ \A i \in 1..Len(q) : q[i] \in Keys
    BY LenProperties, ElementOfSeq
<1>1. CASE \E i \in 1..Len(q) : q[i] \in live
    <2> DEFINE T == {i \in 1..Len(q) : q[i] \in live}
               First(i) == q[i] \in live /\ \A j \in 1..(i - 1) : q[j] \notin live
    <2>1. PICK m \in T : \A y \in T : m <= y
        <3>1. T \in SUBSET Nat /\ T # {}
            BY <1>0, <1>1
        <3> HIDE DEF T
        <3> QED
            BY <3>1, Least
    <2>2. m \in 1..Len(q) /\ First(m)
        BY <1>0, <2>1
    <2> DEFINE first == CHOOSE i \in 1..Len(q) : First(i)
    <2>3. first \in 1..Len(q) /\ First(first)
        <3> HIDE DEF First
        <3> QED
            BY <2>2
    <2>4. SkipDead(q, live) = SubSeq(q, first, Len(q))
        BY <1>1, Zenon DEF SkipDead
    <2> HIDE DEF first
    <2> DEFINE r == SubSeq(q, first, Len(q))
    <2>5. /\ r \in Seq(Keys) /\ Len(r) = Len(q) - first + 1
          /\ \A i \in 1..(Len(q) - first + 1) : r[i] = q[first + i - 1]
        <3>1. \A i \in first..Len(q) : q[i] \in Keys
            BY <1>0, <2>3
        <3> QED
            BY <1>0, <2>3, <3>1, SubSeqProperties
    <2>6. Head(r) = q[first]
        BY <1>0, <2>3, HeadTailOfSubSeq
    <2>7. ASSUME NEW x \in live \cap Ran(q) PROVE x \in Ran(r)
        <3>1. PICK i \in 1..Len(q) : x = q[i]
            BY <2>7 DEF Ran
        <3>2. i >= first
            BY <1>0, <2>3, <2>7, <3>1
        <3>3. i - first + 1 \in 1..Len(r) /\ r[i - first + 1] = x
            <4>1. i - first + 1 \in 1..(Len(q) - first + 1)
                BY <1>0, <2>3, <3>1, <3>2
            <4>2. first + (i - first + 1) - 1 = i
                BY <2>3, <3>1
            <4> QED
                BY <2>5, <3>1, <4>1, <4>2
        <3> HIDE DEF r
        <3> QED
            BY <3>3 DEF Ran
    <2> QED
        BY <2>3, <2>4, <2>5, <2>6, <2>7
<1>2. CASE ~ \E i \in 1..Len(q) : q[i] \in live
    <2>1. SkipDead(q, live) = <<>>
        BY <1>2 DEF SkipDead
    <2>2. live \cap Ran(q) = {}
        BY <1>2 DEF Ran
    <2> QED
        BY <2>1, <2>2, EmptyRan
<1> QED
    BY <1>1, <1>2
----------------------------------------------------------------------------
\* What each operation does to a stream.

\* The components of a consistent stream.
LEMMA SubParts ==
    ASSUME NEW s \in Subs
    PROVE  /\ s.sink \in Seq(Keys) /\ s.rorder \in Seq(Keys) /\ s.order \in Seq(Keys)
           /\ s.rpending \subseteq Keys /\ s.pending \subseteq Keys
           /\ s.drain \in Keys \cup {"off", "pick"}
           /\ s.rdraining \in BOOLEAN /\ s.resynced \in BOOLEAN
           /\ Len(s.sink) \in Nat
  BY LenProperties DEF Subs

\* A new stream is consistent and carries nothing.
LEMMA EmptyGood == Good(EmptySub) /\ Waiting(EmptySub) = {} /\ ~EmptySub.resynced
<1>1. EmptySub \in Subs
  BY EmptyRan DEF EmptySub, Subs
<1> QED
  BY <1>1, EmptyRan, ConstantsAssumption DEF EmptySub, Good, Waiting

\* A refresh that is offered is carried.
LEMMA OfferRefreshStep ==
    ASSUME NEW s, Good(s), NEW k \in Keys
    PROVE  Step(s, OfferRefresh(s, k), {k})
<1> DEFINE t == OfferRefresh(s, k)
<1>0. s \in Subs
  BY DEF Good
<1>1. CASE s.resynced \/ k \in s.rpending \cup s.pending
  <2>1. t = s
    BY <1>1 DEF OfferRefresh
  <2> QED
    BY <1>1, <2>1 DEF Step, Waiting, Carried
<1>2. CASE /\ ~(s.resynced \/ k \in s.rpending \cup s.pending)
           /\ ~s.rdraining /\ Room(s)
  <2> DEFINE u == [s EXCEPT !.sink = Append(@, k)]
  <2>1. t = u
    BY <1>2 DEF OfferRefresh
  <2>2. /\ u \in Subs /\ u.sink = Append(s.sink, k) /\ u.rpending = s.rpending
        /\ u.rorder = s.rorder /\ u.rdraining = s.rdraining /\ u.pending = s.pending
        /\ u.order = s.order /\ u.drain = s.drain /\ u.resynced = s.resynced
    BY <1>0, SubParts, AppendRan DEF Subs
  <2>3. Len(u.sink) <= Cap /\ Ran(u.sink) = Ran(s.sink) \cup {k}
    BY <1>0, <1>2, <2>2, SubParts, AppendRan, ConstantsAssumption DEF Room
  <2> HIDE DEF u
  <2> QED
    BY <2>1, <2>2, <2>3 DEF Step, Good, Waiting, Carried
<1>3. CASE /\ ~(s.resynced \/ k \in s.rpending \cup s.pending)
           /\ ~(~s.rdraining /\ Room(s))
  <2> DEFINE u == [s EXCEPT !.rpending = @ \cup {k}, !.rorder = Append(@, k), !.rdraining = TRUE]
  <2>1. t = u
    BY <1>3 DEF OfferRefresh
  <2>2. /\ u \in Subs /\ u.sink = s.sink /\ u.rpending = s.rpending \cup {k}
        /\ u.rorder = Append(s.rorder, k) /\ u.rdraining /\ u.pending = s.pending
        /\ u.order = s.order /\ u.drain = s.drain /\ u.resynced = s.resynced
    BY <1>0, SubParts, AppendRan DEF Subs
  <2>3. Ran(u.rorder) = Ran(s.rorder) \cup {k}
    BY <1>0, <2>2, SubParts, AppendRan
  <2> HIDE DEF u
  <2> QED
    BY <1>3, <2>1, <2>2, <2>3 DEF Step, Good, Waiting, Carried
<1> QED
  BY <1>1, <1>2, <1>3

\* An eviction that is offered is carried, whatever it supersedes.
LEMMA OfferEvictionStep ==
    ASSUME NEW s, Good(s), NEW k \in Keys, NEW token \in BOOLEAN
    PROVE  Step(s, OfferEviction(s, k, token), {k})
<1> DEFINE t == [s EXCEPT !.rpending = @ \ {k}]
           r == OfferEviction(s, k, token)
<1>0. s \in Subs
  BY DEF Good
<1>1. /\ t \in Subs /\ t.sink = s.sink /\ t.rpending = s.rpending \ {k}
      /\ t.rorder = s.rorder /\ t.rdraining = s.rdraining /\ t.pending = s.pending
      /\ t.order = s.order /\ t.drain = s.drain /\ t.resynced = s.resynced
  BY <1>0, SubParts DEF Subs
<1>2. CASE s.resynced
  <2>1. r = s
    BY <1>2 DEF OfferEviction
  <2> QED
    BY <1>2, <2>1 DEF Step, Waiting
<1>3. CASE ~s.resynced /\ k \in s.pending
  <2>1. r = t
    BY <1>3 DEF OfferEviction
  <2> HIDE DEF t
  <2> QED
    BY <1>1, <1>3, <2>1 DEF Step, Good, Waiting, Carried
<1>4. CASE ~s.resynced /\ k \notin s.pending /\ s.drain = "off" /\ token /\ Room(s)
  <2> DEFINE u == [t EXCEPT !.sink = Append(@, k)]
  <2>1. r = u
    BY <1>4 DEF OfferEviction
  <2> HIDE DEF t
  <2>2. /\ u \in Subs /\ u.sink = Append(t.sink, k) /\ u.rpending = t.rpending
        /\ u.rorder = t.rorder /\ u.rdraining = t.rdraining /\ u.pending = t.pending
        /\ u.order = t.order /\ u.drain = t.drain /\ u.resynced = t.resynced
    BY <1>1, SubParts, AppendRan DEF Subs
  <2>3. Len(u.sink) <= Cap /\ Ran(u.sink) = Ran(s.sink) \cup {k}
    BY <1>0, <1>1, <1>4, <2>2, SubParts, AppendRan, ConstantsAssumption DEF Room
  <2> HIDE DEF u
  <2> QED
    BY <1>1, <2>1, <2>2, <2>3 DEF Step, Good, Waiting, Carried
<1>5. CASE /\ ~s.resynced /\ k \notin s.pending
           /\ ~(s.drain = "off" /\ token /\ Room(s))
  <2> DEFINE d == IF s.drain = "off" THEN "pick" ELSE s.drain
             u == [t EXCEPT !.pending = @ \cup {k}, !.order = Append(@, k),
                            !.drain = IF @ = "off" THEN "pick" ELSE @]
  <2>1. r = u
    BY <1>5 DEF OfferEviction
  <2> HIDE DEF t
  <2>2. /\ u \in Subs /\ u.sink = t.sink /\ u.rpending = t.rpending
        /\ u.rorder = t.rorder /\ u.rdraining = t.rdraining /\ u.pending = t.pending \cup {k}
        /\ u.order = Append(t.order, k) /\ u.drain = d /\ u.resynced = t.resynced
    BY <1>1, SubParts, AppendRan DEF Subs
  <2>3. Ran(u.order) = Ran(s.order) \cup {k}
    BY <1>0, <1>1, <2>2, SubParts, AppendRan
  <2>4. d # "off" /\ (d = s.drain \/ (s.drain = "off" /\ s.pending = {}))
    BY DEF Good
  <2> HIDE DEF u, d
  <2> QED
    BY <1>1, <1>5, <2>1, <2>2, <2>3, <2>4 DEF Step, Good, Waiting, Carried
<1> QED
  BY <1>2, <1>3, <1>4, <1>5

\* A rotated key leaves the paced backlog and is carried by the refresh path.
LEMMA OfferRotatedStep ==
    ASSUME NEW s, Good(s), NEW k \in Keys
    PROVE  Step(s, OfferRotated(s, k), {k})
<1> DEFINE t == [s EXCEPT !.pending = @ \ {k}]
<1>0. s \in Subs
  BY DEF Good
<1>1. /\ t \in Subs /\ t.sink = s.sink /\ t.rpending = s.rpending
      /\ t.rorder = s.rorder /\ t.rdraining = s.rdraining /\ t.pending = s.pending \ {k}
      /\ t.order = s.order /\ t.drain = s.drain /\ t.resynced = s.resynced
  BY <1>0, SubParts DEF Subs
<1>2. OfferRotated(s, k) = OfferRefresh(t, k)
  BY DEF OfferRotated
<1> HIDE DEF t
<1>3. Good(t)
  BY <1>1 DEF Good
<1>4. Step(t, OfferRefresh(t, k), {k})
  BY <1>3, OfferRefreshStep
<1> DEFINE r == OfferRefresh(t, k)
<1> HIDE DEF r
<1> QED
  BY <1>1, <1>2, <1>4 DEF Step, Waiting, Carried, r

----------------------------------------------------------------------------
\* What each action does to the streams.

\* A stream that does not move, and one that moves while offered nothing.
LEMMA StepRefl == ASSUME NEW s, Good(s) PROVE Step(s, s, {})
  BY DEF Step

\* A publisher that is not idle works on a key.
LEMMA PublisherKey ==
    ASSUME Typed, NEW p \in Publishers, pub[p].pc # "idle"
    PROVE  pub[p].key \in Keys /\ pub[p] # Idle
  BY DEF Typed, Idle

\* One stream moves, the others stay.
Moves(c, A) ==
    /\ sub' \in [Conns -> Subs]
    /\ Step(sub[c], sub'[c], A)
    /\ \A d \in Conns \ {c} : sub'[d] = sub[d]

\* Replacing one stream.
LEMMA MovesOne ==
    ASSUME Streams, NEW c \in Conns, NEW t, NEW A, Step(sub[c], t, A),
           sub' = [sub EXCEPT ![c] = t]
    PROVE  Moves(c, A)
<1>1. t \in Subs
  BY DEF Step, Good
<1> QED
  BY <1>1 DEF Moves, Streams

\* A turn of the refresh drain.
LEMMA DrainRefreshesMoves ==
    ASSUME Typed, Streams, NEW c \in Conns, DrainRefreshes(c)
    PROVE  Moves(c, {})
<1> DEFINE s == sub[c]
           q == SkipDead(s.rorder, s.rpending)
<1>0. s \in Subs /\ Good(s) /\ sub \in [Conns -> Subs]
  BY DEF Streams
<1>1. /\ q \in Seq(Keys) /\ s.rpending \cap Ran(s.rorder) \subseteq Ran(q)
      /\ q # <<>> => Head(q) \in s.rpending
  BY <1>0, SubParts, SkipDeadFacts
<1>2. s.rpending \subseteq Ran(q)
  BY <1>0, <1>1 DEF Good
<1> HIDE DEF q
<1>3. CASE q = <<>> /\ sub' = [sub EXCEPT ![c].rdraining = FALSE, ![c].rorder = <<>>]
  <2> DEFINE u == [s EXCEPT !.rdraining = FALSE, !.rorder = <<>>]
  <2>1. sub' = [sub EXCEPT ![c] = u]
    BY <1>0, <1>3
  <2>2. s.rpending = {}
    BY <1>2, <1>3, EmptyRan
  <2>3. /\ u \in Subs /\ u.sink = s.sink /\ u.rpending = s.rpending
        /\ u.pending = s.pending /\ u.order = s.order /\ u.drain = s.drain
        /\ u.resynced = s.resynced
    BY <1>0, SubParts, EmptyRan DEF Subs
  <2> HIDE DEF u
  <2>4. Step(s, u, {})
    BY <1>0, <2>2, <2>3 DEF Step, Good, Waiting, Carried
  <2> QED
    BY <2>1, <2>4, MovesOne
<1>4. CASE /\ q # <<>> /\ Room(s)
           /\ sub' = [sub EXCEPT ![c] = [s EXCEPT !.sink = Append(@, Head(q)), !.rorder = Tail(q),
                                                 !.rpending = @ \ {Head(q)}]]
  <2> DEFINE u == [s EXCEPT !.sink = Append(@, Head(q)), !.rorder = Tail(q),
                            !.rpending = @ \ {Head(q)}]
  <2>1. Head(q) \in Keys /\ Tail(q) \in Seq(Keys) /\ Ran(q) = {Head(q)} \cup Ran(Tail(q))
    BY <1>1, <1>4, HeadTailRan
  <2>2. /\ u \in Subs /\ u.sink = Append(s.sink, Head(q)) /\ u.rpending = s.rpending \ {Head(q)}
        /\ u.rorder = Tail(q) /\ u.rdraining = s.rdraining
        /\ u.pending = s.pending /\ u.order = s.order /\ u.drain = s.drain
        /\ u.resynced = s.resynced
    BY <1>0, <2>1, SubParts, AppendRan DEF Subs
  <2>3. Len(u.sink) <= Cap /\ Ran(u.sink) = Ran(s.sink) \cup {Head(q)}
    BY <1>0, <1>4, <2>1, <2>2, SubParts, AppendRan, ConstantsAssumption DEF Room
  <2> HIDE DEF u
  <2>4. Step(s, u, {})
    BY <1>0, <1>2, <2>1, <2>2, <2>3 DEF Step, Good, Waiting, Carried
  <2>5. sub' = [sub EXCEPT ![c] = u]
    BY <1>4 DEF u
  <2> QED
    BY <2>4, <2>5, MovesOne
<1>5. CASE sub' = [sub EXCEPT ![c].rorder = q]
  <2> DEFINE u == [s EXCEPT !.rorder = q]
  <2>1. sub' = [sub EXCEPT ![c] = u]
    BY <1>0, <1>5
  <2>2. /\ u \in Subs /\ u.sink = s.sink /\ u.rpending = s.rpending
        /\ u.rorder = q /\ u.rdraining = s.rdraining
        /\ u.pending = s.pending /\ u.order = s.order /\ u.drain = s.drain
        /\ u.resynced = s.resynced
    BY <1>0, <1>1, SubParts DEF Subs
  <2> HIDE DEF u
  <2>3. Step(s, u, {})
    BY <1>0, <1>2, <2>2 DEF Step, Good, Waiting, Carried
  <2> QED
    BY <2>1, <2>3, MovesOne
<1>6. CASE sub' = [sub EXCEPT ![c] = Resynced(s)]
  <2> DEFINE u == Resynced(s)
  <2>1. /\ u \in Subs /\ u.sink = s.sink /\ u.rpending = {} /\ u.pending = {} /\ u.resynced
    BY <1>0, SubParts, EmptyRan DEF Subs, Resynced, EmptySub
  <2> HIDE DEF u
  <2>2. Step(s, u, {})
    BY <1>0, <2>1 DEF Step, Good, Waiting, Carried
  <2>3. sub' = [sub EXCEPT ![c] = u]
    BY <1>6 DEF u
  <2> QED
    BY <2>2, <2>3, MovesOne
<1> QED
  BY <1>3, <1>4, <1>5, <1>6 DEF DrainRefreshes, q

\* The eviction drain takes the next key.
LEMMA PickEvictionMoves ==
    ASSUME Typed, Streams, NEW c \in Conns, PickEviction(c)
    PROVE  Moves(c, {})
<1> DEFINE s == sub[c]
           q == SkipDead(s.order, s.pending)
<1>0. s \in Subs /\ Good(s) /\ s.drain = "pick"
  BY DEF Streams, PickEviction
<1>1. /\ q \in Seq(Keys) /\ s.pending \cap Ran(s.order) \subseteq Ran(q)
      /\ q # <<>> => Head(q) \in s.pending
  BY <1>0, SubParts, SkipDeadFacts
<1>2. s.pending \subseteq Ran(q)
  BY <1>0, <1>1, SubParts, ConstantsAssumption DEF Good
<1> DEFINE u == IF q = <<>> THEN [s EXCEPT !.order = <<>>, !.drain = "off"]
                ELSE [s EXCEPT !.order = Tail(q), !.drain = Head(q)]
<1>3. sub' = [sub EXCEPT ![c] = u]
  BY DEF PickEviction
<1> HIDE DEF q
<1>4. CASE q = <<>>
  <2>1. s.pending = {}
    BY <1>2, <1>4, EmptyRan
  <2>2. /\ u \in Subs /\ u.sink = s.sink /\ u.rpending = s.rpending
        /\ u.rorder = s.rorder /\ u.rdraining = s.rdraining
        /\ u.pending = s.pending /\ u.resynced = s.resynced
    BY <1>0, <1>4, SubParts, EmptyRan DEF Subs
  <2> HIDE DEF u
  <2>3. Step(s, u, {})
    BY <1>0, <2>1, <2>2 DEF Step, Good, Waiting, Carried
  <2> QED
    BY <1>3, <2>3, MovesOne
<1>5. CASE q # <<>>
  <2>1. Head(q) \in Keys /\ Tail(q) \in Seq(Keys) /\ Ran(q) = {Head(q)} \cup Ran(Tail(q))
    BY <1>1, <1>5, HeadTailRan
  <2>2. /\ u \in Subs /\ u.sink = s.sink /\ u.rpending = s.rpending
        /\ u.rorder = s.rorder /\ u.rdraining = s.rdraining
        /\ u.pending = s.pending /\ u.order = Tail(q) /\ u.drain = Head(q)
        /\ u.resynced = s.resynced
    BY <1>0, <1>5, <2>1, SubParts DEF Subs
  <2>3. Head(q) # "off"
    BY <2>1, ConstantsAssumption
  <2> HIDE DEF u
  <2>4. Step(s, u, {})
    BY <1>0, <1>2, <2>1, <2>2, <2>3 DEF Step, Good, Waiting, Carried
  <2> QED
    BY <1>3, <2>4, MovesOne
<1> QED
  BY <1>4, <1>5

\* The eviction drain sends the key, or drops one that was withdrawn.
LEMMA SendDeferredMoves ==
    ASSUME Typed, Streams, NEW c \in Conns, SendDeferred(c)
    PROVE  Moves(c, {})
<1> DEFINE s == sub[c]
<1>0. s \in Subs /\ Good(s) /\ s.drain \in Keys /\ sub \in [Conns -> Subs]
  BY DEF Streams, SendDeferred
<1>1. CASE s.drain \notin s.pending /\ sub' = [sub EXCEPT ![c].drain = "pick"]
  <2> DEFINE u == [s EXCEPT !.drain = "pick"]
  <2>1. sub' = [sub EXCEPT ![c] = u]
    BY <1>0, <1>1
  <2>2. /\ u \in Subs /\ u.sink = s.sink /\ u.rpending = s.rpending
        /\ u.rorder = s.rorder /\ u.rdraining = s.rdraining
        /\ u.pending = s.pending /\ u.order = s.order /\ u.drain = "pick"
        /\ u.resynced = s.resynced
    BY <1>0, SubParts DEF Subs
  <2> HIDE DEF u
  <2>3. Step(s, u, {})
    BY <1>0, <1>1, <2>2 DEF Step, Good, Waiting, Carried
  <2> QED
    BY <2>1, <2>3, MovesOne
<1>2. CASE s.drain \in s.pending /\ Room(s) /\ sub' = [sub EXCEPT ![c] = SentDeferred(s)]
  <2> DEFINE u == SentDeferred(s)
  <2>1. /\ u \in Subs /\ u.sink = Append(s.sink, s.drain) /\ u.rpending = s.rpending
        /\ u.rorder = s.rorder /\ u.rdraining = s.rdraining
        /\ u.pending = s.pending \ {s.drain} /\ u.order = s.order /\ u.drain = "pick"
        /\ u.resynced = s.resynced
    BY <1>0, SubParts, AppendRan DEF Subs, SentDeferred
  <2>2. Len(u.sink) <= Cap /\ Ran(u.sink) = Ran(s.sink) \cup {s.drain}
    BY <1>0, <1>2, <2>1, SubParts, AppendRan, ConstantsAssumption DEF Room
  <2> HIDE DEF u
  <2>3. Step(s, u, {})
    BY <1>0, <1>2, <2>1, <2>2 DEF Step, Good, Waiting, Carried
  <2>4. sub' = [sub EXCEPT ![c] = u]
    BY <1>2 DEF u
  <2> QED
    BY <2>3, <2>4, MovesOne
<1> QED
  BY <1>1, <1>2 DEF SendDeferred

\* A fan-out offers the key to every stream armed for it and touches no other.
Fans(k) ==
    /\ sub' \in [Conns -> Subs]
    /\ \A c \in Subscribers(k) : Step(sub[c], sub'[c], {k})
    /\ \A c \in Conns \ Subscribers(k) : sub'[c] = sub[c]

\* fanoutRefresh offers the refresh to the streams armed for the key.
LEMMA FanoutRefreshFans ==
    ASSUME Typed, Streams, NEW p \in Publishers, FanoutRefresh(p)
    PROVE  Fans(pub[p].key)
<1> DEFINE k == pub[p].key
<1>1. k \in Keys
  BY PublisherKey DEF FanoutRefresh
<1>2. sub' = [c \in Conns |-> IF c \in Subscribers(k) THEN OfferRefresh(sub[c], k) ELSE sub[c]]
  BY DEF FanoutRefresh
<1> HIDE DEF k
<1>3. \A c \in Conns : Step(sub[c], OfferRefresh(sub[c], k), {k}) /\ sub[c] \in Subs
  BY <1>1, OfferRefreshStep DEF Streams
<1>4. \A c \in Conns : OfferRefresh(sub[c], k) \in Subs
  BY <1>3 DEF Step, Good
<1>5. Subscribers(k) \subseteq Conns
  BY DEF Subscribers
<1>6. sub' \in [Conns -> Subs]
  BY <1>2, <1>3, <1>4
<1> QED
  BY <1>2, <1>3, <1>5, <1>6 DEF Fans, k

\* PublishEviction offers the eviction, with a token or without.
LEMMA FanoutEvictionFans ==
    ASSUME Typed, Streams, NEW p \in Publishers, FanoutEviction(p)
    PROVE  Fans(pub[p].key)
<1> DEFINE k == pub[p].key
<1>1. k \in Keys
  BY PublisherKey DEF FanoutEviction
<1>2. PICK tokens \in SUBSET Subscribers(k) :
         sub' = [c \in Conns |-> IF c \in Subscribers(k)
                                 THEN OfferEviction(sub[c], k, c \in tokens) ELSE sub[c]]
  BY DEF FanoutEviction
<1> HIDE DEF k
<1>3. \A c \in Conns : /\ Step(sub[c], OfferEviction(sub[c], k, c \in tokens), {k})
                       /\ sub[c] \in Subs
  <2> TAKE c \in Conns
  <2> DEFINE token == c \in tokens
  <2>1. token \in BOOLEAN /\ Good(sub[c]) /\ sub[c] \in Subs
    BY DEF Streams
  <2> HIDE DEF token
  <2>2. Step(sub[c], OfferEviction(sub[c], k, token), {k})
    BY <1>1, <2>1, OfferEvictionStep
  <2> QED
    BY <2>1, <2>2 DEF token
<1>4. \A c \in Conns : OfferEviction(sub[c], k, c \in tokens) \in Subs
  BY <1>3 DEF Step, Good
<1>5. Subscribers(k) \subseteq Conns
  BY DEF Subscribers
<1>6. sub' \in [Conns -> Subs]
  BY <1>2, <1>3, <1>4
<1> QED
  BY <1>2, <1>3, <1>5, <1>6 DEF Fans, k

\* Announcing a missed or a rotated key.
LEMMA AnnounceMoves ==
    ASSUME Typed, Streams, NEW c \in Conns, NEW k \in Keys,
           AnnounceOnArm(c, k) \/ AnnounceRotated(c, k)
    PROVE  Moves(c, {k})
<1>1. CASE AnnounceOnArm(c, k)
  <2>1. sub' = [sub EXCEPT ![c] = OfferRefresh(sub[c], k)]
    BY <1>1 DEF AnnounceOnArm
  <2> QED
    BY <2>1, OfferRefreshStep, MovesOne DEF Streams
<1>2. CASE AnnounceRotated(c, k)
  <2>1. sub' = [sub EXCEPT ![c] = OfferRotated(sub[c], k)]
    BY <1>2 DEF AnnounceRotated
  <2> QED
    BY <2>1, OfferRotatedStep, MovesOne DEF Streams
<1> QED
  BY <1>1, <1>2

\* Writing a frame takes the head off the sink and touches nothing else.
LEMMA WriteFrameMoves ==
    ASSUME Typed, Streams, NEW c \in Conns, WriteFrame(c)
    PROVE  /\ sub' \in [Conns -> Subs] /\ Good(sub'[c])
           /\ \A d \in Conns \ {c} : sub'[d] = sub[d]
           /\ Waiting(sub'[c]) = Waiting(sub[c])
           /\ Carried(sub[c]) \subseteq Carried(sub'[c]) \cup {Head(sub[c].sink)}
<1> DEFINE s == sub[c]
           u == [s EXCEPT !.sink = Tail(@)]
<1>0. s \in Subs /\ Good(s) /\ s.sink # <<>> /\ sub \in [Conns -> Subs]
  BY DEF Streams, WriteFrame
<1>1. sub' = [sub EXCEPT ![c] = u]
  BY <1>0 DEF WriteFrame
<1>2. /\ Tail(s.sink) \in Seq(Keys) /\ Ran(s.sink) = {Head(s.sink)} \cup Ran(Tail(s.sink))
      /\ Len(Tail(s.sink)) <= Cap
  BY <1>0, SubParts, HeadTailRan, ConstantsAssumption DEF Good
<1>3. /\ u \in Subs /\ u.sink = Tail(s.sink) /\ u.rpending = s.rpending
      /\ u.rorder = s.rorder /\ u.rdraining = s.rdraining
      /\ u.pending = s.pending /\ u.order = s.order /\ u.drain = s.drain
  BY <1>0, <1>2 DEF Subs
<1> HIDE DEF u
<1>4. Good(u) /\ Waiting(u) = Waiting(s) /\ Carried(s) \subseteq Carried(u) \cup {Head(s.sink)}
  BY <1>0, <1>2, <1>3 DEF Good, Waiting, Carried
<1>5. sub'[c] = u /\ sub' \in [Conns -> Subs] /\ \A d \in Conns \ {c} : sub'[d] = sub[d]
  BY <1>0, <1>1, <1>3
<1> QED
  BY <1>4, <1>5

----------------------------------------------------------------------------
\* The steps of the inductive invariant.

\* Types.
LEMMA TypedStep == Typed /\ [Next]_vars => Typed'
<1> SUFFICES ASSUME Typed, [Next]_vars PROVE Typed'
    OBVIOUS
<1>1. ASSUME NEW p \in Publishers, CheckArmed(p) PROVE Typed'
  BY <1>1, PublisherKey DEF CheckArmed, streamVars, classVars, bounds, Typed, Idle, At
<1>2. ASSUME NEW p \in Publishers, Coalesce(p) PROVE Typed'
  BY <1>2, PublisherKey DEF Coalesce, streamVars, classVars, bounds, Typed, Idle, At, Coalesced
<1>3. ASSUME NEW p \in Publishers, FanoutRefresh(p) PROVE Typed'
  BY <1>3 DEF FanoutRefresh, classVars, bounds, Typed, Idle
<1>4. ASSUME NEW p \in Publishers, StopWindow(p) PROVE Typed'
  BY <1>4, PublisherKey DEF StopWindow, streamVars, classVars, bounds, Typed, Idle, At
<1>5. ASSUME NEW p \in Publishers, FanoutEviction(p) PROVE Typed'
  BY <1>5 DEF FanoutEviction, classVars, bounds, Typed, Idle
<1>6. ASSUME NEW p \in Publishers, NEW k \in Keys, Commit(p, k) PROVE Typed'
  BY <1>6, ConstantsAssumption DEF Commit, classVars, Typed, At, Owing
<1>7. ASSUME NEW p \in Publishers, NEW k \in Keys, Evict(p, k) PROVE Typed'
  BY <1>7, ConstantsAssumption DEF Evict, classVars, Typed, At, Owing
<1>8. ASSUME NEW p \in Publishers, NEW k \in Keys, WindowEnd(p, k) PROVE Typed'
  BY <1>8 DEF WindowEnd, streamVars, classVars, bounds, Typed, At
<1>9. ASSUME NEW c \in Conns, DrainRefreshes(c) PROVE Typed'
  BY <1>9 DEF DrainRefreshes, classVars, bounds, Typed
<1>10. ASSUME NEW c \in Conns, PickEviction(c) PROVE Typed'
  BY <1>10 DEF PickEviction, classVars, bounds, Typed
<1>11. ASSUME NEW c \in Conns, SendDeferred(c) PROVE Typed'
  BY <1>11 DEF SendDeferred, classVars, bounds, Typed
<1>12. ASSUME NEW c \in Conns, TakeSignal(c) PROVE Typed'
  BY <1>12, ConstantsAssumption DEF TakeSignal, Typed
<1>13. ASSUME NEW c \in Conns, Derive(c) PROVE Typed'
  BY <1>13 DEF Derive, bounds, Typed
<1>14. ASSUME NEW c \in Conns, Subscribe(c) PROVE Typed'
  BY <1>14 DEF Subscribe, classVars, bounds, Typed
<1>15. ASSUME NEW c \in Conns, NEW k \in Keys, AnnounceOnArm(c, k) PROVE Typed'
  BY <1>15 DEF AnnounceOnArm, classVars, bounds, Typed
<1>16. ASSUME NEW c \in Conns, WriteFrame(c) PROVE Typed'
  BY <1>16 DEF WriteFrame, classVars, bounds, Typed
<1>17. ASSUME NEW c \in Conns, WriteResync(c) PROVE Typed'
  BY <1>17 DEF WriteResync, classVars, bounds, Typed
<1>18. ASSUME NEW c \in Conns, ClientGone(c) PROVE Typed'
  BY <1>18 DEF ClientGone, classVars, bounds, Typed
<1>19. ASSUME NEW c \in Conns, Unsub(c) PROVE Typed'
  BY <1>19 DEF Unsub, classVars, bounds, Typed
<1>20. ASSUME NEW c \in Conns, Close(c) PROVE Typed'
  BY <1>20 DEF Close, classVars, bounds, Typed
<1>21. ASSUME NEW c \in Conns, ClassMoves(c) PROVE Typed'
  BY <1>21, ConstantsAssumption DEF ClassMoves, streamVars, Typed
<1>22. CASE NoteClasses
  BY <1>22 DEF NoteClasses, streamVars, bounds, Typed
<1>23. ASSUME NEW c \in Conns, Reacquire(c) PROVE Typed'
  BY <1>23 DEF Reacquire, streamVars, bounds, Typed
<1>24. ASSUME NEW c \in Conns, CheckRotation(c) PROVE Typed'
  BY <1>24 DEF CheckRotation, bounds, Typed, RotatedKeys
<1>25. ASSUME NEW c \in Conns, NEW k \in Keys, AnnounceRotated(c, k) PROVE Typed'
  BY <1>25 DEF AnnounceRotated, bounds, Typed
<1>26. CASE UNCHANGED vars
  BY <1>26 DEF vars, streamVars, classVars, bounds, Typed
<1> QED
  BY <1>1, <1>2, <1>3, <1>4, <1>5, <1>6, <1>7, <1>8, <1>9, <1>10, <1>11, <1>12, <1>13, <1>14,
     <1>15, <1>16, <1>17, <1>18, <1>19, <1>20, <1>21, <1>22, <1>23, <1>24, <1>25, <1>26 DEF Next,
     Publish, Drain, Handle

\* The streams stay consistent.
LEMMA StreamsStep == Typed /\ Streams /\ Handlers /\ [Next]_vars => Streams'
<1> SUFFICES ASSUME Typed, Streams, Handlers, [Next]_vars PROVE Streams'
    OBVIOUS
<1>1. ASSUME NEW p \in Publishers, CheckArmed(p) PROVE Streams'
  BY <1>1 DEF CheckArmed, streamVars, classVars, bounds, Typed, Streams, Registered
<1>2. ASSUME NEW p \in Publishers, Coalesce(p) PROVE Streams'
  BY <1>2 DEF Coalesce, streamVars, classVars, bounds, Typed, Streams, Registered
<1>3. ASSUME NEW p \in Publishers, FanoutRefresh(p) PROVE Streams'
  <2> DEFINE k == pub[p].key
  <2>1. Fans(k) /\ UNCHANGED <<phase, keys>>
    BY <1>3, FanoutRefreshFans DEF FanoutRefresh
  <2> HIDE DEF k
  <2>2. ASSUME NEW c \in Conns
        PROVE  Good(sub'[c]) /\ (Registered(c)' => Waiting(sub'[c]) \subseteq keys'[c])
    <3>1. CASE c \in Subscribers(k)
      BY <2>1, <3>1 DEF Fans, Step, Subscribers, Streams, Registered
    <3>2. CASE c \notin Subscribers(k)
      BY <2>1, <3>2 DEF Fans, Streams, Registered
    <3> QED BY <3>1, <3>2
  <2> QED BY <2>1, <2>2 DEF Fans, Streams
<1>4. ASSUME NEW p \in Publishers, StopWindow(p) PROVE Streams'
  BY <1>4 DEF StopWindow, streamVars, classVars, bounds, Typed, Streams, Registered
<1>5. ASSUME NEW p \in Publishers, FanoutEviction(p) PROVE Streams'
  <2> DEFINE k == pub[p].key
  <2>1. Fans(k) /\ UNCHANGED <<phase, keys>>
    BY <1>5, FanoutEvictionFans DEF FanoutEviction
  <2> HIDE DEF k
  <2>2. ASSUME NEW c \in Conns
        PROVE  Good(sub'[c]) /\ (Registered(c)' => Waiting(sub'[c]) \subseteq keys'[c])
    <3>1. CASE c \in Subscribers(k)
      BY <2>1, <3>1 DEF Fans, Step, Subscribers, Streams, Registered
    <3>2. CASE c \notin Subscribers(k)
      BY <2>1, <3>2 DEF Fans, Streams, Registered
    <3> QED BY <3>1, <3>2
  <2> QED BY <2>1, <2>2 DEF Fans, Streams
<1>6. ASSUME NEW p \in Publishers, NEW k \in Keys, Commit(p, k) PROVE Streams'
  BY <1>6 DEF Commit, classVars, Typed, Streams, Registered
<1>7. ASSUME NEW p \in Publishers, NEW k \in Keys, Evict(p, k) PROVE Streams'
  BY <1>7 DEF Evict, classVars, Typed, Streams, Registered
<1>8. ASSUME NEW p \in Publishers, NEW k \in Keys, WindowEnd(p, k) PROVE Streams'
  BY <1>8 DEF WindowEnd, streamVars, classVars, bounds, Typed, Streams, Registered
<1>9. ASSUME NEW c \in Conns, DrainRefreshes(c) PROVE Streams'
  BY <1>9, DrainRefreshesMoves DEF DrainRefreshes, classVars, bounds, Typed, Streams, Registered,
     Moves, Step
<1>10. ASSUME NEW c \in Conns, PickEviction(c) PROVE Streams'
  BY <1>10, PickEvictionMoves DEF PickEviction, classVars, bounds, Typed, Streams, Registered,
     Moves, Step
<1>11. ASSUME NEW c \in Conns, SendDeferred(c) PROVE Streams'
  BY <1>11, SendDeferredMoves DEF SendDeferred, classVars, bounds, Typed, Streams, Registered,
     Moves, Step
<1>12. ASSUME NEW c \in Conns, TakeSignal(c) PROVE Streams'
  BY <1>12 DEF TakeSignal, Typed, Streams, Registered
<1>13. ASSUME NEW c \in Conns, Derive(c) PROVE Streams'
  BY <1>13 DEF Derive, bounds, Typed, Streams, Registered, Handlers
<1>14. ASSUME NEW c \in Conns, Subscribe(c) PROVE Streams'
  BY <1>14, EmptyGood DEF Subscribe, classVars, bounds, Typed, Streams, Registered, Handlers
<1>15. ASSUME NEW c \in Conns, NEW k \in Keys, AnnounceOnArm(c, k) PROVE Streams'
  <2>1. Moves(c, {k}) /\ UNCHANGED <<phase, keys>>
    BY <1>15, AnnounceMoves DEF AnnounceOnArm
  <2>2. k \in keys[c]
    BY <1>15 DEF AnnounceOnArm, Handlers
  <2>3. ASSUME NEW d \in Conns
        PROVE  Good(sub'[d]) /\ (Registered(d)' => Waiting(sub'[d]) \subseteq keys'[d])
    <3>1. CASE d = c
      BY <2>1, <2>2, <3>1 DEF Moves, Step, Streams, Registered
    <3>2. CASE d # c
      BY <2>1, <3>2 DEF Moves, Streams, Registered
    <3> QED BY <3>1, <3>2
  <2> QED BY <2>1, <2>3 DEF Moves, Streams
<1>16. ASSUME NEW c \in Conns, WriteFrame(c) PROVE Streams'
  BY <1>16, WriteFrameMoves DEF WriteFrame, classVars, bounds, Typed, Streams, Registered, Serving
<1>17. ASSUME NEW c \in Conns, WriteResync(c) PROVE Streams'
  BY <1>17 DEF WriteResync, classVars, bounds, Typed, Streams, Registered, Serving
<1>18. ASSUME NEW c \in Conns, ClientGone(c) PROVE Streams'
  BY <1>18 DEF ClientGone, classVars, bounds, Typed, Streams, Registered, Serving
<1>19. ASSUME NEW c \in Conns, Unsub(c) PROVE Streams'
  BY <1>19 DEF Unsub, classVars, bounds, Typed, Streams, Registered
<1>20. ASSUME NEW c \in Conns, Close(c) PROVE Streams'
  BY <1>20, EmptyGood DEF Close, classVars, bounds, Typed, Streams, Registered, Good
<1>21. ASSUME NEW c \in Conns, ClassMoves(c) PROVE Streams'
  BY <1>21 DEF ClassMoves, streamVars, Typed, Streams, Registered
<1>22. CASE NoteClasses
  BY <1>22 DEF NoteClasses, streamVars, bounds, Typed, Streams, Registered
<1>23. ASSUME NEW c \in Conns, Reacquire(c) PROVE Streams'
  BY <1>23 DEF Reacquire, streamVars, bounds, Typed, Streams, Registered
<1>24. ASSUME NEW c \in Conns, CheckRotation(c) PROVE Streams'
  BY <1>24 DEF CheckRotation, bounds, Typed, Streams, Registered
<1>25. ASSUME NEW c \in Conns, NEW k \in Keys, AnnounceRotated(c, k) PROVE Streams'
  <2>1. Moves(c, {k}) /\ UNCHANGED <<phase, keys>>
    BY <1>25, AnnounceMoves DEF AnnounceRotated
  <2>2. k \in keys[c]
    BY <1>25 DEF AnnounceRotated, Handlers
  <2>3. ASSUME NEW d \in Conns
        PROVE  Good(sub'[d]) /\ (Registered(d)' => Waiting(sub'[d]) \subseteq keys'[d])
    <3>1. CASE d = c
      BY <2>1, <2>2, <3>1 DEF Moves, Step, Streams, Registered
    <3>2. CASE d # c
      BY <2>1, <3>2 DEF Moves, Streams, Registered
    <3> QED BY <3>1, <3>2
  <2> QED BY <2>1, <2>3 DEF Moves, Streams
<1>26. CASE UNCHANGED vars
  BY <1>26 DEF vars, streamVars, classVars, bounds, Typed, Streams, Registered
<1> QED
  BY <1>1, <1>2, <1>3, <1>4, <1>5, <1>6, <1>7, <1>8, <1>9, <1>10, <1>11, <1>12, <1>13, <1>14,
     <1>15, <1>16, <1>17, <1>18, <1>19, <1>20, <1>21, <1>22, <1>23, <1>24, <1>25, <1>26 DEF Next,
     Publish, Drain, Handle

\* The handlers stay in order.
LEMMA HandlersStep == Typed /\ Streams /\ Handlers /\ [Next]_vars => Handlers'
<1> SUFFICES ASSUME Typed, Streams, Handlers, [Next]_vars PROVE Handlers'
    OBVIOUS
<1>1. ASSUME NEW p \in Publishers, CheckArmed(p) PROVE Handlers'
  BY <1>1 DEF CheckArmed, streamVars, classVars, bounds, Typed, Streams, Handlers, Registered
<1>2. ASSUME NEW p \in Publishers, Coalesce(p) PROVE Handlers'
  BY <1>2 DEF Coalesce, streamVars, classVars, bounds, Typed, Streams, Handlers, Registered
<1>3. ASSUME NEW p \in Publishers, FanoutRefresh(p) PROVE Handlers'
  BY <1>3, FanoutRefreshFans DEF FanoutRefresh, classVars, bounds, Typed, Streams, Handlers,
     Registered, Fans, Subscribers
<1>4. ASSUME NEW p \in Publishers, StopWindow(p) PROVE Handlers'
  BY <1>4 DEF StopWindow, streamVars, classVars, bounds, Typed, Streams, Handlers, Registered
<1>5. ASSUME NEW p \in Publishers, FanoutEviction(p) PROVE Handlers'
  BY <1>5, FanoutEvictionFans DEF FanoutEviction, classVars, bounds, Typed, Streams, Handlers,
     Registered, Fans, Subscribers
<1>6. ASSUME NEW p \in Publishers, NEW k \in Keys, Commit(p, k) PROVE Handlers'
  BY <1>6 DEF Commit, classVars, Typed, Streams, Handlers, Registered, Owing, Subscribers
<1>7. ASSUME NEW p \in Publishers, NEW k \in Keys, Evict(p, k) PROVE Handlers'
  BY <1>7 DEF Evict, classVars, Typed, Streams, Handlers, Registered, Owing, Subscribers
<1>8. ASSUME NEW p \in Publishers, NEW k \in Keys, WindowEnd(p, k) PROVE Handlers'
  BY <1>8 DEF WindowEnd, streamVars, classVars, bounds, Typed, Streams, Handlers, Registered
<1>9. ASSUME NEW c \in Conns, DrainRefreshes(c) PROVE Handlers'
  <2>1. phase[c] \notin {"idle", "deriving", "derived"}
    BY <1>9, ConstantsAssumption DEF DrainRefreshes, Handlers, EmptySub
  <2>2. (\A d \in Conns \ {c} : sub'[d] = sub[d])
        /\ UNCHANGED <<phase, keys, announce, owed, rotating, checking>>
    BY <1>9, DrainRefreshesMoves DEF Moves, DrainRefreshes, classVars
  <2> QED BY <2>1, <2>2 DEF Handlers, Registered
<1>10. ASSUME NEW c \in Conns, PickEviction(c) PROVE Handlers'
  <2>1. phase[c] \notin {"idle", "deriving", "derived"}
    BY <1>10, ConstantsAssumption DEF PickEviction, Handlers, EmptySub
  <2>2. (\A d \in Conns \ {c} : sub'[d] = sub[d])
        /\ UNCHANGED <<phase, keys, announce, owed, rotating, checking>>
    BY <1>10, PickEvictionMoves DEF Moves, PickEviction, classVars
  <2> QED BY <2>1, <2>2 DEF Handlers, Registered
<1>11. ASSUME NEW c \in Conns, SendDeferred(c) PROVE Handlers'
  <2>1. phase[c] \notin {"idle", "deriving", "derived"}
    BY <1>11, ConstantsAssumption DEF SendDeferred, Handlers, EmptySub
  <2>2. (\A d \in Conns \ {c} : sub'[d] = sub[d])
        /\ UNCHANGED <<phase, keys, announce, owed, rotating, checking>>
    BY <1>11, SendDeferredMoves DEF Moves, SendDeferred, classVars
  <2> QED BY <2>1, <2>2 DEF Handlers, Registered
<1>12. ASSUME NEW c \in Conns, TakeSignal(c) PROVE Handlers'
  BY <1>12 DEF TakeSignal, Typed, Streams, Handlers, Registered
<1>13. ASSUME NEW c \in Conns, Derive(c) PROVE Handlers'
  BY <1>13 DEF Derive, bounds, Typed, Streams, Handlers, Registered
<1>14. ASSUME NEW c \in Conns, Subscribe(c) PROVE Handlers'
  BY <1>14 DEF Subscribe, classVars, bounds, Typed, Streams, Handlers, Registered
<1>15. ASSUME NEW c \in Conns, NEW k \in Keys, AnnounceOnArm(c, k) PROVE Handlers'
  BY <1>15, AnnounceMoves DEF AnnounceOnArm, classVars, bounds, Typed, Streams, Handlers,
     Registered, Moves
<1>16. ASSUME NEW c \in Conns, WriteFrame(c) PROVE Handlers'
  BY <1>16, WriteFrameMoves DEF WriteFrame, classVars, bounds, Typed, Streams, Handlers,
     Registered, Serving
<1>17. ASSUME NEW c \in Conns, WriteResync(c) PROVE Handlers'
  BY <1>17 DEF WriteResync, classVars, bounds, Typed, Streams, Handlers, Registered, Serving
<1>18. ASSUME NEW c \in Conns, ClientGone(c) PROVE Handlers'
  BY <1>18 DEF ClientGone, classVars, bounds, Typed, Streams, Handlers, Registered, Serving
<1>19. ASSUME NEW c \in Conns, Unsub(c) PROVE Handlers'
  BY <1>19 DEF Unsub, classVars, bounds, Typed, Streams, Handlers, Registered
<1>20. ASSUME NEW c \in Conns, Close(c) PROVE Handlers'
  BY <1>20 DEF Close, classVars, bounds, Typed, Streams, Handlers, Registered
<1>21. ASSUME NEW c \in Conns, ClassMoves(c) PROVE Handlers'
  BY <1>21 DEF ClassMoves, streamVars, Typed, Streams, Handlers, Registered
<1>22. CASE NoteClasses
  BY <1>22 DEF NoteClasses, streamVars, bounds, Typed, Streams, Handlers, Registered
<1>23. ASSUME NEW c \in Conns, Reacquire(c) PROVE Handlers'
  BY <1>23 DEF Reacquire, streamVars, bounds, Typed, Streams, Handlers, Registered, Serving
<1>24. ASSUME NEW c \in Conns, CheckRotation(c) PROVE Handlers'
  BY <1>24 DEF CheckRotation, bounds, Typed, Streams, Handlers, Registered, RotatedKeys
<1>25. ASSUME NEW c \in Conns, NEW k \in Keys, AnnounceRotated(c, k) PROVE Handlers'
  BY <1>25, AnnounceMoves DEF AnnounceRotated, bounds, Typed, Streams, Handlers, Registered, Moves
<1>26. CASE UNCHANGED vars
  BY <1>26 DEF vars, streamVars, classVars, bounds, Typed, Streams, Handlers, Registered
<1> QED
  BY <1>1, <1>2, <1>3, <1>4, <1>5, <1>6, <1>7, <1>8, <1>9, <1>10, <1>11, <1>12, <1>13, <1>14,
     <1>15, <1>16, <1>17, <1>18, <1>19, <1>20, <1>21, <1>22, <1>23, <1>24, <1>25, <1>26 DEF Next,
     Publish, Drain, Handle

\* No note of a class that moved is lost.
LEMMA RotationStep == Typed /\ Handlers /\ RotationNoticed /\ [Next]_vars => RotationNoticed'
<1> SUFFICES ASSUME Typed, Handlers, RotationNoticed, [Next]_vars PROVE RotationNoticed'
    OBVIOUS
<1>1. ASSUME NEW p \in Publishers, CheckArmed(p) PROVE RotationNoticed'
  BY <1>1 DEF CheckArmed, streamVars, classVars, bounds, Typed, RotationNoticed, RotatedKeys
<1>2. ASSUME NEW p \in Publishers, Coalesce(p) PROVE RotationNoticed'
  BY <1>2 DEF Coalesce, streamVars, classVars, bounds, Typed, RotationNoticed, RotatedKeys
<1>3. ASSUME NEW p \in Publishers, FanoutRefresh(p) PROVE RotationNoticed'
  BY <1>3 DEF FanoutRefresh, classVars, bounds, Typed, RotationNoticed, RotatedKeys
<1>4. ASSUME NEW p \in Publishers, StopWindow(p) PROVE RotationNoticed'
  BY <1>4 DEF StopWindow, streamVars, classVars, bounds, Typed, RotationNoticed, RotatedKeys
<1>5. ASSUME NEW p \in Publishers, FanoutEviction(p) PROVE RotationNoticed'
  BY <1>5 DEF FanoutEviction, classVars, bounds, Typed, RotationNoticed, RotatedKeys
<1>6. ASSUME NEW p \in Publishers, NEW k \in Keys, Commit(p, k) PROVE RotationNoticed'
  BY <1>6 DEF Commit, classVars, Typed, RotationNoticed, RotatedKeys
<1>7. ASSUME NEW p \in Publishers, NEW k \in Keys, Evict(p, k) PROVE RotationNoticed'
  BY <1>7 DEF Evict, classVars, Typed, RotationNoticed, RotatedKeys
<1>8. ASSUME NEW p \in Publishers, NEW k \in Keys, WindowEnd(p, k) PROVE RotationNoticed'
  BY <1>8 DEF WindowEnd, streamVars, classVars, bounds, Typed, RotationNoticed, RotatedKeys
<1>9. ASSUME NEW c \in Conns, DrainRefreshes(c) PROVE RotationNoticed'
  BY <1>9 DEF DrainRefreshes, classVars, bounds, Typed, RotationNoticed, RotatedKeys
<1>10. ASSUME NEW c \in Conns, PickEviction(c) PROVE RotationNoticed'
  BY <1>10 DEF PickEviction, classVars, bounds, Typed, RotationNoticed, RotatedKeys
<1>11. ASSUME NEW c \in Conns, SendDeferred(c) PROVE RotationNoticed'
  BY <1>11 DEF SendDeferred, classVars, bounds, Typed, RotationNoticed, RotatedKeys
<1>12. ASSUME NEW c \in Conns, TakeSignal(c) PROVE RotationNoticed'
  BY <1>12 DEF TakeSignal, Typed, RotationNoticed, RotatedKeys
<1>13. ASSUME NEW c \in Conns, Derive(c) PROVE RotationNoticed'
  BY <1>13 DEF Derive, bounds, Typed, RotationNoticed, RotatedKeys
<1>14. ASSUME NEW c \in Conns, Subscribe(c) PROVE RotationNoticed'
  BY <1>14 DEF Subscribe, classVars, bounds, Typed, RotationNoticed, RotatedKeys
<1>15. ASSUME NEW c \in Conns, NEW k \in Keys, AnnounceOnArm(c, k) PROVE RotationNoticed'
  BY <1>15 DEF AnnounceOnArm, classVars, bounds, Typed, RotationNoticed, RotatedKeys
<1>16. ASSUME NEW c \in Conns, WriteFrame(c) PROVE RotationNoticed'
  BY <1>16 DEF WriteFrame, classVars, bounds, Typed, RotationNoticed, RotatedKeys
<1>17. ASSUME NEW c \in Conns, WriteResync(c) PROVE RotationNoticed'
  BY <1>17 DEF WriteResync, classVars, bounds, Typed, RotationNoticed, RotatedKeys
<1>18. ASSUME NEW c \in Conns, ClientGone(c) PROVE RotationNoticed'
  BY <1>18 DEF ClientGone, classVars, bounds, Typed, RotationNoticed, RotatedKeys
<1>19. ASSUME NEW c \in Conns, Unsub(c) PROVE RotationNoticed'
  BY <1>19 DEF Unsub, classVars, bounds, Typed, RotationNoticed, RotatedKeys
<1>20. ASSUME NEW c \in Conns, Close(c) PROVE RotationNoticed'
  BY <1>20 DEF Close, classVars, bounds, Typed, RotationNoticed, RotatedKeys
<1>21. ASSUME NEW c \in Conns, ClassMoves(c) PROVE RotationNoticed'
  BY <1>21 DEF ClassMoves, streamVars, Typed, RotationNoticed, RotatedKeys
<1>22. CASE NoteClasses
  BY <1>22 DEF NoteClasses, streamVars, bounds, Typed, RotationNoticed, RotatedKeys
<1>23. ASSUME NEW c \in Conns, Reacquire(c) PROVE RotationNoticed'
  BY <1>23 DEF Reacquire, streamVars, bounds, Typed, RotationNoticed, RotatedKeys
<1>24. ASSUME NEW c \in Conns, CheckRotation(c) PROVE RotationNoticed'
  BY <1>24 DEF CheckRotation, bounds, Typed, RotationNoticed, RotatedKeys
<1>25. ASSUME NEW c \in Conns, NEW k \in Keys, AnnounceRotated(c, k) PROVE RotationNoticed'
  BY <1>25 DEF AnnounceRotated, bounds, Typed, RotationNoticed, RotatedKeys
<1>26. CASE UNCHANGED vars
  BY <1>26 DEF vars, streamVars, classVars, bounds, Typed, RotationNoticed, RotatedKeys
<1> QED
  BY <1>1, <1>2, <1>3, <1>4, <1>5, <1>6, <1>7, <1>8, <1>9, <1>10, <1>11, <1>12, <1>13, <1>14,
     <1>15, <1>16, <1>17, <1>18, <1>19, <1>20, <1>21, <1>22, <1>23, <1>24, <1>25, <1>26 DEF Next,
     Publish, Drain, Handle

\* OnItsWay, split into what the stream holds and what is on its way to all.
Held(c, k) == k \in announce[c] \cup rotating[c] \cup Carried(sub[c])
Published(k) ==
    window[k] = "suppressed" \/ \E p \in Publishers : pub[p] # Idle /\ pub[p].key = k

\* No frame is lost.
LEMMA SignalStep == Typed /\ Streams /\ Handlers /\ NoLostSignal /\ [Next]_vars => NoLostSignal'
<1> SUFFICES ASSUME Typed, Streams, Handlers, NoLostSignal, [Next]_vars PROVE NoLostSignal'
    OBVIOUS
<1>b. \A d \in Conns : owed'[d] \subseteq Keys
  <2>1. Typed'
    BY TypedStep
  <2> QED BY <2>1 DEF Typed
<1> SUFFICES ASSUME NEW d \in Conns, phase'[d] = "open", ~sub'[d].resynced, NEW j \in owed'[d],
                    j \in Keys
             PROVE  (Held(d, j) \/ Published(j))'
  BY <1>b DEF NoLostSignal, OnItsWay, Held, Published, Carried, Waiting
<1>a. phase[d] = "open" /\ ~sub[d].resynced /\ j \in owed[d] => Held(d, j) \/ Published(j)
  BY DEF NoLostSignal, OnItsWay, Held, Published, Carried, Waiting
<1>1. ASSUME NEW p \in Publishers, CheckArmed(p) PROVE (Held(d, j) \/ Published(j))'
  <2>1. pub'[p] # Idle /\ pub'[p].key = pub[p].key /\ \A q \in Publishers \ {p} : pub'[q] = pub[q]
    BY <1>1 DEF CheckArmed, Typed, Idle
  <2> QED BY <1>1, <1>a, <2>1 DEF CheckArmed, streamVars, classVars, Held, Published
<1>2. ASSUME NEW p \in Publishers, Coalesce(p) PROVE (Held(d, j) \/ Published(j))'
  <2> DEFINE k == pub[p].key
  <2>1. k \in Keys /\ \A q \in Publishers \ {p} : pub'[q] = pub[q]
    BY <1>2, PublisherKey DEF Coalesce, Typed
  <2>2. \/ window'[k] = "suppressed"
        \/ pub'[p] # Idle /\ pub'[p].key = k
    BY <1>2, <2>1 DEF Coalesce, Coalesced, Typed, Idle, At
  <2>3. j # k => window'[j] = window[j]
    BY <1>2 DEF Coalesce, Typed
  <2> QED BY <1>2, <1>a, <2>1, <2>2, <2>3 DEF Coalesce, streamVars, classVars, Held, Published
<1>3. ASSUME NEW p \in Publishers, FanoutRefresh(p) PROVE (Held(d, j) \/ Published(j))'
  <2> DEFINE k == pub[p].key
  <2>1. Fans(k) /\ UNCHANGED <<phase, keys, announce, rotating, owed, window>>
    BY <1>3, FanoutRefreshFans DEF FanoutRefresh, classVars
  <2>2. \A q \in Publishers \ {p} : pub'[q] = pub[q]
    BY <1>3 DEF FanoutRefresh, Typed
  <2>3. pub[p].key = k
    OBVIOUS
  <2> HIDE DEF k
  <2>4. CASE d \in Subscribers(k)
    BY <1>a, <2>1, <2>2, <2>3, <2>4 DEF Fans, Step, Held, Published
  <2>5. CASE d \notin Subscribers(k)
    <3>1. j # k
      BY <2>1, <2>5 DEF Handlers, Subscribers, Registered
    <3> QED BY <1>a, <2>1, <2>2, <2>3, <2>5, <3>1 DEF Fans, Held, Published
  <2> QED BY <2>4, <2>5
<1>4. ASSUME NEW p \in Publishers, StopWindow(p) PROVE (Held(d, j) \/ Published(j))'
  <2>1. pub'[p] # Idle /\ pub'[p].key = pub[p].key /\ \A q \in Publishers \ {p} : pub'[q] = pub[q]
    BY <1>4 DEF StopWindow, Typed, Idle
  <2>2. j # pub[p].key => window'[j] = window[j]
    BY <1>4 DEF StopWindow, Typed
  <2> QED BY <1>4, <1>a, <2>1, <2>2 DEF StopWindow, streamVars, classVars, Held, Published
<1>5. ASSUME NEW p \in Publishers, FanoutEviction(p) PROVE (Held(d, j) \/ Published(j))'
  <2> DEFINE k == pub[p].key
  <2>1. Fans(k) /\ UNCHANGED <<phase, keys, announce, rotating, owed, window>>
    BY <1>5, FanoutEvictionFans DEF FanoutEviction, classVars
  <2>2. \A q \in Publishers \ {p} : pub'[q] = pub[q]
    BY <1>5 DEF FanoutEviction, Typed
  <2>3. pub[p].key = k
    OBVIOUS
  <2> HIDE DEF k
  <2>4. CASE d \in Subscribers(k)
    BY <1>a, <2>1, <2>2, <2>3, <2>4 DEF Fans, Step, Held, Published
  <2>5. CASE d \notin Subscribers(k)
    <3>1. j # k
      BY <2>1, <2>5 DEF Handlers, Subscribers, Registered
    <3> QED BY <1>a, <2>1, <2>2, <2>3, <2>5, <3>1 DEF Fans, Held, Published
  <2> QED BY <2>4, <2>5
<1>6. ASSUME NEW p \in Publishers, NEW k \in Keys, Commit(p, k)
      PROVE  (Held(d, j) \/ Published(j))'
  <2>1. pub'[p] # Idle /\ pub'[p].key = k /\ \A q \in Publishers \ {p} : pub'[q] = pub[q]
    BY <1>6 DEF Commit, Typed, Idle, At
  <2>2. j \in owed[d] \/ j = k
    BY <1>6 DEF Commit, Owing, Typed
  <2> QED BY <1>6, <1>a, <2>1, <2>2 DEF Commit, classVars, Held, Published
<1>7. ASSUME NEW p \in Publishers, NEW k \in Keys, Evict(p, k) PROVE (Held(d, j) \/ Published(j))'
  <2>1. pub'[p] # Idle /\ pub'[p].key = k /\ \A q \in Publishers \ {p} : pub'[q] = pub[q]
    BY <1>7 DEF Evict, Typed, Idle, At
  <2>2. j \in owed[d] \/ j = k
    BY <1>7 DEF Evict, Owing, Typed
  <2> QED BY <1>7, <1>a, <2>1, <2>2 DEF Evict, classVars, Held, Published
<1>8. ASSUME NEW p \in Publishers, NEW k \in Keys, WindowEnd(p, k)
      PROVE  (Held(d, j) \/ Published(j))'
  <2>1. \A i \in Keys \ {k} : window'[i] = window[i]
    BY <1>8 DEF WindowEnd, Typed
  <2>2. CASE window[k] = "open" /\ UNCHANGED pub
    BY <1>8, <1>a, <2>1, <2>2 DEF WindowEnd, streamVars, classVars, Held, Published
  <2>3. CASE pub[p] = Idle /\ pub' = [pub EXCEPT ![p] = At("fanout", k)]
    <3>1. pub'[p] # Idle /\ pub'[p].key = k /\ \A q \in Publishers \ {p} : pub'[q] = pub[q]
      BY <2>3 DEF Typed, Idle, At
    <3> QED BY <1>8, <1>a, <2>1, <2>3, <3>1 DEF WindowEnd, streamVars, classVars, Held, Published
  <2> QED BY <1>8, <2>2, <2>3 DEF WindowEnd
<1>9. ASSUME NEW c \in Conns, DrainRefreshes(c) PROVE (Held(d, j) \/ Published(j))'
  <2>1. Moves(c, {}) /\ UNCHANGED <<phase, announce, rotating, owed, window, pub>>
    BY <1>9, DrainRefreshesMoves DEF DrainRefreshes, classVars
  <2> QED BY <1>a, <2>1 DEF Moves, Step, Held, Published
<1>10. ASSUME NEW c \in Conns, PickEviction(c) PROVE (Held(d, j) \/ Published(j))'
  <2>1. Moves(c, {}) /\ UNCHANGED <<phase, announce, rotating, owed, window, pub>>
    BY <1>10, PickEvictionMoves DEF PickEviction, classVars
  <2> QED BY <1>a, <2>1 DEF Moves, Step, Held, Published
<1>11. ASSUME NEW c \in Conns, SendDeferred(c) PROVE (Held(d, j) \/ Published(j))'
  <2>1. Moves(c, {}) /\ UNCHANGED <<phase, announce, rotating, owed, window, pub>>
    BY <1>11, SendDeferredMoves DEF SendDeferred, classVars
  <2> QED BY <1>a, <2>1 DEF Moves, Step, Held, Published
<1>12. ASSUME NEW c \in Conns, TakeSignal(c) PROVE (Held(d, j) \/ Published(j))'
  BY <1>12, <1>a DEF TakeSignal, Typed, Held, Published
<1>13. ASSUME NEW c \in Conns, Derive(c) PROVE (Held(d, j) \/ Published(j))'
  BY <1>13, <1>a DEF Derive, bounds, Typed, Held, Published
<1>14. ASSUME NEW c \in Conns, Subscribe(c) PROVE (Held(d, j) \/ Published(j))'
  BY <1>14, <1>a DEF Subscribe, classVars, bounds, Typed, Held, Published
<1>15. ASSUME NEW c \in Conns, NEW k \in Keys, AnnounceOnArm(c, k)
      PROVE  (Held(d, j) \/ Published(j))'
  <2>1. Moves(c, {k}) /\ UNCHANGED <<phase, owed, window, pub>>
    BY <1>15, AnnounceMoves DEF AnnounceOnArm
  <2>2. announce' = [announce EXCEPT ![c] = @ \ {k}] /\ UNCHANGED rotating
    BY <1>15 DEF AnnounceOnArm, classVars, Typed
  <2> QED BY <1>a, <2>1, <2>2 DEF Moves, Step, Typed, Held, Published
<1>16. ASSUME NEW c \in Conns, WriteFrame(c) PROVE (Held(d, j) \/ Published(j))'
  <2>1. CASE d = c
    <3>1. /\ ~sub[c].resynced /\ phase[c] = "open"
          /\ owed' = [owed EXCEPT ![c] = @ \ {Head(sub[c].sink)}]
      BY <1>16, <2>1 DEF WriteFrame, Serving, Typed
    <3>2. j # Head(sub[c].sink) /\ j \in owed[c]
      BY <2>1, <3>1 DEF Typed
    <3>3. Carried(sub[c]) \subseteq Carried(sub'[c]) \cup {Head(sub[c].sink)}
      BY <1>16, WriteFrameMoves
    <3> QED BY <1>16, <1>a, <2>1, <3>1, <3>2, <3>3 DEF WriteFrame, classVars, Held, Published
  <2>2. CASE d # c
    <3>1. sub'[d] = sub[d] /\ phase'[d] = phase[d] /\ owed'[d] = owed[d]
      BY <1>16, <2>2, WriteFrameMoves DEF WriteFrame, Typed
    <3> QED BY <1>16, <1>a, <3>1 DEF WriteFrame, classVars, Held, Published
  <2> QED BY <2>1, <2>2
<1>17. ASSUME NEW c \in Conns, WriteResync(c) PROVE (Held(d, j) \/ Published(j))'
  BY <1>17, <1>a DEF WriteResync, classVars, bounds, Typed, Held, Published
<1>18. ASSUME NEW c \in Conns, ClientGone(c) PROVE (Held(d, j) \/ Published(j))'
  BY <1>18, <1>a DEF ClientGone, classVars, bounds, Typed, Held, Published
<1>19. ASSUME NEW c \in Conns, Unsub(c) PROVE (Held(d, j) \/ Published(j))'
  <2>1. d # c /\ phase[d] = "open" /\ j \in owed[d]
    BY <1>19 DEF Unsub, Typed
  <2>2. d \in Subscribers(j)
    BY <2>1 DEF Handlers, Subscribers, Registered
  <2>3. window'[j] = window[j]
    BY <1>19, <2>1, <2>2 DEF Unsub, Typed
  <2> QED BY <1>19, <1>a, <2>1, <2>3 DEF Unsub, classVars, Held, Published
<1>20. ASSUME NEW c \in Conns, Close(c) PROVE (Held(d, j) \/ Published(j))'
  BY <1>20, <1>a DEF Close, classVars, bounds, Typed, Held, Published
<1>21. ASSUME NEW c \in Conns, ClassMoves(c) PROVE (Held(d, j) \/ Published(j))'
  BY <1>21, <1>a DEF ClassMoves, streamVars, Typed, Held, Published
<1>22. CASE NoteClasses
  BY <1>22, <1>a DEF NoteClasses, streamVars, bounds, Typed, Held, Published
<1>23. ASSUME NEW c \in Conns, Reacquire(c) PROVE (Held(d, j) \/ Published(j))'
  BY <1>23, <1>a DEF Reacquire, streamVars, bounds, Typed, Held, Published
<1>24. ASSUME NEW c \in Conns, CheckRotation(c) PROVE (Held(d, j) \/ Published(j))'
  <2>1. CASE d = c
    <3>1. rotating[c] = {} /\ owed'[c] = owed[c] \cup rotating'[c]
      BY <1>24 DEF CheckRotation, Handlers, Typed
    <3> QED BY <1>24, <1>a, <2>1, <3>1 DEF CheckRotation, Held, Published
  <2>2. CASE d # c
    BY <1>24, <1>a, <2>2 DEF CheckRotation, Held, Published, Typed
  <2> QED BY <2>1, <2>2
<1>25. ASSUME NEW c \in Conns, NEW k \in Keys, AnnounceRotated(c, k)
      PROVE  (Held(d, j) \/ Published(j))'
  <2>1. Moves(c, {k}) /\ UNCHANGED <<phase, owed, window, pub>>
    BY <1>25, AnnounceMoves DEF AnnounceRotated
  <2>2. rotating' = [rotating EXCEPT ![c] = @ \ {k}] /\ UNCHANGED announce
    BY <1>25 DEF AnnounceRotated, classVars, Typed
  <2> QED BY <1>a, <2>1, <2>2 DEF Moves, Step, Typed, Held, Published
<1>26. CASE UNCHANGED vars
  BY <1>26, <1>a DEF vars, streamVars, classVars, bounds, Held, Published
<1> QED
  BY <1>1, <1>2, <1>3, <1>4, <1>5, <1>6, <1>7, <1>8, <1>9, <1>10, <1>11, <1>12, <1>13, <1>14,
     <1>15, <1>16, <1>17, <1>18, <1>19, <1>20, <1>21, <1>22, <1>23, <1>24, <1>25, <1>26 DEF Next,
     Publish, Drain, Handle

----------------------------------------------------------------------------
\* Initially.
LEMMA InitIInv == Init => IInv
<1> SUFFICES ASSUME Init PROVE IInv
    OBVIOUS
<1>1. Typed
  <2>1. changes \in 0..MaxChanges /\ streams \in 0..MaxStreams
    BY ConstantsAssumption DEF Init
  <2>2. class \in [Conns -> 0..1] /\ minted \in [Conns -> 0..1]
    BY DEF Init
  <2> QED BY <2>1, <2>2, Zenon DEF Init, Typed
<1>2. Streams
  BY EmptyGood DEF Init, Streams, Registered, Good
<1>3. Handlers /\ NoLostSignal /\ RotationNoticed
  BY DEF Init, Handlers, Registered, NoLostSignal, RotationNoticed
<1> QED BY <1>1, <1>2, <1>3 DEF IInv

\* The invariant is inductive.
LEMMA Invariance == Spec => []IInv
<1>1. IInv /\ [Next]_vars => IInv'
  BY TypedStep, StreamsStep, HandlersStep, SignalStep, RotationStep DEF IInv
<1> QED BY <1>1, InitIInv, PTL DEF Spec

\* Everything has its type and no sink exceeds refreshSubChanCap, which is what
\* lets an offer send without blocking under the hub's lock.
THEOREM TypeCorrect == Spec => []TypeOK
<1>1. IInv => TypeOK
  BY DEF IInv, Typed, Streams, Good, TypeOK
<1> QED BY <1>1, Invariance, PTL

\* A key waits in one of a stream's two backlogs at most, and only while armed:
\* offerRefreshLocked, offerEviction and offerRotated keep them apart.
THEOREM OneSlot == Spec => []OneSlotPerKey
<1>1. IInv => OneSlotPerKey
  BY DEF IInv, Streams, Good, Waiting, OneSlotPerKey
<1> QED BY <1>1, Invariance, PTL

\* A backlog has its drain goroutine and every pending key is in the order that
\* drainRefreshes or drainEvictions follows.
THEOREM BacklogHasDrain == Spec => []BacklogDrained
<1>1. IInv => BacklogDrained
  BY DEF IInv, Streams, Good, BacklogDrained
<1> QED BY <1>1, Invariance, PTL

\* No change of a key is lost between publishRefresh and the sink of a stream
\* armed for it.
THEOREM SignalNotLost == Spec => []NoLostSignal
<1>1. IInv => NoLostSignal
  BY DEF IInv
<1> QED BY <1>1, Invariance, PTL

\* No note of a moved identity class is lost between the moment the handler
\* takes the signal and its comparison of the classes.
THEOREM RotationNotLost == Spec => []RotationNoticed
<1>1. IInv => RotationNoticed
  BY DEF IInv
<1> QED BY <1>1, Invariance, PTL
=============================================================================
