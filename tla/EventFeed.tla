----------------------------- MODULE EventFeed -----------------------------
(***************************************************************************)
(* What the dep-event bridge promises the dependency tracker: after every   *)
(* change of an object the tracker is told about the object again, with the *)
(* state the indexer then held or with "degraded", unless processing it     *)
(* panicked.  Telling is level-triggered: one telling answers for all the   *)
(* changes before it, and an object may be told about without a change.     *)
(***************************************************************************)
CONSTANT Objects

VARIABLES
    alive,  \* the objects the indexer holds
    owed,   \* objects that changed since they were last told about
    told,   \* object -> the state last told
    lost    \* objects whose last telling panicked

vars == <<alive, owed, told, lost>>

States == {"EXISTS", "ABSENT", "UNKNOWN_DEGRADED"}

Init ==
    /\ alive = Objects
    /\ owed = {}
    /\ told = [o \in Objects |-> "EXISTS"]
    /\ lost = {}

Change(o) ==
    /\ alive' \in {alive \cup {o}, alive \ {o}}
    /\ owed' = owed \cup {o}
    /\ UNCHANGED <<told, lost>>

\* A telling that saw the latest change settles the debt; one that a change
\* overtook may carry the earlier state, and the object stays owed.
Tell(o) ==
    /\ \/ /\ told' \in {[told EXCEPT ![o] = IF o \in alive THEN "EXISTS" ELSE "ABSENT"],
                        [told EXCEPT ![o] = "UNKNOWN_DEGRADED"]}
          /\ owed' = owed \ {o}
       \/ /\ o \in owed
          /\ \E s \in States : told' = [told EXCEPT ![o] = s]
          /\ UNCHANGED owed
    /\ lost' = lost \ {o}
    /\ UNCHANGED alive

Lose(o) ==
    /\ lost' = lost \cup {o}
    /\ UNCHANGED <<alive, owed, told>>

Next == \E o \in Objects : Change(o) \/ Tell(o) \/ Lose(o)

Spec == Init /\ [][Next]_vars

\* Every owed telling happens, or the object is known to be lost.
Promise == Spec /\ \A o \in Objects : (o \in owed) ~> (o \notin owed \/ o \in lost)

=============================================================================
