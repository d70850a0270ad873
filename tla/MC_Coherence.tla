---------------------------- MODULE MC_Coherence ----------------------------
(***************************************************************************)
(* Instances of Coherence for TLC: one key, whose own CR is the one object  *)
(* of the one resource type, and an inner call that lists that type.        *)
(***************************************************************************)
EXTENDS Coherence, TLC

CONSTANTS k1, o1, g1, r1, r2, w1

OneGvr == (o1 :> g1)
OwnObject == (k1 :> o1)
ListOfType == (k1 :> {g1})
NoInner == (k1 :> {})

\* Callers are interchangeable; no liveness is checked with this symmetry.
CallerSymmetry == Permutations(Callers)
=============================================================================
