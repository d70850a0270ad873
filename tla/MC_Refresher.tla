---------------------------- MODULE MC_Refresher ----------------------------
(***************************************************************************)
(* Instances of Refresher for TLC.                                          *)
(***************************************************************************)
EXTENDS Refresher, TLC

CONSTANTS k1, c1, w1, w2

\* The workers are interchangeable; no liveness is checked with this symmetry.
WorkerSymmetry == Permutations(Workers)
=============================================================================
