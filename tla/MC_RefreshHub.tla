--------------------------- MODULE MC_RefreshHub ----------------------------
(***************************************************************************)
(* An instance of RefreshHub for TLC.                                       *)
(***************************************************************************)
EXTENDS RefreshHub, TLC

CONSTANTS k1, k2, c1, p1, p2
=============================================================================
