----------------------------- MODULE MC_StoreSwap -----------------------------
(* StoreSwap with chained swaps of one object.                               *)
EXTENDS StoreSwap
=============================================================================
