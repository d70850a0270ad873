------------------------- MODULE MC_DepEventBridge -------------------------
EXTENDS DepEventBridge

CONSTANTS o1, o2

=============================================================================
