--------------------------- MODULE MC_RbacPublish ---------------------------
EXTENDS RbacPublish

CONSTANTS s1, g1, i0, r1
=============================================================================
