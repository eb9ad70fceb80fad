--------------------------- MODULE MCProcessLifecycle ---------------------------
EXTENDS ProcessLifecycle, TLC

CONSTANTS s1, s2

MCSymmetry == Permutations(Slot)
=============================================================================
