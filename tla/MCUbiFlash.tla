----------------------------- MODULE MCUbiFlash -----------------------------
EXTENDS UbiFlash, TLC
Symmetric == Permutations(Versions)
=============================================================================
