--------------------------- MODULE MCItemUpdater ---------------------------
(* ItemUpdater and the loop of freePriority for TLC: images are            *)
(* interchangeable.                                                        *)
EXTENDS PriorityLoop, TLC

Symmetry == Permutations(Ids)
=============================================================================
