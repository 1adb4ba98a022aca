------------------------- MODULE MCSoftwareManager -------------------------
(* SoftwareManager for TLC; its sets are given in the configurations.      *)
EXTENDS SoftwareManager
=============================================================================
