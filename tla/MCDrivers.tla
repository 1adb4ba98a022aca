----------------------------- MODULE MCDrivers -----------------------------
(* All drivers, one of them in each behaviour.                               *)
EXTENDS DriverUpdate
============================================================================
