---------------------------- MODULE UpdateSlots ----------------------------
(***************************************************************************)
(* What a device of the common framework promises to its clients: a        *)
(* version that is running, at most one that waits for a reset, and at     *)
(* most one on its way, which ends by replacing one of them or leaving     *)
(* both alone.  DeviceUpdate implements it.                                *)
(***************************************************************************)
CONSTANTS Swids, None

VARIABLES
  running,    \* the version the device runs
  staged,     \* the version a reset would bring, or None
  candidate   \* the version being uploaded or written, or None

vars == <<running, staged, candidate>>

Init == running \in Swids /\ staged = None /\ candidate = None

Take(s) ==
  /\ candidate = None /\ s \notin {running, staged}
  /\ candidate' = s
  /\ UNCHANGED <<running, staged>>

Give == candidate # None /\ candidate' = None

Refuse == Give /\ UNCHANGED <<running, staged>>
Apply  == Give /\ running' = candidate /\ staged' = None
Stage  == Give /\ staged' = candidate /\ UNCHANGED running

Next == (\E s \in Swids : Take(s)) \/ Refuse \/ Apply \/ Stage

Spec == Init /\ [][Next]_vars /\ WF_vars(Refuse \/ Apply \/ Stage)
SafeSpec == Init /\ [][Next]_vars
=============================================================================
