--------------------------- MODULE MCFlashDevices ---------------------------
(* FlashDevices with two devices of any kinds, as its .cfg files give them. *)
EXTENDS FlashDevices
=============================================================================
