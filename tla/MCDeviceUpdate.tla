-------------------------- MODULE MCDeviceUpdate --------------------------
(* DeviceUpdate for TLC; its sets are given in the configurations.         *)
EXTENDS DeviceUpdate
=============================================================================
