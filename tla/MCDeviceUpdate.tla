---------------------------- MODULE MCDeviceUpdate ----------------------------
(* Instances of DeviceUpdate for TLC: all constants are given in the .cfg.   *)
EXTENDS DeviceUpdate
==============================================================================
