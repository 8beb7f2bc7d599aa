---------------------------- MODULE MCDeviceTree ----------------------------
(* DeviceTree with three devices. *)
EXTENDS DeviceTree
=============================================================================
