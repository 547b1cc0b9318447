---------------------------- MODULE MCDeviceActivity ----------------------------
(* Instances of DeviceActivity for TLC. *)
EXTENDS DeviceActivity
=============================================================================
