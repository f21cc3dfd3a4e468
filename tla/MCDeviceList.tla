---------------------------- MODULE MCDeviceList ----------------------------
(***************************************************************************)
(* Instances of DeviceList for TLC.                                        *)
(***************************************************************************)
EXTENDS DeviceList
=============================================================================
