---------------------------- MODULE MCDeviceTokens ----------------------------
(* Instances of DeviceTokens for TLC.                                        *)
EXTENDS DeviceTokens, TLC
==============================================================================
