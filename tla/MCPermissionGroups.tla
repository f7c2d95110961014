-------------------------- MODULE MCPermissionGroups --------------------------
(* Instances of PermissionGroups for TLC.                                    *)
EXTENDS PermissionGroups, TLC
==============================================================================
