--------------------------- MODULE MCDashboardPages ---------------------------
(* Instances of DashboardPages for TLC.                                      *)
EXTENDS DashboardPages, TLC
==============================================================================
