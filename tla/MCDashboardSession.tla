-------------------------- MODULE MCDashboardSession --------------------------
(* Instances of DashboardSession for TLC.                                    *)
EXTENDS DashboardSession, TLC

CONSTANTS admin, member

\* An administrator and a member share the browser.
TwoRoles == [u \in {admin, member} |-> IF u = admin THEN "system_admin" ELSE "member"]
==============================================================================
