--------------------------- MODULE ServingContract ---------------------------
(***************************************************************************)
(* What the registry promises about the switch "is this MCP server served  *)
(* to clients": it only goes on while an administrator has a request open  *)
(* that asks for it (register, publish, enable).  Anything may turn it     *)
(* off: an administrator, the health checker, a restart.  How the promise  *)
(* is kept, with rows that are read, held and written back by concurrent   *)
(* handlers, is the business of ServerLifecycle.                           *)
(***************************************************************************)
CONSTANT Server

VARIABLES
    asked,      \* servers some open request wants to see served
    serving     \* servers that enterprise clients may call

vars == <<asked, serving>>

Init ==
    /\ asked = {}
    /\ serving = {}

\* An administrator opens a request to serve s.
Ask(s) ==
    /\ asked' = asked \cup {s}
    /\ UNCHANGED serving

\* An open request takes effect.
Release(s) ==
    /\ s \in asked
    /\ serving' = serving \cup {s}
    /\ UNCHANGED asked

\* Servers stop being served, and requests end with or without effect.
Wane ==
    /\ serving' \in SUBSET serving
    /\ asked' \in SUBSET asked

Next ==
    \/ \E s \in Server : Ask(s) \/ Release(s)
    \/ Wane

Spec == Init /\ [][Next]_vars
==============================================================================
