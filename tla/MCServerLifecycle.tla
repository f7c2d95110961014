-------------------------- MODULE MCServerLifecycle --------------------------
(* Instances of ServerLifecycle for TLC.                                     *)
EXTENDS ServerLifecycle, TLC

\* Workers differ in nothing but their name, and so do tools.
Symmetry == Permutations(Worker) \cup Permutations(Tool)
==============================================================================
