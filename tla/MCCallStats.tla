------------------------------ MODULE MCCallStats ------------------------------
(* Instances of CallStats for TLC.                                            *)
EXTENDS CallStats, TLC

Symmetry == Permutations(Account) \cup Permutations(Name)
==============================================================================
