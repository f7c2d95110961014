-------------------------- MODULE MCToolCollections --------------------------
(* Instances of ToolCollections for TLC.                                     *)
EXTENDS ToolCollections, TLC

CONSTANTS t1, t2, s1, s2

\* One server with both tools, and two selections of it that differ in what
\* they exclude: a tool comes into a collection by an update as it leaves
\* the other.
OneOwner == [t \in {t1, t2} |-> s1]
Exclusions == {[tools |-> {}, servers |-> {s1}, excluded |-> {t}] : t \in {t1, t2}}

\* Two servers with a tool each, and two selections: the first server, or both.
\* Updates between them empty no list.
TwoOwners == [t \in {t1, t2} |-> IF t = t1 THEN s1 ELSE s2]
Inclusions == {[tools |-> {}, servers |-> S, excluded |-> {}] : S \in {{s1}, {s1, s2}}}

\* Collections differ in nothing but their name.
Symmetry == Permutations(Collection)
==============================================================================
