------------------------------ MODULE MCGraph ------------------------------
(***************************************************************************)
(* Instances of Graph for TLC.                                             *)
(***************************************************************************)
EXTENDS Graph, TLC

\* Nodes, links and names are told apart by nothing but their identity (the
\* order of the names only shapes the trees, which the model leaves out).
Symmetry == Permutations(Nodes) \cup Permutations(Links) \cup Permutations(Names)
=============================================================================
