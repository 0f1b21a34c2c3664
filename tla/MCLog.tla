------------------------------- MODULE MCLog -------------------------------
(***************************************************************************)
(* Instances of Log for TLC.                                               *)
(***************************************************************************)
EXTENDS Log, TLC

\* Threads and handlers are interchangeable.
LogSymmetry == Permutations(Threads) \cup Permutations(Handlers)
=============================================================================
