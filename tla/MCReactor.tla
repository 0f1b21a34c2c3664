----------------------------- MODULE MCReactor -----------------------------
(***************************************************************************)
(* Instances of Reactor for TLC.                                           *)
(***************************************************************************)
EXTENDS Reactor, TLC

\* The connections are interchangeable (for the runs without liveness).
BufferSymmetry == Permutations(Buffers)

\* The round in which the queues come apart is followed to its end.
RoundOfApart == apart => pc # "epoll"
=============================================================================
