------------------------------ MODULE TaskPool ------------------------------
(***************************************************************************)
(* What a worker pool promises its callers: every submitted task waits in  *)
(* submission order, is started exactly once, and is finished after it was *)
(* started.  ThreadPool implements this specification.                     *)
(***************************************************************************)
EXTENDS Naturals, Sequences, Functions

CONSTANT Tasks

VARIABLES
  pending,   \* the submitted tasks that no worker has taken, oldest first
  running    \* the tasks some worker is handling

vars == <<pending, running>>

Init == pending = <<>> /\ running = {}

\* A task that is neither waiting nor running is handed to the pool.
Submit(k) ==
  /\ k \notin Range(pending) \cup running
  /\ pending' = Append(pending, k)
  /\ UNCHANGED running

\* The oldest waiting task is started.
Start ==
  /\ pending # <<>>
  /\ running' = running \cup {Head(pending)}
  /\ pending' = Tail(pending)

Finish(k) ==
  /\ k \in running
  /\ running' = running \ {k}
  /\ UNCHANGED pending

\* A pool with nothing running is brought up anew: what waited is dropped.
Reset ==
  /\ running = {}
  /\ pending' = <<>>
  /\ UNCHANGED running

Next == Start \/ Reset \/ \E k \in Tasks : Submit(k) \/ Finish(k)

Spec == Init /\ [][Next]_vars
=============================================================================
