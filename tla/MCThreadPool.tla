---------------------------- MODULE MCThreadPool ----------------------------
(***************************************************************************)
(* Instances of ThreadPool, with its list, for TLC.                        *)
(***************************************************************************)
EXTENDS ThreadPoolQueue, TLC

\* The workers are interchangeable, and so are the tasks that do not end
\* their thread (the runs without liveness use this).
PoolSymmetry == Permutations(Workers) \cup Permutations(Tasks \ ExitTasks)
=============================================================================
