----------------------------- MODULE MCScheduler -----------------------------
(* Small workloads for Scheduler: which message belongs to which thread.    *)
EXTENDS Scheduler, TLC

CONSTANTS k1, k2, j1, j2, j3, j4

\* Three messages of one thread: enough for one to be answered, one to be
\* stranded in the worker that is closing and one to start the next session.
ThreeInOneThread == (j1 :> k1) @@ (j2 :> k1) @@ (j3 :> k1)

\* The same with a second thread beside it.
ThreeAndOne == (j1 :> k1) @@ (j2 :> k1) @@ (j3 :> k1) @@ (j4 :> k2)
=============================================================================
