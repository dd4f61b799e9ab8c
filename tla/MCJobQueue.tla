----------------------------- MODULE MCJobQueue -----------------------------
(***************************************************************************)
(* A small instance of JobQueue: two tasks of two worker processes.  (Two  *)
(* tasks of one process meet in the runs of RunLifecycle.)                 *)
(***************************************************************************)
EXTENDS JobQueue

CONSTANTS t1, t2, wA, wB

MCWorkerOf == [t \in Tasks |-> IF t = t1 THEN wA ELSE wB]

=============================================================================
