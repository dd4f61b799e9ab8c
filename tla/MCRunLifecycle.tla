--------------------------- MODULE MCRunLifecycle ---------------------------
(***************************************************************************)
(* Small instances of RunLifecycle.                                        *)
(***************************************************************************)
EXTENDS RunLifecycle, TLC

CONSTANTS t1, t2, wA, wB, q1, q2

MCWorkerOf == [t \in Tasks |-> IF t = t1 THEN wA ELSE wB]

\* Tasks of one process are interchangeable, and so are requests.
TaskSymmetry == Permutations(Tasks)

RequestSymmetry == Permutations(Requests)

=============================================================================
