------------------------- MODULE MCSnapshotVersions -------------------------
(***************************************************************************)
(* A small instance of SnapshotVersions.                                   *)
(***************************************************************************)
EXTENDS SnapshotVersions, TLC

\* Requests are interchangeable, and so are blocks.
SnapshotSymmetry == Permutations(Requests) \cup Permutations(Blocks)

=============================================================================
