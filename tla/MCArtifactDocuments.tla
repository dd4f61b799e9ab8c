------------------------- MODULE MCArtifactDocuments -------------------------
(* Three requests, two generations and one blocking note.                   *)
EXTENDS ArtifactDocuments, TLC

RequestSymmetry == Permutations(Requests)
=============================================================================
