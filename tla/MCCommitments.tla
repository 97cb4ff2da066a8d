--------------------------- MODULE MCCommitments ---------------------------
(* Small instances of Commitments for TLC.                                 *)
EXTENDS Commitments, TLC

Symmetry == Permutations(Ids) \cup Permutations(Owners) \cup Permutations(Tasks)
=============================================================================
