---------------------------- MODULE MCShardTurns ----------------------------
(* Small instances of ShardTurns for TLC.                                  *)
EXTENDS ShardTurns, TLC

Symmetry == Permutations(Messages) \cup Permutations(Shards)
=============================================================================
