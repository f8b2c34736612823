-------------------------- MODULE MCCheckpointStore --------------------------
(* Small instances of CheckpointStore for TLC.                             *)
EXTENDS CheckpointStore, TLC

ImageSymmetry == Permutations(Images)
=============================================================================
