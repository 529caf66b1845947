---------------------------- MODULE MCCheckpoint ----------------------------
(***************************************************************************)
(* A batch of a few interchangeable IDs.                                   *)
(***************************************************************************)
EXTENDS Checkpoint, TLC

Interchangeable == Permutations(Ids)

=============================================================================
