------------------------------- MODULE MCRerun ------------------------------
(***************************************************************************)
(* Rerun with a source of one batch of two IDs that one call covers.  IDs  *)
(* are only compared with one another, and so are interchangeable.         *)
(***************************************************************************)
EXTENDS Rerun, TLC

Interchangeable == Permutations(Ids)

=============================================================================
