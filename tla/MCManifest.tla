----------------------------- MODULE MCManifest -----------------------------
(***************************************************************************)
(* Manifest, and with it Partitioning, on every input file of a few lines. *)
(* IDs are only compared with one another, and so are interchangeable.     *)
(***************************************************************************)
EXTENDS Manifest, TLC

Interchangeable == Permutations(IdLines)

=============================================================================
