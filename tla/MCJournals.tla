----------------------------- MODULE MCJournals -----------------------------
(***************************************************************************)
(* Journals with a batch of two IDs that one call covers.  IDs are only    *)
(* compared with one another, and so are interchangeable.                  *)
(***************************************************************************)
EXTENDS Journals, TLC

Interchangeable == Permutations(Ids)

=============================================================================
