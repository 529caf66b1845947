---------------------------- MODULE MCFetchPool ----------------------------
(* FetchPool on calls of a few IDs; the module has no model values, its    *)
(* slots are ordered and so are not interchangeable.                       *)
EXTENDS FetchPool

=============================================================================
