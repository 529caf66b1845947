---------------------------- MODULE MCCollector ----------------------------
(***************************************************************************)
(* Three small runs for TLC.  In the deep one browser 1 has two shards,    *)
(* one of them with two IDs, and browser 2 has one; the thin one has the   *)
(* same shards with an ID each; in the flat one each browser has one shard *)
(* that a single call of two IDs covers.  IDs of one shard are             *)
(* interchangeable.                                                        *)
(***************************************************************************)
EXTENDS Collector, TLC

CONSTANTS i1, i2, i3, i4, A, B, C

DeepShards == {A, B, C}
DeepIds == {i1, i2, i3, i4}
DeepAssignedIds == A :> {i1, i2} @@ B :> {i3} @@ C :> {i4}
DeepAssignments == 1 :> <<A, B>> @@ 2 :> <<C>>

FlatShards == {A, C}
FlatIds == {i1, i2, i3}
FlatAssignedIds == A :> {i1, i2} @@ C :> {i3}
FlatAssignments == 1 :> <<A>> @@ 2 :> <<C>>

ThinIds == {i1, i3, i4}
ThinShards == {A, B, C}
ThinAssignedIds == A :> {i1} @@ B :> {i3} @@ C :> {i4}
ThinAssignments == 1 :> <<A, B>> @@ 2 :> <<C>>

SameShard == Permutations({i1, i2})

=============================================================================
