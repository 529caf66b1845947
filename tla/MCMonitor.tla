------------------------------ MODULE MCMonitor -----------------------------
(***************************************************************************)
(* Monitor over a run of two browsers, one with an ID more than the other. *)
(***************************************************************************)
EXTENDS Monitor, TLC

TwoBrowsers == {1, 2}
UnevenShare == 1 :> 2 @@ 2 :> 1

=============================================================================
