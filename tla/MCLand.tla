------------------------------- MODULE MCLand -------------------------------
(* Instances of Land for TLC. *)
EXTENDS Land

CONSTANTS r1, r2, a1, reqMap
=============================================================================
