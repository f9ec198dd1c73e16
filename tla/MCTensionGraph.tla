--------------------------- MODULE MCTensionGraph ---------------------------
(* Instances of TensionGraph for TLC. *)
EXTENDS TensionGraph, TLC

CONSTANTS r1, r2, r3, ann, bob, eve, speed, cost, release

(* Nothing tells two requirements apart, nor two people the graph may name. *)
Sym == Permutations(Requirements) \cup Permutations(Founders)
       \cup Permutations(Stakeholders \ Founders)
=============================================================================
