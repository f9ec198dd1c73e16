------------------------ MODULE MCRequirementRecord ------------------------
(* Instances of RequirementRecord for TLC. *)
EXTENDS RequirementRecord, TLC

CONSTANTS first, second, ann, eve, clear, check, proof, plan, build

StageOrder == <<plan, build>>

(* Nothing tells two runs of the pipeline apart. *)
Sym == Permutations(Runs)
=============================================================================
