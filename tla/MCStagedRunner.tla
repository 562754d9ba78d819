---------------------------- MODULE MCStagedRunner ----------------------------
(* Finite instances of StagedRunner: the runners are interchangeable.       *)
EXTENDS StagedRunner, TLC

RunnerSymmetry == Permutations(Runner)
===============================================================================
