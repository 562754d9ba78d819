------------------------------ MODULE MCResidency ------------------------------
(* Finite instances of Residency: the last stage is a head whose runtime     *)
(* footprint is a multiple of its packed weight, the other stages are small. *)
EXTENDS Residency

Head == StageCount - 1

MCWeight == [s \in 0 .. StageCount - 1 |-> IF s = Head THEN 2 ELSE 1]
MCFootprints == [s \in 0 .. StageCount - 1 |-> IF s = Head THEN {4} ELSE {1}]

\* A browser tab with room for some of the pair's stages, and a native host
\* whose weight cache holds less than one runner's stages.
MCHosts == {[ceiling |-> 9, bounded |-> TRUE], [ceiling |-> 2, bounded |-> FALSE]}

\* A tab whose ceiling the carried K/V reaches.
MCTab == {[ceiling |-> 9, bounded |-> TRUE]}
===============================================================================
