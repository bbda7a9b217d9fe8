------------------------------- MODULE MCWorld -------------------------------
(* Two indices with two generations, so both are reused and come round     *)
(* while ids of dead entities are still held.                              *)
EXTENDS World, TLC

CONSTANTS t1, t2, v1, v2

MCTypes == {t1, t2}
MCValues == {v1, v2}

Symmetry == Permutations(MCTypes) \cup Permutations(MCValues)

=============================================================================
