------------------------------ MODULE MCEngine ------------------------------
(* Small instances of EntertainmentEngine for TLC. *)
EXTENDS EntertainmentEngine, TLC

Symmetry == Permutations(Tasks) \cup Permutations(Callers)
=============================================================================
