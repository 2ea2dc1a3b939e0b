------------------------------ MODULE MCControl ------------------------------
(* Small instances of SessionControl for TLC. *)
EXTENDS SessionControl, TLC

Symmetry == Permutations(Tasks) \cup Permutations(Dogs) \cup Permutations(Stops)
=============================================================================
