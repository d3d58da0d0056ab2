------------------------------ MODULE MCIoCount ------------------------------
(* Small instances of IoCount for TLC. *)
EXTENDS IoCount, TLC

(* Requests of a kind are interchangeable. *)
Symmetry == Permutations(Ioctls) \cup Permutations(Opens)
=============================================================================
