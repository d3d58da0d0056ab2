----------------------------- MODULE MCUrbQueue -----------------------------
(* Small instances of UrbQueue for TLC. *)
EXTENDS UrbQueue, TLC

(* URBs are interchangeable: nothing in UrbQueue tells one from another.    *)
Symmetry == Permutations(Urbs)
=============================================================================
