------------------------------ MODULE MCPdoList ------------------------------
(* Small instances of PdoList for TLC. *)
EXTENDS PdoList, TLC

(* Nothing in PdoList tells one device object, or file object, from another. *)
Symmetry == Permutations(Pdos) \cup Permutations(Handles)
=============================================================================
