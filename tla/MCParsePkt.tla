------------------------------ MODULE MCParsePkt ------------------------------
(* Symmetry for checking ParsePkt with TLC. *)
EXTENDS ParsePkt

Symmetry == Permutations(Payload)
=============================================================================
