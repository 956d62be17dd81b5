-------------------------- MODULE MCFIFOConnection --------------------------
(* Connections that may be exchanged for each other, for TLC. *)
EXTENDS FIFOConnection, TLC

Symmetry == Permutations(Connections)
=============================================================================
