----------------------------- MODULE MCMapFile -----------------------------
(* Objects, descriptor numbers and addresses may be exchanged, for TLC. *)
EXTENDS MapFile, TLC

Symmetry == Permutations(Files) \cup Permutations(Fds) \cup Permutations(Addresses)
=============================================================================
