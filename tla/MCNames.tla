------------------------------ MODULE MCNames ------------------------------
(* The instance of Names that TLC checks. *)
EXTENDS Names, TLC

\* Threads are interchangeable, and so are Users, Hosts and names to set.
Symmetry == Permutations(Threads) \cup Permutations(Users)
                \cup Permutations(Hosts) \cup Permutations(Labels)
=============================================================================
