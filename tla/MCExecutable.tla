---------------------------- MODULE MCExecutable ----------------------------
(* The instances of Executable that TLC checks. *)
EXTENDS Executable, TLC

\* A program that writes one unit of data, and one whose errors are more than
\* their pipe holds.
MixedOutputs == {[data |-> 1, error |-> 0], [data |-> 0, error |-> 2]}

\* A program that writes one unit of data.
OneOutput == {[Nothing EXCEPT !["data"] = 1]}

\* Threads are interchangeable, and so are pids.
Symmetry == Permutations(Threads) \cup Permutations(Pids)
=============================================================================
