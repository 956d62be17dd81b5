----------------------------- MODULE MCProcess -----------------------------
(* The instance of Process that TLC checks. *)
EXTENDS Process, TLC

\* An application that joins and terminates what it starts, and one that gives
\* environments to what it starts.
TwoUsages == {{"start", "start_and_forget", "join", "terminate", "setuid"},
              {"start", "start_with", "pipe_in", "set"}}

\* Threads are interchangeable, and so are processes, pids and values.
Symmetry == Permutations(Threads) \cup Permutations(Processes)
                \cup Permutations(Numbers) \cup Permutations(Values)
=============================================================================
