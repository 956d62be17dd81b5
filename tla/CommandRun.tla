----------------------------- MODULE CommandRun -----------------------------
(***************************************************************************)
(* What Executable::pipe_in gives to one caller: a command is run at most  *)
(* once, and the caller gets all it wrote to standard output if it         *)
(* succeeded, or an exception if it did not.                               *)
(*                                                                         *)
(* A caller may be left without the command's end.  If no pipe could be    *)
(* made or the wait for the command failed it gets an exception, in the    *)
(* latter case while the command may be running.  If no process could be   *)
(* made it gets the empty text of a command that prints nothing.           *)
(***************************************************************************)
EXTENDS Naturals

VARIABLES
    calling,    \* is a call in progress?
    command,    \* "none", "alive", or how the command ended
    printed,    \* how much the command has written to standard output
    answer,     \* whether the call returned or threw, or "none"
    result      \* how much of that the call returned

vars == <<calling, command, printed, answer, result>>

Init ==
    /\ calling = FALSE
    /\ command = "none"
    /\ printed = 0
    /\ answer  = "none"
    /\ result  = 0

\* A new call, or another use of the caller's thread: the last answer goes.
Begin ==
    /\ ~calling
    /\ calling' \in BOOLEAN
    /\ command' = "none"
    /\ printed' = 0
    /\ answer'  = "none"
    /\ result'  = 0

\* The call cannot even begin.
Refuse ==
    /\ ~calling
    /\ calling' = FALSE
    /\ command' = "none"
    /\ printed' = 0
    /\ answer'  = "OksSystemCallIssue"
    /\ result'  = 0

Launch ==
    /\ calling
    /\ command  = "none"
    /\ command' = "alive"
    /\ UNCHANGED <<calling, printed, answer, result>>

Emit ==
    /\ command  = "alive"
    /\ printed' = printed + 1
    /\ UNCHANGED <<calling, command, answer, result>>

End ==
    /\ command  = "alive"
    /\ command' \in {"ok", "fail", "signal"}
    /\ UNCHANGED <<calling, printed, answer, result>>

\* The call ends with the answer a, and returns r of the output.
Answer(a, r) ==
    /\ calling
    /\ calling' = FALSE
    /\ answer'  = a
    /\ result'  = r
    /\ UNCHANGED <<command, printed>>

\* The command succeeded: the caller has all it printed.
Return == command = "ok" /\ Answer("output", printed)

\* The command failed: the caller has an exception, and none of the output.
Throw == \/ command = "fail"   /\ Answer("ExecutionIssue", 0)
         \/ command = "signal" /\ Answer("SignalIssue", 0)

\* The command was not launched: the caller has an empty text nevertheless.
ReturnEmpty == command = "none" /\ Answer("output", 0)

\* The wait for the command failed.
GiveUp == command # "none" /\ Answer("OksSystemCallIssue", 0)

Next == Begin \/ Refuse \/ Launch \/ Emit \/ End \/ Return \/ Throw \/ ReturnEmpty \/ GiveUp

Spec == Init /\ [][Next]_vars
=============================================================================
