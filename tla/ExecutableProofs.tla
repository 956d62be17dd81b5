-------------------------- MODULE ExecutableProofs --------------------------
(***************************************************************************)
(* What holds of every launch, for any number of threads and processes and *)
(* any size of pipes and outputs.                                          *)
(*                                                                         *)
(* The safety properties of Executable are not inductive: whether a child  *)
(* may unmask depends on the mask its thread saved before the fork, and    *)
(* whether a zombie may be left depends on when SIGCLD was ignored.  IInv  *)
(* keeps what the code knows at each point of a call and at each stage of  *)
(* a child.                                                                *)
(*                                                                         *)
(* Of pipe_in two arguments meet.  The process a call reads from is the    *)
(* one it has launched and reaped.  And what a program has written is in   *)
(* its pipes until the call that launched it has read them, so that a      *)
(* program that has ended well, with nothing left to write, has filled     *)
(* them with all of its output.  What a call shows of its command then     *)
(* moves as CommandRun says, whatever the other calls do: Run(t) maps to   *)
(* it.                                                                     *)
(*                                                                         *)
(* Any number of joins may wait for one process.  ToldInv follows its end: *)
(* it goes to one of them, and the others find the process gone.           *)
(***************************************************************************)
EXTENDS Executable, TLAPS

\* What a call knows at each point: its process, its method, and the masks.
CallInv ==
    \A t \in Threads :
        /\ pc[t] \in {"restore", "close", "wait", "copy"} => child[t] \in Pids
        /\ pc[t] \in {"fork", "restore"} =>
              /\ method[t] \in LaunchMethods
              /\ sigmask[t] = "all"
              /\ old_set[t] = "all" => t \in openFailed
              /\ method[t] = "start_and_forget" => sigcld = "ignored"
        /\ pc[t] \notin {"fork", "restore"} =>
              (sigmask[t] = "all" => t \in openFailed)

\* What is true of a child at each stage from the fork to its program.
ChildInv ==
    \A p \in Pids :
        /\ handlers[p] = "parent" => state[p] = "forked"
        /\ state[p] \in {"forked", "defaulted"} =>
              /\ mask[p] = "all"
              /\ saved[p] = "all" => launcher[p] \in openFailed
        /\ state[p] \in {"unmasked", "running"} =>
              (mask[p] = "all" => launcher[p] \in openFailed)
        /\ p \in term => p \in Alive

\* What start_and_forget leaves behind.
ForgetInv ==
    \A p \in Pids :
        by[p] = "start_and_forget" =>
            /\ sigcld = "ignored"
            /\ state[p] # "zombie"
            /\ state[p] \in {"defaulted", "unmasked", "running"} =>
                  cld[p] = "default"

IInv == TypeOK /\ CallInv /\ ChildInv /\ ForgetInv

-----------------------------------------------------------------------------
\* The application starts in the invariant.
LEMMA InitInv == Init => IInv
  BY DEF Init, IInv, TypeOK, CallsTypeOK, ProcsTypeOK, PipesTypeOK, CallInv, ChildInv, ForgetInv, Alive, Nothing,
         Streams, Points, Masks, Stages, Dispositions, Outcomes, LaunchMethods

\* A program that writes nothing writes an amount on each stream.
LEMMA NothingType == Nothing \in [Streams -> Nat]
  BY DEF Nothing

\* However a process ended, join has an outcome for it.
LEMMA JoinOutcomeType ==
  ASSUME NEW throw_non_zero \in BOOLEAN, NEW e \in {"none", "ok", "fail", "signal"}
  PROVE  JoinOutcome(throw_non_zero, e) \in {"status", "SignalIssue", "TerminationIssue"}
  BY Zenon DEF JoinOutcome

\* What a process does by itself.
ProcessStep(p) == ChildStep(p) \/ ProgramStep(p) \/ SendTerm(p) \/ DeliverTerm(p)

\* No process touches the calls of the application.
LEMMA ProcessFrame ==
  ASSUME NEW p \in Pids, ProcessStep(p)
  PROVE  UNCHANGED callVars
  BY DEF ProcessStep, ChildStep, ProgramStep, ChildDefaults, ChildUnmasks, ChildExecs,
         ChildExecFails, Write, ProgramExits, SendTerm, DeliverTerm, End

\* The steps of the calls that leave the processes alone.
Quiet(t) ==
    \/ Call(t) \/ ForkFails(t) \/ Restore(t) \/ CloseWriteEnds(t)
    \/ JoinFails(t) \/ JoinInterrupted(t) \/ CopyOutput(t)

\* Such a step leaves every process as it is.
LEMMA QuietFrame ==
  ASSUME NEW t \in Threads, Quiet(t)
  PROVE  UNCHANGED procVars
  BY DEF Quiet, Call, Start, StartAndForget, PipeOut, OpenFails, PipeIn, PipesFail,
         Join, ForkFails, Restore, CloseWriteEnds, JoinFails, JoinInterrupted,
         CopyOutput

\* Every step keeps the types of the calls.
LEMMA CallsTypeStep == IInv /\ [Next]_vars => CallsTypeOK'
<1> SUFFICES ASSUME IInv PROVE [Next]_vars => CallsTypeOK'
  OBVIOUS
<1> USE DEF IInv, TypeOK, CallsTypeOK, Points, Masks, Dispositions, Outcomes,
        LaunchMethods
<1> USE DEF callVars, procVars, pipeVars
<1>1. ASSUME NEW t \in Threads, Start(t)
      PROVE  CallsTypeOK'
  BY <1>1 DEF Start, Begin, Goto, Block
<1>2. ASSUME NEW t \in Threads, StartAndForget(t)
      PROVE  CallsTypeOK'
  BY <1>2 DEF StartAndForget, Begin, Goto, Block
<1>3. ASSUME NEW t \in Threads, PipeOut(t)
      PROVE  CallsTypeOK'
  BY <1>3 DEF PipeOut, Begin, Goto, Block
<1>4. ASSUME NEW t \in Threads, OpenFails(t)
      PROVE  CallsTypeOK'
  BY <1>4 DEF OpenFails
<1>5. ASSUME NEW t \in Threads, PipeIn(t)
      PROVE  CallsTypeOK'
  BY <1>5 DEF PipeIn, Begin, Goto, Block
<1>6. ASSUME NEW t \in Threads, PipesFail(t)
      PROVE  CallsTypeOK'
  BY <1>6 DEF PipesFail
<1>7. ASSUME NEW t \in Threads, NEW p \in Pids, Join(t, p)
      PROVE  CallsTypeOK'
  BY <1>7 DEF Join, Goto
<1>8. ASSUME NEW t \in Threads, NEW p \in Pids, Fork(t, p)
      PROVE  CallsTypeOK'
  BY <1>8 DEF Fork, Goto
<1>9. ASSUME NEW t \in Threads, ForkFails(t)
      PROVE  CallsTypeOK'
  BY <1>9 DEF ForkFails, Unblock, Finish, Goto
<1>10. ASSUME NEW t \in Threads, Restore(t)
      PROVE  CallsTypeOK'
  <2>1. child[t] \in Pids
    BY <1>10 DEF Restore, CallInv
  <2>2. handles' \in SUBSET Pids
    BY <1>10, <2>1 DEF Restore, Finish
  <2>3. CASE method[t] = "pipe_in"
    BY <1>10, <2>2, <2>3 DEF Restore, Unblock, Goto
  <2>4. CASE method[t] # "pipe_in"
    BY <1>10, <2>2, <2>4 DEF Restore, Unblock, Finish, Goto
  <2> QED
    BY <2>3, <2>4
<1>11. ASSUME NEW t \in Threads, CloseWriteEnds(t)
      PROVE  CallsTypeOK'
  BY <1>11 DEF CloseWriteEnds, Goto
<1>12. ASSUME NEW t \in Threads, JoinReaps(t)
      PROVE  CallsTypeOK'
  <2>0. told' \in SUBSET Pids
    BY <1>12 DEF JoinReaps, CallInv
  <2>1. CASE method[t] = "pipe_in" /\ exit[child[t]] # "signal"
    BY <1>12, <2>0, <2>1 DEF JoinReaps, Goto
  <2>2. CASE ~(method[t] = "pipe_in" /\ exit[child[t]] # "signal")
    <3>1. PICK throw_non_zero \in BOOLEAN :
               Finish(t, JoinOutcome(throw_non_zero, exit[child[t]]))
      BY <1>12, <2>2 DEF JoinReaps
    <3>2. JoinOutcome(throw_non_zero, exit[child[t]]) \in Outcomes
      <4>1. child[t] \in Pids
        BY <1>12 DEF JoinReaps, CallInv
      <4>2. exit[child[t]] \in {"none", "ok", "fail", "signal"}
        BY <4>1 DEF ProcsTypeOK
      <4> QED
        BY <4>2, JoinOutcomeType
    <3> QED
      BY <1>12, <2>0, <3>1, <3>2 DEF JoinReaps, Finish, Goto
  <2> QED
    BY <2>1, <2>2
<1>13. ASSUME NEW t \in Threads, JoinFails(t)
      PROVE  CallsTypeOK'
  BY <1>13 DEF JoinFails, Finish, Goto
<1>14. ASSUME NEW t \in Threads, JoinInterrupted(t)
      PROVE  CallsTypeOK'
  BY <1>14 DEF JoinInterrupted, Finish, Goto
<1>15. ASSUME NEW t \in Threads, CopyOutput(t)
      PROVE  CallsTypeOK'
  BY <1>15 DEF CopyOutput, Finish, Goto
<1>16. ASSUME NEW p \in Pids, ProcessStep(p)
      PROVE  CallsTypeOK'
  BY <1>16, ProcessFrame
<1>17. ASSUME UNCHANGED vars PROVE CallsTypeOK'
  BY <1>17 DEF vars
<1> QED
  BY <1>1, <1>2, <1>3, <1>4, <1>5, <1>6, <1>7, <1>8, <1>9, <1>10, <1>11,
     <1>12, <1>13, <1>14, <1>15, <1>16, <1>17
     DEF Next, Call, ThreadStep, ProcessStep

\* Every step keeps the types of the processes.
LEMMA ProcsTypeStep == IInv /\ [Next]_vars => ProcsTypeOK'
<1> SUFFICES ASSUME IInv PROVE [Next]_vars => ProcsTypeOK'
  OBVIOUS
<1> USE DEF IInv, TypeOK, ProcsTypeOK, Masks, Stages, Dispositions
<1> USE DEF callVars, procVars, pipeVars
<1>1. ASSUME NEW t \in Threads, NEW p \in Pids, Fork(t, p)
      PROVE  ProcsTypeOK'
  <2>1. method[t] \in LaunchMethods
    BY <1>1 DEF Fork, CallInv
  <2>2. sigmask[t] \in Masks /\ old_set[t] \in Masks /\ sigcld \in Dispositions
    BY DEF CallsTypeOK
  <2> QED
    BY <1>1, <2>1, <2>2 DEF Fork
<1>2. ASSUME NEW t \in Threads, JoinReaps(t)
      PROVE  ProcsTypeOK'
  BY <1>2 DEF JoinReaps
<1>3. ASSUME NEW p \in Pids, ChildDefaults(p)
      PROVE  ProcsTypeOK'
  BY <1>3 DEF ChildDefaults
<1>4. ASSUME NEW p \in Pids, ChildUnmasks(p)
      PROVE  ProcsTypeOK'
  BY <1>4 DEF ChildUnmasks
<1>5. ASSUME NEW p \in Pids, ChildExecs(p)
      PROVE  ProcsTypeOK'
  BY <1>5, NothingType, OutputsAssumption DEF ChildExecs
<1>6. ASSUME NEW p \in Pids, ChildExecFails(p)
      PROVE  ProcsTypeOK'
  BY <1>6 DEF ChildExecFails, End
<1>7. ASSUME NEW p \in Pids, NEW s \in Streams, Write(p, s)
      PROVE  ProcsTypeOK'
  <2>1. todo[p] \in [Streams -> Nat]
    OBVIOUS
  <2>2. todo' = [todo EXCEPT ![p] = [todo[p] EXCEPT ![s] = @ - 1]]
    BY <1>7 DEF Write
  <2>3. todo[p][s] - 1 \in Nat
    BY <1>7, <2>1 DEF Write
  <2>4. [todo[p] EXCEPT ![s] = @ - 1] \in [Streams -> Nat]
    BY <2>1, <2>3
  <2>5. todo' \in [Pids -> [Streams -> Nat]]
    BY <2>2, <2>4
  <2> QED
    BY <1>7, <2>5 DEF Write
<1>8. ASSUME NEW p \in Pids, ProgramExits(p)
      PROVE  ProcsTypeOK'
  BY <1>8 DEF ProgramExits, End
<1>9. ASSUME NEW p \in Pids, SendTerm(p)
      PROVE  ProcsTypeOK'
  BY <1>9 DEF SendTerm
<1>10. ASSUME NEW p \in Pids, DeliverTerm(p)
      PROVE  ProcsTypeOK'
  BY <1>10 DEF DeliverTerm, End
<1>11. ASSUME NEW t \in Threads, Quiet(t)
      PROVE  ProcsTypeOK'
  BY <1>11, QuietFrame
<1>12. ASSUME UNCHANGED vars PROVE ProcsTypeOK'
  BY <1>12 DEF vars
<1> QED
  BY <1>1, <1>2, <1>3, <1>4, <1>5, <1>6, <1>7, <1>8, <1>9, <1>10, <1>11,
     <1>12
     DEF Next, ThreadStep, Quiet, ChildStep, ProgramStep

\* Every step keeps the types of the pipes.
LEMMA PipesTypeStep == IInv /\ [Next]_vars => PipesTypeOK'
<1> SUFFICES ASSUME IInv PROVE [Next]_vars => PipesTypeOK'
  OBVIOUS
<1> USE DEF IInv, TypeOK, PipesTypeOK
<1> USE DEF callVars, procVars, pipeVars
<1>1. ASSUME NEW t \in Threads, Start(t)
      PROVE  PipesTypeOK'
  BY <1>1 DEF Start
<1>2. ASSUME NEW t \in Threads, StartAndForget(t)
      PROVE  PipesTypeOK'
  BY <1>2 DEF StartAndForget
<1>3. ASSUME NEW t \in Threads, PipeOut(t)
      PROVE  PipesTypeOK'
  BY <1>3 DEF PipeOut
<1>4. ASSUME NEW t \in Threads, OpenFails(t)
      PROVE  PipesTypeOK'
  BY <1>4 DEF OpenFails
<1>5. ASSUME NEW t \in Threads, PipeIn(t)
      PROVE  PipesTypeOK'
  BY <1>5, NothingType DEF PipeIn
<1>6. ASSUME NEW t \in Threads, PipesFail(t)
      PROVE  PipesTypeOK'
  <2>1. PICK made \in {{}, {"input"}, {"input", "data"}} :
               open' = [open EXCEPT ![t] = made \X {"read", "write"}]
    BY <1>6 DEF PipesFail
  <2>2. made \X {"read", "write"} \subseteq Ends
    BY DEF Ends, Pipes
  <2>3. open' \in [Threads -> SUBSET Ends]
    BY <2>1, <2>2
  <2> QED
    BY <1>6, <2>3, NothingType DEF PipesFail
<1>7. ASSUME NEW t \in Threads, NEW p \in Pids, Join(t, p)
      PROVE  PipesTypeOK'
  BY <1>7 DEF Join
<1>8. ASSUME NEW t \in Threads, NEW p \in Pids, Fork(t, p)
      PROVE  PipesTypeOK'
  BY <1>8 DEF Fork
<1>9. ASSUME NEW t \in Threads, ForkFails(t)
      PROVE  PipesTypeOK'
  BY <1>9 DEF ForkFails
<1>10. ASSUME NEW t \in Threads, Restore(t)
      PROVE  PipesTypeOK'
  BY <1>10 DEF Restore
<1>11. ASSUME NEW t \in Threads, CloseWriteEnds(t)
      PROVE  PipesTypeOK'
  BY <1>11 DEF CloseWriteEnds
<1>12. ASSUME NEW t \in Threads, JoinReaps(t)
      PROVE  PipesTypeOK'
  BY <1>12 DEF JoinReaps
<1>13. ASSUME NEW t \in Threads, JoinFails(t)
      PROVE  PipesTypeOK'
  BY <1>13 DEF JoinFails
<1>14. ASSUME NEW t \in Threads, JoinInterrupted(t)
      PROVE  PipesTypeOK'
  BY <1>14 DEF JoinInterrupted
<1>15. ASSUME NEW t \in Threads, CopyOutput(t)
      PROVE  PipesTypeOK'
  <2>1. child[t] \in Pids
    BY <1>15 DEF CopyOutput, CallInv
  <2> QED
    BY <1>15, <2>1, NothingType DEF CopyOutput
<1>16. ASSUME NEW p \in Pids, ChildDefaults(p)
      PROVE  PipesTypeOK'
  BY <1>16 DEF ChildDefaults
<1>17. ASSUME NEW p \in Pids, ChildUnmasks(p)
      PROVE  PipesTypeOK'
  BY <1>17 DEF ChildUnmasks
<1>18. ASSUME NEW p \in Pids, ChildExecs(p)
      PROVE  PipesTypeOK'
  BY <1>18 DEF ChildExecs
<1>19. ASSUME NEW p \in Pids, ChildExecFails(p)
      PROVE  PipesTypeOK'
  BY <1>19 DEF ChildExecFails, End
<1>20. ASSUME NEW p \in Pids, NEW s \in Streams, Write(p, s)
      PROVE  PipesTypeOK'
  <2>1. fill[p] \in [Streams -> Nat]
    OBVIOUS
  <2>2. fill' = [fill EXCEPT ![p] = [fill[p] EXCEPT ![s] = @ + 1]]
    BY <1>20 DEF Write
  <2>3. [fill[p] EXCEPT ![s] = @ + 1] \in [Streams -> Nat]
    BY <2>1
  <2>4. fill' \in [Pids -> [Streams -> Nat]]
    BY <2>2, <2>3
  <2> QED
    BY <1>20, <2>4 DEF Write
<1>21. ASSUME NEW p \in Pids, ProgramExits(p)
      PROVE  PipesTypeOK'
  BY <1>21 DEF ProgramExits, End
<1>22. ASSUME NEW p \in Pids, SendTerm(p)
      PROVE  PipesTypeOK'
  BY <1>22 DEF SendTerm
<1>23. ASSUME NEW p \in Pids, DeliverTerm(p)
      PROVE  PipesTypeOK'
  BY <1>23 DEF DeliverTerm, End
<1>24. ASSUME UNCHANGED vars PROVE PipesTypeOK'
  BY <1>24 DEF vars
<1> QED
  BY <1>1, <1>2, <1>3, <1>4, <1>5, <1>6, <1>7, <1>8, <1>9, <1>10, <1>11,
     <1>12, <1>13, <1>14, <1>15, <1>16, <1>17, <1>18, <1>19, <1>20, <1>21,
     <1>22, <1>23, <1>24
     DEF Next, Call, ThreadStep, ChildStep, ProgramStep

\* Every step keeps what the calls know.
LEMMA CallStepInv == IInv /\ [Next]_vars => CallInv'
<1> SUFFICES ASSUME IInv PROVE [Next]_vars => CallInv'
  OBVIOUS
<1> USE DEF IInv, TypeOK, CallsTypeOK, CallInv, LaunchMethods, Points, Masks
<1> USE DEF callVars
<1>1. ASSUME NEW t \in Threads, Start(t)
      PROVE  CallInv'
  BY <1>1 DEF Start, Begin, Goto, Block
<1>2. ASSUME NEW t \in Threads, StartAndForget(t)
      PROVE  CallInv'
  BY <1>2 DEF StartAndForget, Begin, Goto, Block
<1>3. ASSUME NEW t \in Threads, PipeOut(t)
      PROVE  CallInv'
  BY <1>3 DEF PipeOut, Begin, Goto, Block
<1>4. ASSUME NEW t \in Threads, OpenFails(t)
      PROVE  CallInv'
  BY <1>4 DEF OpenFails
<1>5. ASSUME NEW t \in Threads, PipeIn(t)
      PROVE  CallInv'
  BY <1>5 DEF PipeIn, Begin, Goto, Block
<1>6. ASSUME NEW t \in Threads, PipesFail(t)
      PROVE  CallInv'
  BY <1>6 DEF PipesFail
<1>7. ASSUME NEW t \in Threads, NEW p \in Pids, Join(t, p)
      PROVE  CallInv'
  BY <1>7 DEF Join, Goto
<1>8. ASSUME NEW t \in Threads, NEW p \in Pids, Fork(t, p)
      PROVE  CallInv'
  BY <1>8 DEF Fork, Goto
<1>9. ASSUME NEW t \in Threads, ForkFails(t)
      PROVE  CallInv'
  BY <1>9 DEF ForkFails, Unblock, Finish, Goto
<1>10. ASSUME NEW t \in Threads, Restore(t)
      PROVE  CallInv'
  BY <1>10 DEF Restore, Unblock, Finish, Goto
<1>11. ASSUME NEW t \in Threads, CloseWriteEnds(t)
      PROVE  CallInv'
  BY <1>11 DEF CloseWriteEnds, Goto
<1>12. ASSUME NEW t \in Threads, JoinReaps(t)
      PROVE  CallInv'
  BY <1>12 DEF JoinReaps, JoinOutcome, Finish, Goto
<1>13. ASSUME NEW t \in Threads, JoinFails(t)
      PROVE  CallInv'
  BY <1>13 DEF JoinFails, Finish, Goto
<1>14. ASSUME NEW t \in Threads, JoinInterrupted(t)
      PROVE  CallInv'
  BY <1>14 DEF JoinInterrupted, Finish, Goto
<1>15. ASSUME NEW t \in Threads, CopyOutput(t)
      PROVE  CallInv'
  BY <1>15 DEF CopyOutput, Finish, Goto
<1>16. ASSUME NEW p \in Pids, ProcessStep(p)
      PROVE  CallInv'
  BY <1>16, ProcessFrame
<1>17. ASSUME UNCHANGED vars PROVE CallInv'
  BY <1>17 DEF vars
<1> QED
  BY <1>1, <1>2, <1>3, <1>4, <1>5, <1>6, <1>7, <1>8, <1>9, <1>10, <1>11,
     <1>12, <1>13, <1>14, <1>15, <1>16, <1>17
     DEF Next, Call, ThreadStep, ProcessStep

\* Every step keeps what is true of the children.
LEMMA ChildStepInv == IInv /\ [Next]_vars => ChildInv'
<1> SUFFICES ASSUME IInv PROVE [Next]_vars => ChildInv'
  OBVIOUS
<1> USE DEF IInv, TypeOK, CallsTypeOK, ProcsTypeOK, ChildInv, Alive, Masks
<1> USE DEF callVars, procVars
<1>1. ASSUME NEW t \in Threads, Start(t)
      PROVE  ChildInv'
  BY <1>1 DEF Start
<1>2. ASSUME NEW t \in Threads, StartAndForget(t)
      PROVE  ChildInv'
  BY <1>2 DEF StartAndForget
<1>3. ASSUME NEW t \in Threads, PipeOut(t)
      PROVE  ChildInv'
  BY <1>3 DEF PipeOut
<1>4. ASSUME NEW t \in Threads, OpenFails(t)
      PROVE  ChildInv'
  BY <1>4 DEF OpenFails
<1>5. ASSUME NEW t \in Threads, PipeIn(t)
      PROVE  ChildInv'
  BY <1>5 DEF PipeIn
<1>6. ASSUME NEW t \in Threads, PipesFail(t)
      PROVE  ChildInv'
  BY <1>6 DEF PipesFail
<1>7. ASSUME NEW t \in Threads, NEW p \in Pids, Join(t, p)
      PROVE  ChildInv'
  BY <1>7 DEF Join
<1>8. ASSUME NEW t \in Threads, NEW p \in Pids, Fork(t, p)
      PROVE  ChildInv'
  BY <1>8 DEF Fork, CallInv
<1>9. ASSUME NEW t \in Threads, ForkFails(t)
      PROVE  ChildInv'
  BY <1>9 DEF ForkFails
<1>10. ASSUME NEW t \in Threads, Restore(t)
      PROVE  ChildInv'
  BY <1>10 DEF Restore
<1>11. ASSUME NEW t \in Threads, CloseWriteEnds(t)
      PROVE  ChildInv'
  BY <1>11 DEF CloseWriteEnds
<1>12. ASSUME NEW t \in Threads, JoinReaps(t)
      PROVE  ChildInv'
  BY <1>12 DEF JoinReaps
<1>13. ASSUME NEW t \in Threads, JoinFails(t)
      PROVE  ChildInv'
  BY <1>13 DEF JoinFails
<1>14. ASSUME NEW t \in Threads, JoinInterrupted(t)
      PROVE  ChildInv'
  BY <1>14 DEF JoinInterrupted
<1>15. ASSUME NEW t \in Threads, CopyOutput(t)
      PROVE  ChildInv'
  BY <1>15 DEF CopyOutput
<1>16. ASSUME NEW p \in Pids, ChildDefaults(p)
      PROVE  ChildInv'
  BY <1>16 DEF ChildDefaults
<1>17. ASSUME NEW p \in Pids, ChildUnmasks(p)
      PROVE  ChildInv'
  BY <1>17 DEF ChildUnmasks
<1>18. ASSUME NEW p \in Pids, ChildExecs(p)
      PROVE  ChildInv'
  BY <1>18 DEF ChildExecs
<1>19. ASSUME NEW p \in Pids, ChildExecFails(p)
      PROVE  ChildInv'
  BY <1>19 DEF ChildExecFails, End
<1>20. ASSUME NEW p \in Pids, NEW s \in Streams, Write(p, s)
      PROVE  ChildInv'
  BY <1>20 DEF Write
<1>21. ASSUME NEW p \in Pids, ProgramExits(p)
      PROVE  ChildInv'
  BY <1>21 DEF ProgramExits, End
<1>22. ASSUME NEW p \in Pids, SendTerm(p)
      PROVE  ChildInv'
  BY <1>22 DEF SendTerm, Alive
<1>23. ASSUME NEW p \in Pids, DeliverTerm(p)
      PROVE  ChildInv'
  BY <1>23 DEF DeliverTerm, End
<1>24. ASSUME UNCHANGED vars PROVE ChildInv'
  BY <1>24 DEF vars
<1> QED
  BY <1>1, <1>2, <1>3, <1>4, <1>5, <1>6, <1>7, <1>8, <1>9, <1>10, <1>11,
     <1>12, <1>13, <1>14, <1>15, <1>16, <1>17, <1>18, <1>19, <1>20, <1>21,
     <1>22, <1>23, <1>24
     DEF Next, Call, ThreadStep, ChildStep, ProgramStep

\* Every step keeps what start_and_forget leaves behind.
LEMMA ForgetStepInv == IInv /\ [Next]_vars => ForgetInv'
<1> SUFFICES ASSUME IInv PROVE [Next]_vars => ForgetInv'
  OBVIOUS
<1> USE DEF IInv, TypeOK, CallsTypeOK, ProcsTypeOK, ForgetInv
<1> USE DEF callVars, procVars
<1>1. ASSUME NEW t \in Threads, Start(t)
      PROVE  ForgetInv'
  BY <1>1 DEF Start
<1>2. ASSUME NEW t \in Threads, StartAndForget(t)
      PROVE  ForgetInv'
  BY <1>2 DEF StartAndForget
<1>3. ASSUME NEW t \in Threads, PipeOut(t)
      PROVE  ForgetInv'
  BY <1>3 DEF PipeOut
<1>4. ASSUME NEW t \in Threads, OpenFails(t)
      PROVE  ForgetInv'
  BY <1>4 DEF OpenFails
<1>5. ASSUME NEW t \in Threads, PipeIn(t)
      PROVE  ForgetInv'
  BY <1>5 DEF PipeIn
<1>6. ASSUME NEW t \in Threads, PipesFail(t)
      PROVE  ForgetInv'
  BY <1>6 DEF PipesFail
<1>7. ASSUME NEW t \in Threads, NEW p \in Pids, Join(t, p)
      PROVE  ForgetInv'
  BY <1>7 DEF Join
<1>8. ASSUME NEW t \in Threads, NEW p \in Pids, Fork(t, p)
      PROVE  ForgetInv'
  BY <1>8 DEF Fork, CallInv, LaunchMethods
<1>9. ASSUME NEW t \in Threads, ForkFails(t)
      PROVE  ForgetInv'
  BY <1>9 DEF ForkFails
<1>10. ASSUME NEW t \in Threads, Restore(t)
      PROVE  ForgetInv'
  BY <1>10 DEF Restore
<1>11. ASSUME NEW t \in Threads, CloseWriteEnds(t)
      PROVE  ForgetInv'
  BY <1>11 DEF CloseWriteEnds
<1>12. ASSUME NEW t \in Threads, JoinReaps(t)
      PROVE  ForgetInv'
  BY <1>12 DEF JoinReaps
<1>13. ASSUME NEW t \in Threads, JoinFails(t)
      PROVE  ForgetInv'
  BY <1>13 DEF JoinFails
<1>14. ASSUME NEW t \in Threads, JoinInterrupted(t)
      PROVE  ForgetInv'
  BY <1>14 DEF JoinInterrupted
<1>15. ASSUME NEW t \in Threads, CopyOutput(t)
      PROVE  ForgetInv'
  BY <1>15 DEF CopyOutput
<1>16. ASSUME NEW p \in Pids, ChildDefaults(p)
      PROVE  ForgetInv'
  BY <1>16 DEF ChildDefaults
<1>17. ASSUME NEW p \in Pids, ChildUnmasks(p)
      PROVE  ForgetInv'
  BY <1>17 DEF ChildUnmasks
<1>18. ASSUME NEW p \in Pids, ChildExecs(p)
      PROVE  ForgetInv'
  BY <1>18 DEF ChildExecs
<1>19. ASSUME NEW p \in Pids, ChildExecFails(p)
      PROVE  ForgetInv'
  BY <1>19 DEF ChildExecFails, End
<1>20. ASSUME NEW p \in Pids, NEW s \in Streams, Write(p, s)
      PROVE  ForgetInv'
  BY <1>20 DEF Write
<1>21. ASSUME NEW p \in Pids, ProgramExits(p)
      PROVE  ForgetInv'
  BY <1>21 DEF ProgramExits, End
<1>22. ASSUME NEW p \in Pids, SendTerm(p)
      PROVE  ForgetInv'
  BY <1>22 DEF SendTerm
<1>23. ASSUME NEW p \in Pids, DeliverTerm(p)
      PROVE  ForgetInv'
  BY <1>23 DEF DeliverTerm, End
<1>24. ASSUME UNCHANGED vars PROVE ForgetInv'
  BY <1>24 DEF vars
<1> QED
  BY <1>1, <1>2, <1>3, <1>4, <1>5, <1>6, <1>7, <1>8, <1>9, <1>10, <1>11,
     <1>12, <1>13, <1>14, <1>15, <1>16, <1>17, <1>18, <1>19, <1>20, <1>21,
     <1>22, <1>23, <1>24
     DEF Next, Call, ThreadStep, ChildStep, ProgramStep

\* The invariant is inductive.
LEMMA NextInv == IInv /\ [Next]_vars => IInv'
  BY CallsTypeStep, ProcsTypeStep, PipesTypeStep, CallStepInv, ChildStepInv,
     ForgetStepInv DEF IInv, TypeOK

\* The invariant holds in every state of every application.
THEOREM Invariance == Spec => []IInv
  BY InitInv, NextInv, PTL DEF Spec

-----------------------------------------------------------------------------
\* The variables have their types in every state of every application.
THEOREM TypeCorrect == Spec => []TypeOK
<1>1. IInv => TypeOK
  BY DEF IInv
<1> QED
  BY <1>1, Invariance, PTL

\* No TERM ever runs a handler of the application in a child.
THEOREM OwnHandlers == Spec => []OwnHandlersOnly
<1>1. IInv => OwnHandlersOnly
  BY DEF IInv, ChildInv, OwnHandlersOnly, Alive, TypeOK, ProcsTypeOK, Masks
<1> QED
  BY <1>1, Invariance, PTL

\* Every launch restores the mask of its thread, but a pipe_out that cannot open
\* a file.
THEOREM MaskIsRestored == Spec => []MaskRestored
<1>1. IInv => MaskRestored
  BY DEF IInv, CallInv, MaskRestored
<1> QED
  BY <1>1, Invariance, PTL

\* No program has its signals blocked, but those launched from a thread whose
\* mask such a pipe_out lost.
THEOREM ProgramsAreSignalled == Spec => []ProgramsTakeSignals
<1>1. IInv => ProgramsTakeSignals
  BY DEF IInv, ChildInv, ProgramsTakeSignals
<1> QED
  BY <1>1, Invariance, PTL

\* start_and_forget leaves no zombie, however calls of other threads interleave,
\* and its programs can wait for their own children.
THEOREM ForgottenAreForgotten == Spec => []ForgottenForGood
<1>1. IInv => ForgottenForGood
  BY DEF IInv, ForgetInv, ForgottenForGood
<1> QED
  BY <1>1, Invariance, PTL

-----------------------------------------------------------------------------
(* Joining and pipe_in *)

Busy == {"restore", "close", "wait"}

\* What is waited for, or can be, has been forked.
JoinInv ==
    /\ \A t \in Threads : pc[t] \in Busy => state[child[t]] # "unused"
    /\ \A p \in handles : state[p] # "unused"

\* A pipe_in call reads from the process it has launched and reaped.
RunInv ==
    \A t \in Threads :
        /\ pc[t] \in {"close", "copy"} => method[t] = "pipe_in"
        /\ pc[t] \in Busy /\ method[t] = "pipe_in" => launcher[child[t]] = t
        /\ pc[t] = "copy" => launcher[child[t]] = t /\ state[child[t]] = "gone"
        /\ pc[t] # "idle" => outcome[t] = "none"

\* The pipes of p have been read, or never will be.
Drained(p) ==
    state[p] = "gone" /\ ~(pc[launcher[p]] = "copy" /\ child[launcher[p]] = p)

\* What a program has written is in its pipes until they are read.
FlowInv ==
    \A p \in Pids :
        /\ state[p] # "unused" => launcher[p] \in Threads
        /\ state[p] \in {"unused", "forked", "defaulted", "unmasked"} =>
              fill[p] = Nothing /\ load[p] = Nothing /\ todo[p] = Nothing
        /\ ~Drained(p) => \A s \in Streams : fill[p][s] + todo[p][s] = load[p][s]
        /\ exit[p] # "none" => state[p] \in {"zombie", "gone"}
        /\ exit[p] = "ok" => todo[p] = Nothing

\* What a call returned is the output of a program that has ended well, or
\* nothing if there is no program.
ResultInv ==
    \A t \in Threads :
        /\ pc[t] = "fork" /\ method[t] = "pipe_in" =>
              child[t] = NoPid /\ got[t] = Nothing
        /\ outcome[t] = "output" =>
              \/ child[t] = NoPid /\ got[t] = Nothing
              \/ /\ child[t] \in Pids
                 /\ state[child[t]] = "gone"
                 /\ exit[child[t]] = "ok"
                 /\ got[t] = load[child[t]]

PipeInInv == IInv /\ JoinInv /\ RunInv /\ FlowInv /\ ResultInv

-----------------------------------------------------------------------------
\* The application starts in the invariant of joins and outputs.
LEMMA InitPipeInInv == Init => PipeInInv
  BY InitInv, NothingType
     DEF Init, PipeInInv, JoinInv, RunInv, FlowInv, ResultInv, Busy, Drained, Nothing,
         Streams

\* Seen from a call, a process is forked once and goes away by itself only if
\* SIGCLD is ignored.
LEMMA ProcessStages ==
  ASSUME IInv, NEW p \in Pids, ProcessStep(p), NEW q \in Pids
  PROVE  /\ state'[q] = "unused" <=> state[q] = "unused"
         /\ state'[q] = "gone" => state[q] = "gone" \/ sigcld = "ignored"
         /\ state[q] = "gone" => /\ state'[q] = "gone"
                                 /\ exit'[q] = exit[q]
                                 /\ load'[q] = load[q]
         /\ launcher'[q] = launcher[q]
         /\ got' = got
  <1> USE DEF IInv, TypeOK, ProcsTypeOK, ChildInv, Alive, pipeVars
  <1>1. CASE ChildDefaults(p)
    BY <1>1 DEF ChildDefaults
  <1>2. CASE ChildUnmasks(p)
    BY <1>2 DEF ChildUnmasks
  <1>3. CASE ChildExecs(p)
    BY <1>3 DEF ChildExecs
  <1>4. CASE ChildExecFails(p)
    BY <1>4 DEF ChildExecFails, End
  <1>5. CASE \E s \in Streams : Write(p, s)
    BY <1>5 DEF Write
  <1>6. CASE ProgramExits(p)
    BY <1>6 DEF ProgramExits, End
  <1>7. CASE SendTerm(p)
    BY <1>7 DEF SendTerm
  <1>8. CASE DeliverTerm(p)
    BY <1>8 DEF DeliverTerm, End
  <1> QED
    BY <1>1, <1>2, <1>3, <1>4, <1>5, <1>6, <1>7, <1>8
       DEF ProcessStep, ChildStep, ProgramStep

\* A unit that is written leaves the program for the pipe.
LEMMA OneUnitMoves ==
  ASSUME NEW x \in Nat, NEW y \in Nat, NEW z \in Nat, x + y = z
  PROVE  (x + 1) + (y - 1) = z
  OBVIOUS

\* Every step waits for forked processes only.
LEMMA JoinStepInv == PipeInInv /\ [Next]_vars => JoinInv'
<1> SUFFICES ASSUME PipeInInv PROVE [Next]_vars => JoinInv'
  OBVIOUS
<1> USE DEF PipeInInv, IInv, TypeOK, CallsTypeOK, CallInv, JoinInv, Busy, Points
<1> USE DEF callVars, procVars, pipeVars
<1>1. ASSUME NEW t \in Threads, Start(t)
      PROVE  JoinInv'
  BY <1>1 DEF Start, Begin, Goto, Block
<1>2. ASSUME NEW t \in Threads, StartAndForget(t)
      PROVE  JoinInv'
  BY <1>2 DEF StartAndForget, Begin, Goto, Block
<1>3. ASSUME NEW t \in Threads, PipeOut(t)
      PROVE  JoinInv'
  BY <1>3 DEF PipeOut, Begin, Goto, Block
<1>4. ASSUME NEW t \in Threads, OpenFails(t)
      PROVE  JoinInv'
  BY <1>4 DEF OpenFails
<1>5. ASSUME NEW t \in Threads, PipeIn(t)
      PROVE  JoinInv'
  BY <1>5 DEF PipeIn, Begin, Goto, Block
<1>6. ASSUME NEW t \in Threads, PipesFail(t)
      PROVE  JoinInv'
  BY <1>6 DEF PipesFail
<1>7. ASSUME NEW t \in Threads, NEW p \in Pids, Join(t, p)
      PROVE  JoinInv'
  BY <1>7 DEF Join, Goto
<1>8. ASSUME NEW t \in Threads, NEW p \in Pids, Fork(t, p)
      PROVE  JoinInv'
  <2>1. /\ pc[t] = "fork" /\ state[p] = "unused"
        /\ pc' = [pc EXCEPT ![t] = "restore"] /\ child' = [child EXCEPT ![t] = p]
        /\ state' = [state EXCEPT ![p] = "forked"]
        /\ launcher' = [launcher EXCEPT ![p] = t]
        /\ UNCHANGED <<method, outcome, handles, sigcld>>
    BY <1>8 DEF Fork, Goto
  <2>2. \A q \in Pids : state'[q] = "unused" => state[q] = "unused"
    BY <2>1 DEF ProcsTypeOK
  <2>3. state'[p] # "unused" /\ child'[t] = p
    BY <2>1 DEF ProcsTypeOK
  <2>4. ASSUME NEW u \in Threads, pc'[u] \in Busy
        PROVE  state'[child'[u]] # "unused"
    BY <2>1, <2>2, <2>3, <2>4
  <2> QED
    BY <2>1, <2>2, <2>4
<1>9. ASSUME NEW t \in Threads, ForkFails(t)
      PROVE  JoinInv'
  BY <1>9 DEF ForkFails, Unblock, Finish, Goto
<1>10. ASSUME NEW t \in Threads, Restore(t)
      PROVE  JoinInv'
  BY <1>10 DEF Restore, Unblock, Finish, Goto
<1>11. ASSUME NEW t \in Threads, CloseWriteEnds(t)
      PROVE  JoinInv'
  BY <1>11 DEF CloseWriteEnds, Goto
<1>12. ASSUME NEW t \in Threads, JoinReaps(t)
      PROVE  JoinInv'
  BY <1>12 DEF JoinReaps, JoinOutcome, Finish, Goto
<1>13. ASSUME NEW t \in Threads, JoinFails(t)
      PROVE  JoinInv'
  BY <1>13 DEF JoinFails, Finish, Goto
<1>14. ASSUME NEW t \in Threads, JoinInterrupted(t)
      PROVE  JoinInv'
  BY <1>14 DEF JoinInterrupted, Finish, Goto
<1>15. ASSUME NEW t \in Threads, CopyOutput(t)
      PROVE  JoinInv'
  BY <1>15 DEF CopyOutput, Finish, Goto
<1>16. ASSUME NEW p \in Pids, ProcessStep(p)
      PROVE  JoinInv'
  BY <1>16, ProcessFrame, ProcessStages DEF CallInv
<1>17. ASSUME UNCHANGED vars PROVE JoinInv'
  BY <1>17 DEF vars
<1> QED
  BY <1>1, <1>2, <1>3, <1>4, <1>5, <1>6, <1>7, <1>8, <1>9, <1>10, <1>11,
     <1>12, <1>13, <1>14, <1>15, <1>16, <1>17
     DEF Next, Call, ThreadStep, ProcessStep

\* Every step keeps the bond of a pipe_in call and its process.
LEMMA RunStepInv == PipeInInv /\ [Next]_vars => RunInv'
<1> SUFFICES ASSUME PipeInInv PROVE [Next]_vars => RunInv'
  OBVIOUS
<1> USE DEF PipeInInv, IInv, TypeOK, CallsTypeOK, CallInv, RunInv, JoinInv, Busy, Points
<1> USE DEF callVars, procVars, pipeVars
<1>1. ASSUME NEW t \in Threads, Start(t)
      PROVE  RunInv'
  BY <1>1 DEF Start, Begin, Goto, Block
<1>2. ASSUME NEW t \in Threads, StartAndForget(t)
      PROVE  RunInv'
  BY <1>2 DEF StartAndForget, Begin, Goto, Block
<1>3. ASSUME NEW t \in Threads, PipeOut(t)
      PROVE  RunInv'
  BY <1>3 DEF PipeOut, Begin, Goto, Block
<1>4. ASSUME NEW t \in Threads, OpenFails(t)
      PROVE  RunInv'
  BY <1>4 DEF OpenFails
<1>5. ASSUME NEW t \in Threads, PipeIn(t)
      PROVE  RunInv'
  BY <1>5 DEF PipeIn, Begin, Goto, Block
<1>6. ASSUME NEW t \in Threads, PipesFail(t)
      PROVE  RunInv'
  BY <1>6 DEF PipesFail
<1>7. ASSUME NEW t \in Threads, NEW p \in Pids, Join(t, p)
      PROVE  RunInv'
  BY <1>7 DEF Join, Goto
<1>8. ASSUME NEW t \in Threads, NEW p \in Pids, Fork(t, p)
      PROVE  RunInv'
  <2>1. /\ pc[t] = "fork" /\ state[p] = "unused"
        /\ pc' = [pc EXCEPT ![t] = "restore"] /\ child' = [child EXCEPT ![t] = p]
        /\ state' = [state EXCEPT ![p] = "forked"]
        /\ launcher' = [launcher EXCEPT ![p] = t]
        /\ UNCHANGED <<method, outcome, handles, sigcld>>
    BY <1>8 DEF Fork, Goto
  <2>2. \A u \in Threads : pc[u] \in Busy \cup {"copy"} => child[u] # p
    BY <2>1
  <2>3. ASSUME NEW u \in Threads, u # t, pc[u] \in Busy \cup {"copy"}
        PROVE  launcher'[child'[u]] = launcher[child[u]] /\ state'[child'[u]] = state[child[u]]
    BY <2>1, <2>2, <2>3
  <2>4. launcher'[child'[t]] = t
    BY <2>1 DEF ProcsTypeOK
  <2> QED
    BY <2>1, <2>3, <2>4
<1>9. ASSUME NEW t \in Threads, ForkFails(t)
      PROVE  RunInv'
  BY <1>9 DEF ForkFails, Unblock, Finish, Goto
<1>10. ASSUME NEW t \in Threads, Restore(t)
      PROVE  RunInv'
  BY <1>10 DEF Restore, Unblock, Finish, Goto
<1>11. ASSUME NEW t \in Threads, CloseWriteEnds(t)
      PROVE  RunInv'
  BY <1>11 DEF CloseWriteEnds, Goto
<1>12. ASSUME NEW t \in Threads, JoinReaps(t)
      PROVE  RunInv'
  <2>1. /\ pc[t] = "wait" /\ state' = [state EXCEPT ![child[t]] = "gone"]
        /\ UNCHANGED <<method, child, launcher>>
    BY <1>12 DEF JoinReaps
  <2>2. \A u \in Threads : pc[u] = "copy" => state'[child[u]] = "gone"
    BY <2>1 DEF ProcsTypeOK
  <2>3. state'[child[t]] = "gone"
    BY <2>1 DEF ProcsTypeOK
  <2>4. \/ pc' = [pc EXCEPT ![t] = "idle"] /\ \A u \in Threads \ {t} : outcome'[u] = outcome[u]
        \/ pc' = [pc EXCEPT ![t] = "copy"] /\ method[t] = "pipe_in" /\ UNCHANGED outcome
    BY <1>12 DEF JoinReaps, Finish, Goto
  <2> QED
    BY <2>1, <2>2, <2>3, <2>4
<1>13. ASSUME NEW t \in Threads, JoinFails(t)
      PROVE  RunInv'
  BY <1>13 DEF JoinFails, Finish, Goto
<1>14. ASSUME NEW t \in Threads, JoinInterrupted(t)
      PROVE  RunInv'
  BY <1>14 DEF JoinInterrupted, Finish, Goto
<1>15. ASSUME NEW t \in Threads, CopyOutput(t)
      PROVE  RunInv'
  BY <1>15 DEF CopyOutput, Finish, Goto
<1>16. ASSUME NEW p \in Pids, ProcessStep(p)
      PROVE  RunInv'
  BY <1>16, ProcessFrame, ProcessStages DEF CallInv
<1>17. ASSUME UNCHANGED vars PROVE RunInv'
  BY <1>17 DEF vars
<1> QED
  BY <1>1, <1>2, <1>3, <1>4, <1>5, <1>6, <1>7, <1>8, <1>9, <1>10, <1>11,
     <1>12, <1>13, <1>14, <1>15, <1>16, <1>17
     DEF Next, Call, ThreadStep, ProcessStep

\* Every step keeps what is written in the pipes.
LEMMA FlowStepInv == PipeInInv /\ [Next]_vars => FlowInv'
<1> SUFFICES ASSUME PipeInInv PROVE [Next]_vars => FlowInv'
  OBVIOUS
<1> USE DEF PipeInInv, IInv, TypeOK, CallsTypeOK, ProcsTypeOK, FlowInv, Drained
<1> USE DEF callVars, procVars, pipeVars
<1>1. ASSUME NEW t \in Threads, Start(t)
      PROVE  FlowInv'
  BY <1>1 DEF Start, Begin, Goto
<1>2. ASSUME NEW t \in Threads, StartAndForget(t)
      PROVE  FlowInv'
  BY <1>2 DEF StartAndForget, Begin, Goto
<1>3. ASSUME NEW t \in Threads, PipeOut(t)
      PROVE  FlowInv'
  BY <1>3 DEF PipeOut, Begin, Goto
<1>4. ASSUME NEW t \in Threads, OpenFails(t)
      PROVE  FlowInv'
  BY <1>4 DEF OpenFails
<1>5. ASSUME NEW t \in Threads, PipeIn(t)
      PROVE  FlowInv'
  BY <1>5 DEF PipeIn, Begin, Goto
<1>6. ASSUME NEW t \in Threads, PipesFail(t)
      PROVE  FlowInv'
  BY <1>6 DEF PipesFail
<1>7. ASSUME NEW t \in Threads, NEW p \in Pids, Join(t, p)
      PROVE  FlowInv'
  BY <1>7 DEF Join, Goto
<1>8. ASSUME NEW t \in Threads, NEW p \in Pids, Fork(t, p)
      PROVE  FlowInv'
  BY <1>8 DEF Fork, Goto
<1>9. ASSUME NEW t \in Threads, ForkFails(t)
      PROVE  FlowInv'
  BY <1>9 DEF ForkFails, Finish, Goto
<1>10. ASSUME NEW t \in Threads, Restore(t)
      PROVE  FlowInv'
  <2>1. /\ pc[t] = "restore" /\ \A u \in Threads \ {t} : pc'[u] = pc[u]
        /\ pc'[t] # "copy" /\ UNCHANGED <<child, launcher, state, fill, todo, load, exit>>
    BY <1>10 DEF Restore, Finish, Goto
  <2>2. \A q \in Pids : Drained(q) => Drained(q)'
    BY <2>1
  <2> QED
    BY <2>1, <2>2
<1>11. ASSUME NEW t \in Threads, CloseWriteEnds(t)
      PROVE  FlowInv'
  BY <1>11 DEF CloseWriteEnds, Goto
<1>12. ASSUME NEW t \in Threads, JoinReaps(t)
      PROVE  FlowInv'
  <2>1. /\ pc[t] = "wait" /\ state[child[t]] = "zombie"
        /\ state' = [state EXCEPT ![child[t]] = "gone"]
        /\ \A u \in Threads \ {t} : pc'[u] = pc[u]
        /\ UNCHANGED <<child, launcher, fill, todo, load, exit>>
    BY <1>12 DEF JoinReaps, Finish, Goto
  <2>2. \A q \in Pids : Drained(q) => Drained(q)'
    BY <2>1
  <2>3. \A q \in Pids : q # child[t] => state'[q] = state[q]
    BY <2>1
  <2>4. state'[child[t]] = "gone"
    BY <2>1 DEF CallInv
  <2> QED
    BY <2>1, <2>2, <2>3, <2>4
<1>13. ASSUME NEW t \in Threads, JoinFails(t)
      PROVE  FlowInv'
  BY <1>13 DEF JoinFails, Finish, Goto
<1>14. ASSUME NEW t \in Threads, JoinInterrupted(t)
      PROVE  FlowInv'
  BY <1>14 DEF JoinInterrupted, Finish, Goto
<1>15. ASSUME NEW t \in Threads, CopyOutput(t)
      PROVE  FlowInv'
  <2>1. /\ pc[t] = "copy" /\ pc' = [pc EXCEPT ![t] = "idle"]
        /\ fill' = [fill EXCEPT ![child[t]] = Nothing]
        /\ UNCHANGED <<child, launcher, state, todo, load, exit>>
    BY <1>15 DEF CopyOutput, Finish, Goto
  <2>2. launcher[child[t]] = t /\ state[child[t]] = "gone" /\ child[t] \in Pids
    BY <2>1 DEF RunInv, CallInv
  <2>3. Drained(child[t])'
    BY <2>1, <2>2
  <2>4. \A q \in Pids \ {child[t]} : fill'[q] = fill[q] /\ (Drained(q) => Drained(q)')
    BY <2>1
  <2> QED
    BY <2>1, <2>2, <2>3, <2>4
<1>16. ASSUME NEW p \in Pids, ChildDefaults(p)
      PROVE  FlowInv'
  BY <1>16 DEF ChildDefaults
<1>17. ASSUME NEW p \in Pids, ChildUnmasks(p)
      PROVE  FlowInv'
  BY <1>17 DEF ChildUnmasks
<1>18. ASSUME NEW p \in Pids, ChildExecs(p)
      PROVE  FlowInv'
  <2>1. PICK o \in Outputs \cup {Nothing} : /\ load' = [load EXCEPT ![p] = o]
                                            /\ todo' = [todo EXCEPT ![p] = o]
    BY <1>18 DEF ChildExecs
  <2>2. o \in [Streams -> Nat]
    BY <2>1, OutputsAssumption, NothingType
  <2>3. \A s \in Streams : Nothing[s] + o[s] = o[s]
    BY <2>2 DEF Nothing
  <2>4. /\ state[p] = "unmasked" /\ state' = [state EXCEPT ![p] = "running"]
        /\ UNCHANGED <<pc, child, launcher, fill, exit>>
    BY <1>18 DEF ChildExecs
  <2>5. fill[p] = Nothing /\ exit[p] = "none"
    BY <2>4
  <2>6. \A q \in Pids \ {p} :
           /\ load'[q] = load[q] /\ todo'[q] = todo[q] /\ state'[q] = state[q]
           /\ Drained(q) => Drained(q)'
    BY <2>1, <2>4
  <2>7. state'[p] = "running" /\ load'[p] = o /\ todo'[p] = o
    BY <2>1, <2>4
  <2> QED
    BY <2>3, <2>4, <2>5, <2>6, <2>7
<1>19. ASSUME NEW p \in Pids, ChildExecFails(p)
      PROVE  FlowInv'
  BY <1>19 DEF ChildExecFails, End
<1>20. ASSUME NEW p \in Pids, NEW s \in Streams, Write(p, s)
      PROVE  FlowInv'
  <2>1. /\ state[p] = "running" /\ todo[p][s] > 0
        /\ todo' = [todo EXCEPT ![p] = [todo[p] EXCEPT ![s] = @ - 1]]
        /\ fill' = [fill EXCEPT ![p] = [fill[p] EXCEPT ![s] = @ + 1]]
        /\ UNCHANGED <<pc, child, launcher, state, load, exit>>
    BY <1>20 DEF Write
  <2>2. /\ todo[p] \in [Streams -> Nat] /\ fill[p] \in [Streams -> Nat]
        /\ load[p] \in [Streams -> Nat]
    BY DEF PipesTypeOK
  <2>3. \A r \in Streams : fill'[p][r] + todo'[p][r] = load[p][r]
    <3>1. \A r \in Streams : fill[p][r] + todo[p][r] = load[p][r]
      BY <2>1
    <3>2. /\ todo'[p] = [todo[p] EXCEPT ![s] = @ - 1]
          /\ fill'[p] = [fill[p] EXCEPT ![s] = @ + 1]
      BY <2>1 DEF PipesTypeOK
    <3>3. fill'[p][s] + todo'[p][s] = load[p][s]
      <4>1. todo'[p][s] = todo[p][s] - 1 /\ fill'[p][s] = fill[p][s] + 1
        BY <2>2, <3>2
      <4>2. todo[p][s] \in Nat /\ fill[p][s] \in Nat /\ load[p][s] \in Nat
        BY <2>2
      <4>3. fill[p][s] + todo[p][s] = load[p][s]
        BY <3>1
      <4>4. (fill[p][s] + 1) + (todo[p][s] - 1) = load[p][s]
        BY <4>2, <4>3, OneUnitMoves
      <4> QED
        BY <4>1, <4>4
    <3>4. ASSUME NEW r \in Streams, r # s
          PROVE  fill'[p][r] + todo'[p][r] = load[p][r]
      BY <2>2, <3>1, <3>2, <3>4
    <3> QED
      BY <3>3, <3>4
  <2>4. \A q \in Pids \ {p} : fill'[q] = fill[q] /\ todo'[q] = todo[q]
    BY <2>1
  <2>5. \A q \in Pids : Drained(q) => Drained(q)'
    BY <2>1
  <2> QED
    BY <2>1, <2>3, <2>4, <2>5
<1>21. ASSUME NEW p \in Pids, ProgramExits(p)
      PROVE  FlowInv'
  BY <1>21 DEF ProgramExits, End
<1>22. ASSUME NEW p \in Pids, SendTerm(p)
      PROVE  FlowInv'
  BY <1>22 DEF SendTerm
<1>23. ASSUME NEW p \in Pids, DeliverTerm(p)
      PROVE  FlowInv'
  <2>1. /\ state' = [state EXCEPT ![p] = IF sigcld = "ignored" THEN "gone" ELSE "zombie"]
        /\ exit' = [exit EXCEPT ![p] = "signal"]
        /\ UNCHANGED <<pc, child, launcher, todo, load, fill>>
    BY <1>23 DEF DeliverTerm, End
  <2>2. state[p] \notin {"unused", "gone"}
    BY <1>23 DEF DeliverTerm, ChildInv, Alive
  <2>3. /\ state'[p] \in {"zombie", "gone"} /\ exit'[p] = "signal"
        /\ \A s \in Streams : fill[p][s] + todo[p][s] = load[p][s]
    BY <2>1, <2>2
  <2>4. \A q \in Pids \ {p} :
           state'[q] = state[q] /\ exit'[q] = exit[q] /\ Drained(q)' = Drained(q)
    BY <2>1
  <2> QED
    BY <2>1, <2>2, <2>3, <2>4
<1>24. ASSUME UNCHANGED vars PROVE FlowInv'
  BY <1>24 DEF vars
<1> QED
  BY <1>1, <1>2, <1>3, <1>4, <1>5, <1>6, <1>7, <1>8, <1>9, <1>10, <1>11,
     <1>12, <1>13, <1>14, <1>15, <1>16, <1>17, <1>18, <1>19, <1>20, <1>21,
     <1>22, <1>23, <1>24
     DEF Next, Call, ThreadStep, ChildStep, ProgramStep

\* Every step keeps what was returned.
LEMMA ResultStepInv == PipeInInv /\ [Next]_vars => ResultInv'
<1> SUFFICES ASSUME PipeInInv PROVE [Next]_vars => ResultInv'
  OBVIOUS
<1> USE DEF PipeInInv, IInv, TypeOK, CallsTypeOK, ResultInv, Points
<1> USE DEF callVars, procVars, pipeVars
<1>1. ASSUME NEW t \in Threads, Start(t)
      PROVE  ResultInv'
  BY <1>1 DEF Start, Begin, Goto, Block
<1>2. ASSUME NEW t \in Threads, StartAndForget(t)
      PROVE  ResultInv'
  BY <1>2 DEF StartAndForget, Begin, Goto, Block
<1>3. ASSUME NEW t \in Threads, PipeOut(t)
      PROVE  ResultInv'
  BY <1>3 DEF PipeOut, Begin, Goto, Block
<1>4. ASSUME NEW t \in Threads, OpenFails(t)
      PROVE  ResultInv'
  BY <1>4 DEF OpenFails
<1>5. ASSUME NEW t \in Threads, PipeIn(t)
      PROVE  ResultInv'
  BY <1>5 DEF PipeIn, Begin, Goto, Block, PipesTypeOK
<1>6. ASSUME NEW t \in Threads, PipesFail(t)
      PROVE  ResultInv'
  BY <1>6 DEF PipesFail
<1>7. ASSUME NEW t \in Threads, NEW p \in Pids, Join(t, p)
      PROVE  ResultInv'
  BY <1>7 DEF Join, Goto
<1>8. ASSUME NEW t \in Threads, NEW p \in Pids, Fork(t, p)
      PROVE  ResultInv'
  <2>1. /\ pc[t] = "fork" /\ state[p] = "unused"
        /\ pc' = [pc EXCEPT ![t] = "restore"] /\ child' = [child EXCEPT ![t] = p]
        /\ state' = [state EXCEPT ![p] = "forked"]
        /\ launcher' = [launcher EXCEPT ![p] = t]
        /\ UNCHANGED <<method, outcome, handles, sigcld>>
    BY <1>8 DEF Fork, Goto
  <2>2. outcome[t] = "none" /\ UNCHANGED <<load, exit, got>>
    BY <1>8, <2>1 DEF Fork, RunInv
  <2>3. ASSUME NEW u \in Threads, outcome[u] = "output"
        PROVE  child'[u] = child[u] /\ (child[u] \in Pids => state'[child[u]] = state[child[u]])
    <3>1. u # t
      BY <2>2, <2>3
    <3>2. child'[u] = child[u]
      BY <2>1, <3>1
    <3>3. child[u] \in Pids => child[u] # p
      BY <2>1, <2>3, NamesAssumption
    <3> QED
      BY <2>1, <3>2, <3>3 DEF ProcsTypeOK
  <2> QED
    BY <2>1, <2>2, <2>3
<1>9. ASSUME NEW t \in Threads, ForkFails(t)
      PROVE  ResultInv'
  BY <1>9 DEF ForkFails, Unblock, Finish, Goto
<1>10. ASSUME NEW t \in Threads, Restore(t)
      PROVE  ResultInv'
  BY <1>10 DEF Restore, Unblock, Finish, Goto
<1>11. ASSUME NEW t \in Threads, CloseWriteEnds(t)
      PROVE  ResultInv'
  BY <1>11 DEF CloseWriteEnds, Goto
<1>12. ASSUME NEW t \in Threads, JoinReaps(t)
      PROVE  ResultInv'
  BY <1>12 DEF JoinReaps, JoinOutcome, Finish, Goto
<1>13. ASSUME NEW t \in Threads, JoinFails(t)
      PROVE  ResultInv'
  BY <1>13 DEF JoinFails, Finish, Goto
<1>14. ASSUME NEW t \in Threads, JoinInterrupted(t)
      PROVE  ResultInv'
  BY <1>14 DEF JoinInterrupted, Finish, Goto
<1>15. ASSUME NEW t \in Threads, CopyOutput(t)
      PROVE  ResultInv'
  <2>1. /\ pc[t] = "copy"
        /\ got' = [got EXCEPT ![t] = fill[child[t]]]
        /\ outcome' = [outcome EXCEPT ![t] =
                         IF exit[child[t]] = "ok" THEN "output" ELSE "ExecutionIssue"]
        /\ UNCHANGED <<child, launcher, state, load, exit>>
    BY <1>15 DEF CopyOutput, Finish
  <2>2. launcher[child[t]] = t /\ state[child[t]] = "gone" /\ child[t] \in Pids
    BY <2>1 DEF RunInv, CallInv
  <2>3. ASSUME exit[child[t]] = "ok" PROVE fill[child[t]] = load[child[t]]
    <3>1. todo[child[t]] = Nothing
      BY <2>2, <2>3 DEF FlowInv
    <3>2. \A s \in Streams : fill[child[t]][s] + todo[child[t]][s] = load[child[t]][s]
      BY <2>1, <2>2 DEF FlowInv, Drained
    <3>3. /\ fill[child[t]] \in [Streams -> Nat]
          /\ load[child[t]] \in [Streams -> Nat]
      BY <2>2 DEF ProcsTypeOK, PipesTypeOK
    <3>4. \A s \in Streams : fill[child[t]][s] = load[child[t]][s]
      BY <3>1, <3>2, <3>3 DEF Nothing
    <3> QED
      BY <3>3, <3>4
  <2>4. got'[t] = fill[child[t]]
    BY <2>1 DEF PipesTypeOK
  <2>5. pc' = [pc EXCEPT ![t] = "idle"] /\ UNCHANGED method
    BY <1>15 DEF CopyOutput, Finish, Goto
  <2> QED
    BY <2>1, <2>2, <2>3, <2>4, <2>5 DEF PipesTypeOK
<1>16. ASSUME NEW p \in Pids, ProcessStep(p)
      PROVE  ResultInv'
  BY <1>16, ProcessFrame, ProcessStages DEF CallInv
<1>17. ASSUME UNCHANGED vars PROVE ResultInv'
  BY <1>17 DEF vars
<1> QED
  BY <1>1, <1>2, <1>3, <1>4, <1>5, <1>6, <1>7, <1>8, <1>9, <1>10, <1>11,
     <1>12, <1>13, <1>14, <1>15, <1>16, <1>17
     DEF Next, Call, ThreadStep, ProcessStep

\* The invariant of joins and outputs is inductive.
LEMMA NextPipeInInv == PipeInInv /\ [Next]_vars => PipeInInv'
  BY NextInv, JoinStepInv, RunStepInv, FlowStepInv, ResultStepInv DEF PipeInInv

\* The invariant of joins and outputs holds in every state.
THEOREM PipeInInvariance == Spec => []PipeInInv
  BY InitPipeInInv, NextPipeInInv, PTL DEF Spec

-----------------------------------------------------------------------------
\* What pipe_in returns is all a successful program has written, whatever the
\* other threads fork, join and read meanwhile.
THEOREM OutputIsComplete == Spec => []OutputComplete
<1>1. PipeInInv => OutputComplete
  BY NamesAssumption DEF PipeInInv, ResultInv, OutputComplete
<1> QED
  BY <1>1, PipeInInvariance, PTL

-----------------------------------------------------------------------------
(* Each pipe_in call implements CommandRun. *)

\* A call and its command: there is none before the fork, it is that of the
\* caller from then on, and its output is read only when it ended by itself.
CommandInv ==
    /\ \A t \in Threads :
          /\ pc[t] = "fork" => child[t] = NoPid
          /\ HasRun(t) => /\ child[t] \in Pids
                          /\ launcher[child[t]] = t
                          /\ state[child[t]] # "unused"
          /\ pc[t] = "copy" => exit[child[t]] \in {"ok", "fail"}
    /\ \A p \in Pids : state[p] \in {"zombie", "gone"} => exit[p] # "none"

\* How a process ends, and what it has written, once it has been forked.
LEMMA ProcessEnds ==
  ASSUME IInv, NEW p \in Pids, ProcessStep(p), NEW q \in Pids
  PROVE  /\ state[q] # "unused" => state'[q] # "unused"
         /\ launcher'[q] = launcher[q]
         /\ exit[q] # "none" /\ state[q] \in {"zombie", "gone"} => exit'[q] = exit[q]
         /\ state'[q] \in {"zombie", "gone"} =>
              state[q] \in {"zombie", "gone"} \/ exit'[q] # "none"
         /\ state[q] \in {"zombie", "gone"} => state'[q] \in {"zombie", "gone"}
  <1> USE DEF IInv, TypeOK, ProcsTypeOK, ChildInv, Alive, pipeVars
  <1>1. CASE ChildDefaults(p)
    BY <1>1 DEF ChildDefaults
  <1>2. CASE ChildUnmasks(p)
    BY <1>2 DEF ChildUnmasks
  <1>3. CASE ChildExecs(p)
    BY <1>3 DEF ChildExecs
  <1>4. CASE ChildExecFails(p)
    BY <1>4 DEF ChildExecFails, End
  <1>5. CASE \E s \in Streams : Write(p, s)
    BY <1>5 DEF Write
  <1>6. CASE ProgramExits(p)
    BY <1>6 DEF ProgramExits, End
  <1>7. CASE SendTerm(p)
    BY <1>7 DEF SendTerm
  <1>8. CASE DeliverTerm(p)
    BY <1>8 DEF DeliverTerm, End
  <1> QED
    BY <1>1, <1>2, <1>3, <1>4, <1>5, <1>6, <1>7, <1>8
       DEF ProcessStep, ChildStep, ProgramStep

\* Every step keeps the bond of a call and its command.
LEMMA CommandStepInv == PipeInInv /\ CommandInv /\ [Next]_vars => CommandInv'
<1> SUFFICES ASSUME PipeInInv, CommandInv PROVE [Next]_vars => CommandInv'
  OBVIOUS
<1> USE DEF CommandInv, HasRun, Piping
<1> TypeOK /\ CallInv /\ RunInv /\ FlowInv /\ IInv
  BY DEF PipeInInv, IInv
<1> USE DEF TypeOK, CallsTypeOK, Points
<1>1. ASSUME NEW t \in Threads,
             Start(t) \/ StartAndForget(t) \/ PipeOut(t) \/ PipeIn(t)
      PROVE  CommandInv'
  <2>1. /\ pc[t] = "idle" /\ pc' = [pc EXCEPT ![t] = "fork"]
        /\ child' = [child EXCEPT ![t] = NoPid]
        /\ \E m \in LaunchMethods : method' = [method EXCEPT ![t] = m]
        /\ UNCHANGED <<launcher, state, exit>>
    BY <1>1 DEF Start, StartAndForget, PipeOut, PipeIn, Begin, Goto, procVars,
                LaunchMethods
  <2> QED
    BY <2>1
<1>2. ASSUME NEW t \in Threads, OpenFails(t) \/ PipesFail(t) PROVE CommandInv'
  BY <1>2 DEF OpenFails, PipesFail, procVars
<1>3. ASSUME NEW t \in Threads, NEW p \in Pids, Join(t, p) PROVE CommandInv'
  BY <1>3 DEF Join, Goto, procVars
<1>4. ASSUME NEW t \in Threads, NEW p \in Pids, Fork(t, p) PROVE CommandInv'
  <2>1. /\ pc[t] = "fork" /\ state[p] = "unused"
        /\ pc' = [pc EXCEPT ![t] = "restore"] /\ child' = [child EXCEPT ![t] = p]
        /\ state' = [state EXCEPT ![p] = "forked"]
        /\ launcher' = [launcher EXCEPT ![p] = t]
        /\ UNCHANGED <<method, exit>>
    BY <1>4 DEF Fork, Goto
  <2>2. state'[p] = "forked" /\ launcher'[p] = t /\ child'[t] = p
    BY <2>1 DEF ProcsTypeOK
  <2>3. \A q \in Pids : q # p => state'[q] = state[q] /\ launcher'[q] = launcher[q]
    BY <2>1 DEF ProcsTypeOK
  <2> QED
    BY <2>1, <2>2, <2>3
<1>5. ASSUME NEW t \in Threads,
             \/ ForkFails(t) \/ JoinFails(t) \/ JoinInterrupted(t) \/ CopyOutput(t)
      PROVE  CommandInv'
  <2>1. /\ pc' = [pc EXCEPT ![t] = "idle"]
        /\ UNCHANGED <<method, child, launcher, state, exit>>
    BY <1>5 DEF ForkFails, JoinFails, JoinInterrupted, CopyOutput, Finish, Goto,
                procVars
  <2> QED
    BY <2>1
<1>6. ASSUME NEW t \in Threads, Restore(t) \/ CloseWriteEnds(t) PROVE CommandInv'
  <2>1. /\ \E q \in {"idle", "close", "wait"} : pc' = [pc EXCEPT ![t] = q]
        /\ UNCHANGED <<method, child, launcher, state, exit>>
    BY <1>6 DEF Restore, CloseWriteEnds, Finish, Goto, procVars
  <2> QED
    BY <2>1
<1>7. ASSUME NEW t \in Threads, JoinReaps(t) PROVE CommandInv'
  <2>1. /\ state[child[t]] = "zombie" /\ child[t] \in Pids
        /\ state' = [state EXCEPT ![child[t]] = "gone"]
        /\ UNCHANGED <<method, child, launcher, exit>>
    BY <1>7 DEF JoinReaps, CallInv
  <2>2. \/ pc' = [pc EXCEPT ![t] = "idle"]
        \/ pc' = [pc EXCEPT ![t] = "copy"] /\ exit[child[t]] # "signal"
    BY <1>7 DEF JoinReaps, Finish, Goto
  <2>3. exit[child[t]] \in {"ok", "fail", "signal"}
    BY <2>1 DEF ProcsTypeOK
  <2>4. state'[child[t]] = "gone" /\ \A q \in Pids : q # child[t] => state'[q] = state[q]
    BY <2>1 DEF ProcsTypeOK
  <2> QED
    BY <2>1, <2>2, <2>3, <2>4
<1>8. ASSUME NEW p \in Pids, ProcessStep(p) PROVE CommandInv'
  <2>1. UNCHANGED <<pc, method, child>>
    BY <1>8, ProcessFrame DEF callVars
  <2>2. \A t \in Threads : pc[t] = "copy" => child[t] \in Pids /\ state[child[t]] = "gone"
    BY DEF CallInv, RunInv
  <2> QED
    BY <1>8, <2>1, <2>2, ProcessEnds
<1>9. ASSUME UNCHANGED vars PROVE CommandInv'
  BY <1>9 DEF vars, callVars, procVars
<1> QED
  BY <1>1, <1>2, <1>3, <1>4, <1>5, <1>6, <1>7, <1>8, <1>9
     DEF Next, Call, ThreadStep, ProcessStep

\* A call that does not begin or end, and whose command neither prints nor ends,
\* has not moved.
LEMMA Unmoved ==
  ASSUME NEW t \in Threads,
         UNCHANGED <<method[t], child[t], outcome[t], got[t]>>,
         pc'[t] = "idle" <=> pc[t] = "idle",
         HasRun(t) =>
            /\ exit'[child[t]] = exit[child[t]]
            /\ load'[child[t]]["data"] - todo'[child[t]]["data"]
                  = load[child[t]]["data"] - todo[child[t]]["data"]
  PROVE  UNCHANGED Run(t)!vars
<1>1. HasRun(t)' <=> HasRun(t)
  BY DEF HasRun, Piping
<1>2. HasRun(t) => Printed(child[t])' = Printed(child[t])
  BY DEF Printed
<1>3. Piping(t)' <=> Piping(t)
  BY DEF Piping
<1> QED
  BY <1>1, <1>2, <1>3 DEF Run!vars

\* What a thread does.
ThreadMoves(u) == Call(u) \/ ThreadStep(u) \/ JoinInterrupted(u)

\* A thread leaves the calls of the others alone.
LEMMA ThreadsApart ==
  ASSUME TypeOK, NEW t \in Threads, NEW u \in Threads, ThreadMoves(u), t # u
  PROVE  UNCHANGED <<method[t], child[t], outcome[t], got[t], pc[t]>>
<1> USE DEF TypeOK, CallsTypeOK, PipesTypeOK, pipeVars, Begin, Finish, Goto
<1>1. CASE Start(u) \/ StartAndForget(u) \/ PipeOut(u) \/ OpenFails(u)
  BY <1>1 DEF Start, StartAndForget, PipeOut, OpenFails
<1>2. CASE PipeIn(u) \/ PipesFail(u)
  BY <1>2 DEF PipeIn, PipesFail
<1>3. CASE \E p \in Pids : Join(u, p) \/ Fork(u, p)
  BY <1>3 DEF Join, Fork
<1>4. CASE ForkFails(u) \/ Restore(u) \/ CloseWriteEnds(u)
  BY <1>4 DEF ForkFails, Restore, CloseWriteEnds
<1>5. CASE JoinReaps(u)
  BY <1>5 DEF JoinReaps
<1>6. CASE JoinFails(u) \/ JoinInterrupted(u)
  BY <1>6 DEF JoinFails, JoinInterrupted
<1>7. CASE CopyOutput(u)
  BY <1>7 DEF CopyOutput
<1> QED
  BY <1>1, <1>2, <1>3, <1>4, <1>5, <1>6, <1>7 DEF ThreadMoves, Call, ThreadStep

\* A thread leaves the outputs and the ends of processes alone.
LEMMA OutputsApart ==
  ASSUME NEW u \in Threads, ThreadMoves(u)
  PROVE  UNCHANGED <<load, todo, exit>>
  BY DEF ThreadMoves, Call, ThreadStep, Start, StartAndForget, PipeOut, OpenFails,
         PipeIn, PipesFail, Join, Fork, ForkFails, Restore, CloseWriteEnds, JoinReaps, JoinFails,
         JoinInterrupted, CopyOutput, procVars

\* A step of what CommandRun says of t, or none.
Moves(t) == [Run(t)!Next]_(Run(t)!vars)

\* Beginning any call forgets the last pipe_in, and one may fail at once.
LEMMA BeginMoves ==
  ASSUME TypeOK, NEW t \in Threads, Call(t)
  PROVE  Moves(t)
<1> USE DEF TypeOK, CallsTypeOK, PipesTypeOK, Moves, Run!Next, Piping, HasRun, Goto
<1>1. ASSUME pc[t] = "idle", child'[t] = NoPid \/ method'[t] = "join",
             method'[t] # "pipe_in" \/ outcome'[t] = "none"
      PROVE  Run(t)!Begin
  BY <1>1 DEF Run!Begin
<1>2. CASE Start(t) \/ StartAndForget(t) \/ PipeOut(t) \/ PipeIn(t)
  BY <1>1, <1>2 DEF Start, StartAndForget, PipeOut, PipeIn, Begin
<1>3. CASE OpenFails(t)
  BY <1>1, <1>3 DEF OpenFails
<1>4. CASE \E p \in Pids : Join(t, p)
  BY <1>1, <1>4 DEF Join
<1>5. CASE PipesFail(t)
  <2>1. Run(t)!Refuse
    BY <1>5 DEF PipesFail, Run!Refuse
  <2> QED
    BY <2>1
<1> QED
  BY <1>2, <1>3, <1>4, <1>5 DEF Call

\* A thread that is not in pipe_in, and was not, has not moved.
LEMMA OtherMethods ==
  ASSUME NEW t \in Threads, ~Piping(t), ~Piping(t)'
  PROVE  UNCHANGED Run(t)!vars
  BY DEF HasRun, Run!vars

\* A fork launches the command of pipe_in.
LEMMA ForkMoves ==
  ASSUME PipeInInv, CommandInv, NEW t \in Threads, NEW p \in Pids, Fork(t, p)
  PROVE  Moves(t)
<1>1. /\ pc[t] = "fork" /\ state[p] = "unused" /\ child[t] = NoPid /\ NoPid \notin Pids
      /\ outcome[t] = "none"
  BY NamesAssumption DEF Fork, CommandInv, PipeInInv, RunInv
<1>2. /\ pc' = [pc EXCEPT ![t] = "restore"] /\ child' = [child EXCEPT ![t] = p]
      /\ UNCHANGED <<method, outcome, got, load, todo, exit>>
  BY DEF Fork, Goto
<1>3. child'[t] = p /\ pc'[t] = "restore"
  BY <1>2 DEF PipeInInv, IInv, TypeOK, CallsTypeOK
<1>4. load[p] = Nothing /\ todo[p] = Nothing /\ exit[p] = "none"
  BY <1>1 DEF PipeInInv, FlowInv, IInv, TypeOK, ProcsTypeOK
<1>5. CASE Piping(t)
  <2>1. ~HasRun(t) /\ HasRun(t)'
    BY <1>1, <1>2, <1>3, <1>5 DEF HasRun, Piping
  <2>2. Printed(child[t])' = 0
    BY <1>2, <1>3, <1>4 DEF Printed, Nothing, Streams
  <2>3. Run(t)!Launch
    BY <1>1, <1>2, <1>3, <1>4, <1>5, <2>1, <2>2 DEF Run!Launch, Piping
  <2> QED
    BY <2>3 DEF Moves, Run!Next
<1>6. CASE ~Piping(t)
  BY <1>2, <1>6, OtherMethods DEF Moves, Piping
<1> QED
  BY <1>5, <1>6

\* A fork that fails ends the call with no command.
LEMMA ForkFailsMoves ==
  ASSUME PipeInInv, CommandInv, NEW t \in Threads, ForkFails(t)
  PROVE  Moves(t)
<1>1. pc[t] = "fork" /\ child[t] = NoPid /\ (method[t] = "pipe_in" => got[t] = Nothing)
  BY DEF ForkFails, CommandInv, PipeInInv, ResultInv
<1>2. /\ pc'[t] = "idle" /\ UNCHANGED <<method, child, got, load, todo, exit>>
      /\ outcome'[t] = IF method[t] = "pipe_in" THEN "output" ELSE "OksSystemCallIssue"
  BY DEF ForkFails, Finish, Goto, procVars, pipeVars, PipeInInv, IInv, TypeOK, CallsTypeOK
<1>3. CASE Piping(t)
  <2>1. Run(t)!ReturnEmpty
    BY <1>1, <1>2, <1>3 DEF Run!ReturnEmpty, Run!Answer, Piping, HasRun, Nothing, Streams
  <2> QED
    BY <2>1 DEF Moves, Run!Next
<1>4. CASE ~Piping(t)
  BY <1>2, <1>4, OtherMethods DEF Moves, Piping
<1> QED
  BY <1>3, <1>4

\* The parent's own steps before the wait do not show.
LEMMA ParentMoves ==
  ASSUME PipeInInv, NEW t \in Threads, Restore(t) \/ CloseWriteEnds(t)
  PROVE  Moves(t)
<1>1. UNCHANGED <<method, child, got, load, todo, exit>>
  BY DEF Restore, CloseWriteEnds, procVars, pipeVars
<1>2. CASE Piping(t)
  <2>1. pc[t] # "idle" /\ pc'[t] # "idle" /\ UNCHANGED outcome
    BY <1>2 DEF Restore, CloseWriteEnds, Goto, Piping, PipeInInv, IInv, TypeOK, CallsTypeOK
  <2> QED
    BY <1>1, <2>1, Unmoved DEF Moves
<1>3. CASE ~Piping(t)
  BY <1>1, <1>3, OtherMethods DEF Moves, Piping
<1> QED
  BY <1>2, <1>3

\* The wait ends the call only when it fails or the command was killed.
LEMMA WaitMoves ==
  ASSUME PipeInInv, CommandInv, NEW t \in Threads,
         JoinReaps(t) \/ JoinFails(t) \/ JoinInterrupted(t)
  PROVE  Moves(t)
<1> USE DEF PipeInInv, IInv, TypeOK, CallsTypeOK
<1>1. pc[t] = "wait" /\ child[t] \in Pids /\ NoPid \notin Pids
  BY NamesAssumption DEF JoinReaps, JoinFails, JoinInterrupted, CallInv
<1>2. UNCHANGED <<method, child, got, load, todo, exit>>
  BY DEF JoinReaps, JoinFails, JoinInterrupted, procVars, pipeVars
<1>3. ASSUME Piping(t), JoinReaps(t), exit[child[t]] # "signal" PROVE Moves(t)
  <2>1. pc'[t] # "idle" /\ UNCHANGED outcome
    BY <1>3 DEF JoinReaps, Goto, Piping
  <2> QED
    BY <1>1, <1>2, <2>1, Unmoved DEF Moves
<1>4. ASSUME Piping(t), JoinReaps(t), exit[child[t]] = "signal" PROVE Moves(t)
  <2>1. pc'[t] = "idle" /\ outcome'[t] = "SignalIssue"
    BY <1>4 DEF JoinReaps, Finish, Goto, JoinOutcome
  <2>2. HasRun(t) /\ HasRun(t)' /\ Piping(t)' /\ Printed(child[t])' = Printed(child[t])
    BY <1>1, <1>2, <1>4 DEF HasRun, Piping, Printed
  <2>3. Run(t)!Throw
    BY <1>1, <1>2, <1>4, <2>1, <2>2 DEF Run!Throw, Run!Answer
  <2> QED
    BY <2>3 DEF Moves, Run!Next
<1>5. ASSUME Piping(t), JoinFails(t) \/ JoinInterrupted(t) PROVE Moves(t)
  <2>1. pc'[t] = "idle" /\ outcome'[t] = "OksSystemCallIssue"
    BY <1>5 DEF JoinFails, JoinInterrupted, Finish, Goto
  <2>2. HasRun(t) /\ HasRun(t)' /\ Piping(t)' /\ Printed(child[t])' = Printed(child[t])
    BY <1>1, <1>2, <1>5 DEF HasRun, Piping, Printed
  <2>3. Run(t)!GiveUp
    BY <1>1, <1>2, <1>5, <2>1, <2>2 DEF Run!GiveUp, Run!Answer
  <2> QED
    BY <2>3 DEF Moves, Run!Next
<1>6. CASE ~Piping(t)
  BY <1>2, <1>6, OtherMethods DEF Moves, Piping
<1> QED
  BY <1>3, <1>4, <1>5, <1>6

\* What is in the pipes of a program that can write no more is what it printed.
LEMMA PipesHoldOutput ==
  ASSUME PipeInInv, NEW t \in Threads, pc[t] = "copy"
  PROVE  fill[child[t]]["data"] = Printed(child[t])
<1> USE DEF PipeInInv, IInv, TypeOK, PipesTypeOK, ProcsTypeOK
<1>1. launcher[child[t]] = t /\ child[t] \in Pids
  BY DEF RunInv, CallInv
<1>2. fill[child[t]]["data"] + todo[child[t]]["data"] = load[child[t]]["data"]
  BY <1>1 DEF FlowInv, Drained, Streams
<1>3. /\ fill[child[t]]["data"] \in Nat /\ todo[child[t]]["data"] \in Nat
      /\ load[child[t]]["data"] \in Nat
  BY <1>1 DEF Streams
<1> QED
  BY <1>2, <1>3 DEF Printed

\* Reading the pipes answers with all the command printed.
LEMMA CopyMoves ==
  ASSUME PipeInInv, CommandInv, NEW t \in Threads, CopyOutput(t)
  PROVE  Moves(t)
<1> USE DEF PipeInInv, IInv, TypeOK, CallsTypeOK, PipesTypeOK
<1>1. /\ pc[t] = "copy" /\ child[t] \in Pids /\ NoPid \notin Pids /\ Piping(t)
      /\ exit[child[t]] \in {"ok", "fail"}
  BY NamesAssumption DEF CopyOutput, CallInv, RunInv, CommandInv, Piping
<1>2. /\ UNCHANGED <<method, child, load, todo, exit>> /\ pc'[t] = "idle"
      /\ outcome'[t] = IF exit[child[t]] = "ok" THEN "output" ELSE "ExecutionIssue"
      /\ got'[t] = fill[child[t]]
  BY DEF CopyOutput, Finish, Goto, procVars
<1>3. HasRun(t) /\ HasRun(t)' /\ Piping(t)' /\ Printed(child[t])' = Printed(child[t])
  BY <1>1, <1>2 DEF HasRun, Piping, Printed
<1>4. got'[t]["data"] = Printed(child[t])
  BY <1>1, <1>2, PipesHoldOutput
<1>5. Run(t)!Return \/ Run(t)!Throw
  BY <1>1, <1>2, <1>3, <1>4 DEF Run!Return, Run!Throw, Run!Answer
<1> QED
  BY <1>5 DEF Moves, Run!Next

\* What a thread does shows in its own call at most.
LEMMA ThreadMovesAll ==
  ASSUME PipeInInv, CommandInv, NEW u \in Threads, ThreadMoves(u), NEW t \in Threads
  PROVE  Moves(t)
<1>1. CASE t = u
  <2>1. CASE Call(u)
    BY <1>1, <2>1, BeginMoves DEF PipeInInv, IInv
  <2>2. CASE ThreadStep(u) \/ JoinInterrupted(u)
    BY <1>1, <2>2, ForkMoves, ForkFailsMoves, ParentMoves, WaitMoves, CopyMoves
       DEF ThreadStep
  <2> QED
    BY <2>1, <2>2 DEF ThreadMoves
<1>2. CASE t # u
  <2>1. UNCHANGED <<method[t], child[t], outcome[t], got[t], pc[t]>>
    BY <1>2, ThreadsApart DEF PipeInInv, IInv
  <2>2. UNCHANGED <<load, todo, exit>>
    BY OutputsApart
  <2>3. UNCHANGED Run(t)!vars
    BY <2>1, <2>2, Unmoved
  <2> QED
    BY <2>3 DEF Moves
<1> QED
  BY <1>1, <1>2

\* A process moves the calls by printing and by ending.
LEMMA ProcessMovesAll ==
  ASSUME PipeInInv, CommandInv, NEW p \in Pids, ProcessStep(p), NEW t \in Threads
  PROVE  Moves(t)
<1> USE DEF PipeInInv, IInv, TypeOK, ProcsTypeOK
<1>1. UNCHANGED <<pc, method, child, outcome, got>>
  BY ProcessFrame, ProcessStages DEF callVars
<1>2. HasRun(t) => child[t] \in Pids
  BY DEF CommandInv
<1>3. HasRun(t)' <=> HasRun(t)
  BY <1>1 DEF HasRun, Piping
<1>4. Piping(t)' <=> Piping(t)
  BY <1>1 DEF Piping
<1>5. ASSUME UNCHANGED <<exit, load, todo>> PROVE Moves(t)
  BY <1>1, <1>5, Unmoved DEF Moves
<1>6. ASSUME NEW e \in {"ok", "fail", "signal"}, End(p, e), p \in Alive PROVE Moves(t)
  <2>1. /\ exit' = [exit EXCEPT ![p] = e] /\ UNCHANGED <<load, todo>>
        /\ exit[p] = "none"
    BY <1>6 DEF End, FlowInv, Alive
  <2>2. CASE HasRun(t) /\ child[t] = p
    <3>1. Printed(child[t])' = Printed(child[t]) /\ exit'[child[t]] = e
      BY <1>1, <1>2, <2>1, <2>2 DEF Printed
    <3>2. Run(t)!End
      BY <1>1, <1>3, <1>4, <2>1, <2>2, <3>1 DEF Run!End
    <3> QED
      BY <3>2 DEF Moves, Run!Next
  <2>3. CASE ~(HasRun(t) /\ child[t] = p)
    <3>1. HasRun(t) => exit'[child[t]] = exit[child[t]]
      BY <1>2, <2>1, <2>3
    <3> QED
      BY <1>1, <2>1, <3>1, Unmoved DEF Moves
  <2> QED
    BY <2>2, <2>3
<1>7. CASE ChildDefaults(p) \/ ChildUnmasks(p) \/ SendTerm(p)
  BY <1>5, <1>7 DEF ChildDefaults, ChildUnmasks, SendTerm
<1>8. CASE ChildExecFails(p) \/ ProgramExits(p) \/ DeliverTerm(p)
  BY <1>6, <1>8 DEF ChildExecFails, ProgramExits, DeliverTerm, Alive, ChildInv
<1>9. CASE ChildExecs(p)
  <2>1. PICK o \in Outputs \cup {Nothing} : /\ load' = [load EXCEPT ![p] = o]
                                            /\ todo' = [todo EXCEPT ![p] = o]
    BY <1>9 DEF ChildExecs
  <2>2. exit' = exit /\ load[p] = Nothing /\ todo[p] = Nothing
    BY <1>9 DEF ChildExecs, FlowInv
  <2>3. o \in [Streams -> Nat]
    BY <2>1, OutputsAssumption, NothingType
  <2>4. \A s \in Streams : load'[p][s] - todo'[p][s] = load[p][s] - todo[p][s]
    BY <2>1, <2>2, <2>3 DEF Nothing
  <2>5. \A q \in Pids \ {p} : load'[q] = load[q] /\ todo'[q] = todo[q]
    BY <2>1
  <2>6. HasRun(t) =>
           /\ exit'[child[t]] = exit[child[t]]
           /\ load'[child[t]]["data"] - todo'[child[t]]["data"]
                 = load[child[t]]["data"] - todo[child[t]]["data"]
    BY <1>2, <2>2, <2>4, <2>5 DEF Streams
  <2> QED
    BY <1>1, <2>6, Unmoved DEF Moves
<1>10. ASSUME NEW s \in Streams, Write(p, s) PROVE Moves(t)
  <2>1. /\ state[p] = "running" /\ exit[p] = "none" /\ todo[p][s] > 0
        /\ todo' = [todo EXCEPT ![p] = [todo[p] EXCEPT ![s] = @ - 1]]
        /\ UNCHANGED <<exit, load>>
    BY <1>10 DEF Write, FlowInv
  <2>2. CASE HasRun(t) /\ child[t] = p
    <3>1. load[p] \in [Streams -> Nat] /\ todo[p] \in [Streams -> Nat]
      OBVIOUS
    <3>2. todo'[p] = [todo[p] EXCEPT ![s] = @ - 1]
      BY <2>1
    <3>3. todo'[p][s] = todo[p][s] - 1 /\ \A r \in Streams \ {s} : todo'[p][r] = todo[p][r]
      BY <3>1, <3>2
    <3>4. CASE s = "data"
      <4>1. Printed(p)' = Printed(p) + 1
        BY <2>1, <3>1, <3>3, <3>4 DEF Printed
      <4>2. Run(t)!Emit
        BY <1>1, <1>3, <1>4, <2>1, <2>2, <4>1 DEF Run!Emit
      <4> QED
        BY <4>2 DEF Moves, Run!Next
    <3>5. CASE s # "data"
      <4>1. todo'[p]["data"] = todo[p]["data"]
        BY <3>3, <3>5 DEF Streams
      <4> QED
        BY <1>1, <2>1, <2>2, <4>1, Unmoved DEF Moves
    <3> QED
      BY <3>4, <3>5
  <2>3. CASE ~(HasRun(t) /\ child[t] = p)
    <3>1. HasRun(t) => exit'[child[t]] = exit[child[t]] /\ todo'[child[t]] = todo[child[t]]
      BY <1>2, <2>1, <2>3
    <3> QED
      BY <1>1, <2>1, <3>1, Unmoved DEF Moves
  <2> QED
    BY <2>2, <2>3
<1> QED
  BY <1>7, <1>8, <1>9, <1>10 DEF ProcessStep, ChildStep, ProgramStep

\* Every step is a step, or none, of each call's CommandRun.
LEMMA NextMoves == PipeInInv /\ CommandInv /\ [Next]_vars => \A t \in Threads : Moves(t)
<1> SUFFICES ASSUME PipeInInv, CommandInv, [Next]_vars, NEW t \in Threads PROVE Moves(t)
  OBVIOUS
<1>1. CASE UNCHANGED vars
  <2>1. UNCHANGED <<pc, method, child, outcome, got, exit, load, todo>>
    BY <1>1 DEF vars, callVars, procVars, pipeVars
  <2> QED
    BY <2>1, Unmoved DEF Moves
<1>2. CASE \E u \in Threads : ThreadMoves(u)
  BY <1>2, ThreadMovesAll
<1>3. CASE \E p \in Pids : ProcessStep(p)
  BY <1>3, ProcessMovesAll
<1> QED
  BY <1>1, <1>2, <1>3 DEF Next, ThreadMoves, ProcessStep

\* At the start no call has a command.
LEMMA InitRuns == Init => CommandInv /\ \A t \in Threads : Run(t)!Init
<1> SUFFICES ASSUME Init PROVE CommandInv /\ \A t \in Threads : Run(t)!Init
  OBVIOUS
<1>1. CommandInv
  BY DEF Init, CommandInv, HasRun
<1>2. ASSUME NEW t \in Threads PROVE Run(t)!Init
  BY DEF Init, Run!Init, HasRun, Piping
<1> QED
  BY <1>1, <1>2

\* Every pipe_in call runs its command once at most, returns nothing but all that
\* a successful command wrote to standard output, or nothing at all if there is
\* no command, and throws when the command failed.
THEOREM PipeInImplementsRun == Spec => PipeInRunsCommand
<1>1. Init => PipeInInv /\ CommandInv /\ \A t \in Threads : Run(t)!Init
  BY InitPipeInInv, InitRuns
<1>2. PipeInInv /\ CommandInv /\ [Next]_vars => PipeInInv' /\ CommandInv'
  BY NextPipeInInv, CommandStepInv
<1>3. PipeInInv /\ CommandInv /\ [Next]_vars
        => [\A t \in Threads : [Run(t)!Next]_(Run(t)!vars)]_vars
  BY NextMoves DEF Moves
<1> QED
  BY <1>1, <1>2, <1>3, PTL DEF Spec, PipeInRunsCommand

-----------------------------------------------------------------------------
(* To whom the end of a process is told. *)

\* The end of a process that is gone was told, or lost; and what a join that is
\* over says of it.
ToldInv ==
    /\ \A p \in told : state[p] = "gone"
    /\ \A t \in Threads :
          method[t] = "join" /\ outcome[t] # "none" => child[t] \in Pids
    /\ EndsAreTold

\* Every step keeps it.
LEMMA ToldStepInv ==
  PipeInInv /\ CommandInv /\ ToldInv /\ [Next]_vars => ToldInv'
<1> SUFFICES ASSUME PipeInInv, CommandInv, ToldInv PROVE [Next]_vars => ToldInv'
  OBVIOUS
<1> USE DEF PipeInInv, IInv, TypeOK, CallsTypeOK, ToldInv, EndsAreTold
<1> USE DEF callVars, procVars, pipeVars, Begin, Finish, Goto
<1>1. ASSUME NEW t \in Threads, Start(t) \/ PipeOut(t) \/ PipeIn(t) PROVE ToldInv'
  BY <1>1 DEF Start, PipeOut, PipeIn
<1>2. ASSUME NEW t \in Threads, StartAndForget(t) PROVE ToldInv'
  BY <1>2 DEF StartAndForget
<1>3. ASSUME NEW t \in Threads, OpenFails(t) \/ PipesFail(t) PROVE ToldInv'
  BY <1>3 DEF OpenFails, PipesFail
<1>4. ASSUME NEW t \in Threads, NEW p \in Pids, Join(t, p) PROVE ToldInv'
  BY <1>4 DEF Join
<1>5. ASSUME NEW t \in Threads, NEW p \in Pids, Fork(t, p) PROVE ToldInv'
  <2>1. /\ state[p] = "unused" /\ state' = [state EXCEPT ![p] = "forked"]
        /\ UNCHANGED <<method, outcome, told, sigcld, exit>>
        /\ method[t] # "join" /\ child' = [child EXCEPT ![t] = p]
    BY <1>5 DEF Fork, CallInv, LaunchMethods
  <2>2. \A q \in Pids : state'[q] = "gone" <=> state[q] = "gone"
    BY <2>1 DEF ProcsTypeOK
  <2>3. \A u \in Threads : method[u] = "join" => child'[u] = child[u]
    BY <2>1
  <2> QED
    BY <2>1, <2>2, <2>3
<1>6. ASSUME NEW t \in Threads, ForkFails(t) \/ Restore(t) \/ CloseWriteEnds(t)
      PROVE  ToldInv'
  <2>1. method[t] # "join" /\ \A u \in Threads \ {t} : outcome'[u] = outcome[u]
    BY <1>6 DEF ForkFails, Restore, CloseWriteEnds, CallInv, RunInv, LaunchMethods
  <2>2. UNCHANGED <<method, child, told, sigcld, state, exit>>
    BY <1>6 DEF ForkFails, Restore, CloseWriteEnds
  <2> QED
    BY <2>1, <2>2
<1>7. ASSUME NEW t \in Threads, JoinReaps(t) PROVE ToldInv'
  <2>1. /\ child[t] \in Pids /\ state[child[t]] = "zombie"
        /\ state' = [state EXCEPT ![child[t]] = "gone"]
        /\ told' = told \cup {child[t]}
        /\ UNCHANGED <<method, child, sigcld, exit>>
    BY <1>7 DEF JoinReaps, CallInv
  <2>2. /\ state'[child[t]] = "gone"
        /\ \A q \in Pids : q # child[t] => state'[q] = state[q]
    BY <2>1 DEF ProcsTypeOK
  <2>3. exit[child[t]] \in {"ok", "fail", "signal"}
    BY <2>1 DEF CommandInv, ProcsTypeOK
  <2>4. \A u \in Threads \ {t} : outcome'[u] = outcome[u]
    BY <1>7 DEF JoinReaps
  <2>5. ASSUME method[t] = "join"
        PROVE  \/ outcome'[t] = "SignalIssue" /\ exit[child[t]] = "signal"
               \/ /\ outcome'[t] \in {"status", "TerminationIssue"}
                  /\ exit[child[t]] \in {"ok", "fail"}
    <3>1. PICK throw_non_zero \in BOOLEAN :
             outcome'[t] = JoinOutcome(throw_non_zero, exit[child[t]])
      BY <1>7, <2>5 DEF JoinReaps
    <3>2. CASE exit[child[t]] = "signal"
      BY <3>1, <3>2 DEF JoinOutcome
    <3>3. CASE exit[child[t]] \in {"ok", "fail"}
      BY <3>1, <3>3, Zenon DEF JoinOutcome
    <3> QED
      BY <2>3, <3>2, <3>3
  <2> QED
    BY <2>1, <2>2, <2>4, <2>5
<1>8. ASSUME NEW t \in Threads, JoinFails(t) \/ JoinInterrupted(t) PROVE ToldInv'
  <2>1. /\ outcome' = [outcome EXCEPT ![t] = "OksSystemCallIssue"]
        /\ child[t] \in Pids
        /\ t \in Interrupts \/ state[child[t]] = "gone"
        /\ UNCHANGED <<method, child, told, sigcld, state, exit>>
    BY <1>8 DEF JoinFails, JoinInterrupted, Interrupted, CallInv
  <2> QED
    BY <2>1
<1>9. ASSUME NEW t \in Threads, CopyOutput(t) PROVE ToldInv'
  <2>1. method[t] # "join" /\ \A u \in Threads \ {t} : outcome'[u] = outcome[u]
    BY <1>9 DEF CopyOutput, RunInv
  <2>2. UNCHANGED <<method, child, told, sigcld, state, exit>>
    BY <1>9 DEF CopyOutput
  <2> QED
    BY <2>1, <2>2
<1>10. ASSUME NEW p \in Pids, ProcessStep(p) PROVE ToldInv'
  BY <1>10, ProcessFrame, ProcessStages
<1>11. ASSUME UNCHANGED vars PROVE ToldInv'
  BY <1>11 DEF vars
<1> QED
  BY <1>1, <1>2, <1>3, <1>4, <1>5, <1>6, <1>7, <1>8, <1>9, <1>10, <1>11
     DEF Next, Call, ThreadStep, ProcessStep

\* The end of a process is told to a wait for it or, once start_and_forget was
\* called, lost; and a join says how its process ended, or fails because of an
\* interrupt, another join that was told, or that loss.
THEOREM JoinsAreTold == Spec => []EndsAreTold
<1>1. Init => PipeInInv /\ CommandInv /\ ToldInv
  BY InitPipeInInv, InitRuns DEF Init, ToldInv, EndsAreTold
<1>2. PipeInInv /\ CommandInv /\ ToldInv /\ [Next]_vars
        => PipeInInv' /\ CommandInv' /\ ToldInv'
  BY NextPipeInInv, CommandStepInv, ToldStepInv
<1>3. ToldInv => EndsAreTold
  BY DEF ToldInv
<1> QED
  BY <1>1, <1>2, <1>3, PTL DEF Spec

-----------------------------------------------------------------------------
(* What pipe_in leaves open. *)

\* A call has closed its write ends before it waits, and ends with descriptors
\* open only in pipe, fork or join.
LeakInv ==
    \A t \in Threads : method[t] = "pipe_in" =>
        /\ pc[t] \in {"wait", "copy"} => open[t] \cap WriteEnds = {}
        /\ pc[t] = "idle" =>
              /\ open[t] # {} =>
                    \/ child[t] = NoPid
                    \/ outcome[t] \in {"OksSystemCallIssue", "SignalIssue"}
              /\ open[t] \cap WriteEnds # {} => child[t] = NoPid

\* Every step keeps it.
LEMMA LeakStepInv ==
  PipeInInv /\ CommandInv /\ LeakInv /\ [Next]_vars => LeakInv'
<1> SUFFICES ASSUME PipeInInv, CommandInv, LeakInv PROVE [Next]_vars => LeakInv'
  OBVIOUS
<1> USE DEF PipeInInv, IInv, TypeOK, CallsTypeOK, PipesTypeOK, LeakInv
<1> USE DEF callVars, procVars, pipeVars, Begin, Finish, Goto
<1>1. ASSUME NEW t \in Threads,
             \/ Start(t) \/ StartAndForget(t) \/ PipeOut(t) \/ OpenFails(t)
             \/ \E p \in Pids : Join(t, p)
      PROVE  LeakInv'
  <2>1. /\ method'[t] # "pipe_in" /\ UNCHANGED open
        /\ \A u \in Threads \ {t} : UNCHANGED <<method[u], pc[u], outcome[u], child[u]>>
    BY <1>1 DEF Start, StartAndForget, PipeOut, OpenFails, Join
  <2> QED
    BY <2>1
<1>2. ASSUME NEW t \in Threads, PipeIn(t) PROVE LeakInv'
  BY <1>2 DEF PipeIn
<1>3. ASSUME NEW t \in Threads, PipesFail(t) PROVE LeakInv'
  BY <1>3 DEF PipesFail
<1>4. ASSUME NEW t \in Threads, NEW p \in Pids, Fork(t, p) PROVE LeakInv'
  BY <1>4 DEF Fork
<1>5. ASSUME NEW t \in Threads, ForkFails(t) PROVE LeakInv'
  BY <1>5 DEF ForkFails, CommandInv
<1>6. ASSUME NEW t \in Threads, Restore(t) PROVE LeakInv'
  BY <1>6 DEF Restore
<1>7. ASSUME NEW t \in Threads, CloseWriteEnds(t) PROVE LeakInv'
  BY <1>7 DEF CloseWriteEnds
<1>8. ASSUME NEW t \in Threads, JoinReaps(t) PROVE LeakInv'
  <2>1. /\ pc[t] = "wait" /\ pc'[t] \in {"copy", "idle"} /\ UNCHANGED <<method, open, child>>
        /\ \A u \in Threads \ {t} : UNCHANGED <<pc[u], outcome[u]>>
    BY <1>8 DEF JoinReaps
  <2>2. ASSUME method[t] = "pipe_in", pc'[t] = "idle" PROVE outcome'[t] = "SignalIssue"
    BY <1>8, <2>2 DEF JoinReaps, JoinOutcome
  <2> QED
    BY <2>1, <2>2
<1>9. ASSUME NEW t \in Threads, JoinFails(t) \/ JoinInterrupted(t) PROVE LeakInv'
  BY <1>9 DEF JoinFails, JoinInterrupted
<1>10. ASSUME NEW t \in Threads, CopyOutput(t) PROVE LeakInv'
  BY <1>10 DEF CopyOutput
<1>11. ASSUME NEW p \in Pids, ProcessStep(p) PROVE LeakInv'
  <2>1. UNCHANGED <<callVars, open>>
    BY <1>11, ProcessFrame DEF ProcessStep, ChildStep, ProgramStep, ChildDefaults,
       ChildUnmasks, ChildExecs, ChildExecFails, Write, ProgramExits, SendTerm,
       DeliverTerm, End
  <2> QED
    BY <2>1
<1>12. ASSUME UNCHANGED vars PROVE LeakInv'
  BY <1>12 DEF vars
<1> QED
  BY <1>1, <1>2, <1>3, <1>4, <1>5, <1>6, <1>7, <1>8, <1>9, <1>10, <1>11, <1>12
     DEF Next, Call, ThreadStep, ProcessStep

\* pipe_in leaves descriptors open only when it fails in pipe, in fork or in its
\* join, and write ends only in the first two.
THEOREM LeaksAreFailures == Spec => []LeaksOnlyOnFailure
<1>1. Init => PipeInInv /\ CommandInv /\ LeakInv
  BY InitPipeInInv, InitRuns DEF Init, LeakInv
<1>2. PipeInInv /\ CommandInv /\ LeakInv /\ [Next]_vars
        => PipeInInv' /\ CommandInv' /\ LeakInv'
  BY NextPipeInInv, CommandStepInv, LeakStepInv
<1>3. LeakInv => LeaksOnlyOnFailure
  BY DEF LeakInv, LeaksOnlyOnFailure
<1> QED
  BY <1>1, <1>2, <1>3, PTL DEF Spec

=============================================================================
