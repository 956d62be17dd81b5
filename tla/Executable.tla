----------------------------- MODULE Executable -----------------------------
(***************************************************************************)
(* How okssystem launches programs (Executable.cpp) and waits for them     *)
(* (Process::join in Process.cpp).                                         *)
(*                                                                         *)
(* The threads of one application call start, start_and_forget, pipe_out,  *)
(* pipe_in and join concurrently.  Each launch blocks the signals of the   *)
(* calling thread, forks, and unblocks them in the parent and in the       *)
(* child; the child resets signal handlers and executes the program.  The  *)
(* model keeps what a launch shares with the others:                       *)
(*   - the signal mask of each thread, and the copy a child inherits;      *)
(*   - the handlers of the application, which a child has until it resets  *)
(*     them or executes its program;                                       *)
(*   - the disposition of SIGCLD, one for the whole application;           *)
(*   - the pipes of a pipe_in call, whose write ends every child forked in *)
(*     the meantime inherits, whichever thread forked it.                  *)
(*                                                                         *)
(* A program is the amount it writes on each stream and its exit status.   *)
(* A pid stands for one launch and is never reused: the size of Pids       *)
(* bounds the number of launches of a behaviour.                           *)
(***************************************************************************)
EXTENDS Integers

CONSTANTS
    Threads,        \* the threads of the application
    Pids,           \* the processes the kernel can create
    NoPid,          \* no process
    NoThread,       \* no thread
    Methods,        \* the launch methods the application calls
    Outputs,        \* what a program may write: an amount for each stream
    PipeCapacity,   \* how much a pipe holds before a writer blocks
    Interrupts      \* the threads whose waits a signal handler may interrupt

Streams == {"data", "error"}
Pipes   == {"input", "data", "error"}
Ends    == Pipes \X {"read", "write"}
Nothing == [s \in Streams |-> 0]

LaunchMethods == {"start", "start_and_forget", "pipe_out", "pipe_in"}

ASSUME NamesAssumption      == NoPid \notin Pids /\ NoThread \notin Threads
ASSUME MethodsAssumption    == Methods \subseteq LaunchMethods
ASSUME OutputsAssumption    == Outputs \subseteq [Streams -> Nat]
ASSUME CapacityAssumption   == PipeCapacity \in Nat \ {0}
ASSUME InterruptsAssumption == Interrupts \subseteq Threads

VARIABLES
    \* the calls of the threads
    pc,         \* pc[t]: where t is in its call, or "idle"
    method,     \* method[t]: the call t makes, or last made
    sigmask,    \* sigmask[t]: "own", the mask the application chose, or "all"
    old_set,    \* old_set[t]: the mask the call saved
    child,      \* child[t]: the process the call launched or joins
    outcome,    \* outcome[t]: what the last call returned or threw
    sigcld,     \* the application's disposition of SIGCLD
    handles,    \* the processes the application holds a Process for, to join
    openFailed, \* history: threads on which pipe_out failed to open a file
    told,       \* history: processes whose end a waitpid returned to the
                \* call that waits for them
    \* the processes
    state,      \* state[p]: how far p is
    launcher,   \* launcher[p]: the thread that forked p
    by,         \* by[p]: the method that forked p
    mask,       \* mask[p]: its signal mask
    saved,      \* saved[p]: its copy of old_set
    handlers,   \* handlers[p]: whose handlers TERM and INT have in p
    cld,        \* cld[p]: its disposition of SIGCLD
    term,       \* processes with a pending TERM
    exit,       \* exit[p]: how p ended
    load,       \* load[p]: what its program writes in all
    todo,       \* todo[p]: what its program has still to write
    \* the pipes of pipe_in
    open,       \* open[t]: the ends the application has open for the call of t
    heldBy,     \* heldBy[t]: the processes with a copy of their write ends
    fill,       \* fill[p][s]: what the pipe of stream s of the child p holds
    got         \* got[t][s]: what the call of t read from it

callVars == <<pc, method, sigmask, old_set, child, outcome, sigcld, handles,
              openFailed, told>>
procVars == <<state, launcher, by, mask, saved, handlers, cld, term,
              exit, load, todo>>
pipeVars == <<open, heldBy, fill, got>>
vars == <<callVars, procVars, pipeVars>>

Masks  == {"own", "all"}
Points == {"idle", "fork", "restore", "close", "wait", "copy"}
Stages == {"unused", "forked", "defaulted", "unmasked", "running", "zombie",
           "gone"}
Dispositions == {"default", "ignored"}
Outcomes == {"none", "process", "output", "status", "ExecutionIssue",
             "SignalIssue", "TerminationIssue", "OksSystemCallIssue",
             "OpenFileIssue"}

CallsTypeOK ==
    /\ pc         \in [Threads -> Points]
    /\ method     \in [Threads -> LaunchMethods \cup {"join"}]
    /\ sigmask    \in [Threads -> Masks]
    /\ old_set    \in [Threads -> Masks]
    /\ child      \in [Threads -> Pids \cup {NoPid}]
    /\ outcome    \in [Threads -> Outcomes]
    /\ sigcld     \in Dispositions
    /\ handles    \in SUBSET Pids
    /\ openFailed \in SUBSET Threads
    /\ told       \in SUBSET Pids

ProcsTypeOK ==
    /\ state      \in [Pids -> Stages]
    /\ launcher   \in [Pids -> Threads \cup {NoThread}]
    /\ by         \in [Pids -> LaunchMethods]
    /\ mask       \in [Pids -> Masks]
    /\ saved      \in [Pids -> Masks]
    /\ handlers   \in [Pids -> {"parent", "default"}]
    /\ cld        \in [Pids -> Dispositions]
    /\ term       \in SUBSET Pids
    /\ exit       \in [Pids -> {"none", "ok", "fail", "signal"}]
    /\ load       \in [Pids -> [Streams -> Nat]]
    /\ todo       \in [Pids -> [Streams -> Nat]]

PipesTypeOK ==
    /\ open       \in [Threads -> SUBSET Ends]
    /\ heldBy     \in [Threads -> SUBSET Pids]
    /\ fill       \in [Pids -> [Streams -> Nat]]
    /\ got        \in [Threads -> [Streams -> Nat]]

TypeOK == CallsTypeOK /\ ProcsTypeOK /\ PipesTypeOK

Init ==
    /\ pc         = [t \in Threads |-> "idle"]
    /\ method     = [t \in Threads |-> "join"]
    /\ sigmask    = [t \in Threads |-> "own"]
    /\ old_set    = [t \in Threads |-> "own"]
    /\ child      = [t \in Threads |-> NoPid]
    /\ outcome    = [t \in Threads |-> "none"]
    /\ sigcld     = "default"
    /\ handles    = {}
    /\ openFailed = {}
    /\ told       = {}
    /\ state      = [p \in Pids |-> "unused"]
    /\ launcher   = [p \in Pids |-> NoThread]
    /\ by         = [p \in Pids |-> "start"]
    /\ mask       = [p \in Pids |-> "own"]
    /\ saved      = [p \in Pids |-> "own"]
    /\ handlers   = [p \in Pids |-> "default"]
    /\ cld        = [p \in Pids |-> "default"]
    /\ term       = {}
    /\ exit       = [p \in Pids |-> "none"]
    /\ load       = [p \in Pids |-> Nothing]
    /\ todo       = [p \in Pids |-> Nothing]
    /\ open       = [t \in Threads |-> {}]
    /\ heldBy     = [t \in Threads |-> {}]
    /\ fill       = [p \in Pids |-> Nothing]
    /\ got        = [t \in Threads |-> Nothing]

-----------------------------------------------------------------------------
(* Beginning and ending a call. *)

WriteEnds == Pipes \X {"write"}

\* The call of t continues at q.
Goto(t, q) == pc' = [pc EXCEPT ![t] = q]

\* The call of t ends with o, a returned value or an exception; its old_set goes.
Finish(t, o) ==
    /\ Goto(t, "idle")
    /\ outcome' = [outcome EXCEPT ![t] = o]
    /\ old_set' = [old_set EXCEPT ![t] = "own"]

\* Thread t calls m, and continues at q.
Begin(t, m, q) ==
    /\ pc[t] = "idle"
    /\ method'  = [method EXCEPT ![t] = m]
    /\ child'   = [child EXCEPT ![t] = NoPid]
    /\ outcome' = [outcome EXCEPT ![t] = "none"]
    /\ Goto(t, q)

\* Mutant of Block: the mask is read, not set.
BlockNothing(t) ==
    /\ old_set' = [old_set EXCEPT ![t] = sigmask[t]]
    /\ UNCHANGED sigmask

\* pthread_sigmask(SIG_SETMASK, &new_set, &old_set) with every signal set.
Block(t) ==
    /\ old_set' = [old_set EXCEPT ![t] = sigmask[t]]
    /\ sigmask' = [sigmask EXCEPT ![t] = "all"]

\* Mutant of Unblock: the parent forgets to restore its mask.
UnblockForgotten(t) == UNCHANGED sigmask

\* pthread_sigmask(SIG_SETMASK, &old_set, NULL) in the application.
Unblock(t) == sigmask' = [sigmask EXCEPT ![t] = old_set[t]]

-----------------------------------------------------------------------------
(* Up to the fork. *)

Start(t) ==
    /\ "start" \in Methods
    /\ Begin(t, "start", "fork")
    /\ Block(t)
    /\ UNCHANGED <<sigcld, handles, openFailed, told, procVars, pipeVars>>

\* Mutant of StartAndForget: SIGCLD is not ignored.
StartOnly(t) ==
    /\ "start_and_forget" \in Methods
    /\ Begin(t, "start_and_forget", "fork")
    /\ Block(t)
    /\ UNCHANGED <<sigcld, handles, openFailed, told, procVars, pipeVars>>

\* signal(SIGCLD, SIG_IGN) is for the whole application, and for good.
StartAndForget(t) ==
    /\ "start_and_forget" \in Methods
    /\ Begin(t, "start_and_forget", "fork")
    /\ Block(t)
    /\ sigcld' = "ignored"
    /\ UNCHANGED <<handles, openFailed, told, procVars, pipeVars>>

\* The three Descriptors of pipe_out open their files.
PipeOut(t) ==
    /\ "pipe_out" \in Methods
    /\ Begin(t, "pipe_out", "fork")
    /\ Block(t)
    /\ UNCHANGED <<sigcld, handles, openFailed, told, procVars, pipeVars>>

\* One of them throws OpenFileIssue, past every pthread_sigmask of pipe_out but
\* the first.
OpenFails(t) ==
    /\ "pipe_out" \in Methods
    /\ pc[t] = "idle"
    /\ method'     = [method EXCEPT ![t] = "pipe_out"]
    /\ child'      = [child EXCEPT ![t] = NoPid]
    /\ sigmask'    = [sigmask EXCEPT ![t] = "all"]
    /\ outcome'    = [outcome EXCEPT ![t] = "OpenFileIssue"]
    /\ openFailed' = openFailed \cup {t}
    /\ UNCHANGED <<pc, old_set, sigcld, handles, told, procVars, pipeVars>>

\* pipe_in creates its three pipes, then blocks the signals.
PipeIn(t) ==
    /\ "pipe_in" \in Methods
    /\ Begin(t, "pipe_in", "fork")
    /\ Block(t)
    /\ open'   = [open EXCEPT ![t] = Ends]
    /\ heldBy' = [heldBy EXCEPT ![t] = {}]
    /\ got'    = [got EXCEPT ![t] = Nothing]
    /\ UNCHANGED <<sigcld, handles, openFailed, told, procVars, fill>>

\* A pipe cannot be created: those made before it stay open.
PipesFail(t) ==
    /\ "pipe_in" \in Methods
    /\ pc[t] = "idle"
    /\ method'  = [method EXCEPT ![t] = "pipe_in"]
    /\ child'   = [child EXCEPT ![t] = NoPid]
    /\ outcome' = [outcome EXCEPT ![t] = "OksSystemCallIssue"]
    /\ \E made \in {{}, {"input"}, {"input", "data"}} :
          open' = [open EXCEPT ![t] = made \X {"read", "write"}]
    /\ heldBy' = [heldBy EXCEPT ![t] = {}]
    /\ got'    = [got EXCEPT ![t] = Nothing]
    /\ UNCHANGED <<pc, sigmask, old_set, sigcld, handles, openFailed, told, procVars,
                   fill>>

-----------------------------------------------------------------------------
(* The fork, and the parent's side of it. *)

\* The child has a copy of the mask of the thread, of the handlers and SIGCLD
\* disposition of the application, and of every descriptor any thread has open.
Fork(t, p) ==
    /\ pc[t] = "fork"
    /\ state[p] = "unused"
    /\ Goto(t, "restore")
    /\ child'    = [child EXCEPT ![t] = p]
    /\ state'    = [state EXCEPT ![p] = "forked"]
    /\ launcher' = [launcher EXCEPT ![p] = t]
    /\ by'       = [by EXCEPT ![p] = method[t]]
    /\ mask'     = [mask EXCEPT ![p] = sigmask[t]]
    /\ saved'    = [saved EXCEPT ![p] = old_set[t]]
    /\ handlers' = [handlers EXCEPT ![p] = "parent"]
    /\ cld'      = [cld EXCEPT ![p] = sigcld]
    /\ heldBy'   = [u \in Threads |-> IF WriteEnds \cap open[u] # {}
                                        THEN heldBy[u] \cup {p} ELSE heldBy[u]]
    /\ UNCHANGED <<method, sigmask, old_set, outcome, sigcld, handles,
                   openFailed, told, term, exit, load, todo, open, fill, got>>

\* Mutant of ForkFails: the -1 of fork is taken for a process.
ForkUnchecked(t) ==
    /\ pc[t] = "fork"
    /\ Unblock(t)
    /\ Finish(t, IF method[t] = "pipe_in" THEN "output" ELSE "process")
    /\ handles' = IF method[t] = "pipe_in" THEN handles ELSE handles \cup {NoPid}
    /\ UNCHANGED <<method, child, sigcld, openFailed, told, procVars, pipeVars>>

\* fork returns -1: the mask is restored, pipe_in returns an empty string, as
\* for a program that prints nothing, and leaves its six descriptors open; the
\* others throw.
ForkFails(t) ==
    /\ pc[t] = "fork"
    /\ Unblock(t)
    /\ Finish(t, IF method[t] = "pipe_in" THEN "output" ELSE "OksSystemCallIssue")
    /\ UNCHANGED <<method, child, sigcld, handles, openFailed, told, procVars,
                   pipeVars>>

\* The parent restores its mask; all but pipe_in then return a Process.
Restore(t) ==
    /\ pc[t] = "restore"
    /\ Unblock(t)
    /\ IF method[t] = "pipe_in"
         THEN Goto(t, "close") /\ UNCHANGED <<old_set, outcome, handles>>
         ELSE /\ Finish(t, "process")
              /\ handles' = handles \cup {child[t]}
    /\ UNCHANGED <<method, child, sigcld, openFailed, told, procVars, pipeVars>>

\* Mutant of CloseWriteEnds: the ends of two pipes stay open.
CloseDataEnd(t) ==
    /\ pc[t] = "close"
    /\ open' = [open EXCEPT ![t] = @ \ {<<"data", "write">>}]
    /\ Goto(t, "wait")
    /\ UNCHANGED <<method, sigmask, old_set, child, outcome, sigcld, handles,
                   openFailed, told, procVars, heldBy, fill, got>>

\* pipe_in closes the parent's write ends and joins the child.
CloseWriteEnds(t) ==
    /\ pc[t] = "close"
    /\ open' = [open EXCEPT ![t] = @ \ WriteEnds]
    /\ Goto(t, "wait")
    /\ UNCHANGED <<method, sigmask, old_set, child, outcome, sigcld, handles,
                   openFailed, told, procVars, heldBy, fill, got>>

-----------------------------------------------------------------------------
(* Process::join, called by the application or by pipe_in. *)

\* The application joins a process it holds a Process for.  join is const: any
\* number of threads may join one process, and again when it is gone.
Join(t, p) ==
    /\ pc[t] = "idle"
    /\ p \in handles
    /\ method'  = [method EXCEPT ![t] = "join"]
    /\ child'   = [child EXCEPT ![t] = p]
    /\ outcome' = [outcome EXCEPT ![t] = "none"]
    /\ Goto(t, "wait")
    /\ UNCHANGED <<sigmask, old_set, sigcld, handles, openFailed, told, procVars,
                   pipeVars>>

\* What join makes of a process that ended with e: the caller chooses whether
\* to throw a status that is not zero.
JoinOutcome(throw_non_zero, e) ==
    CASE e = "signal"                  -> "SignalIssue"
      [] e = "fail" /\ throw_non_zero  -> "TerminationIssue"
      [] OTHER                         -> "status"

\* Mutants of JoinReaps: pipe_in goes on to read after a signal too ...
JoinIgnoresSignals(t) ==
    LET p == child[t]
    IN  /\ pc[t] = "wait"
        /\ state[p] = "zombie"
        /\ state' = [state EXCEPT ![p] = "gone"]
        /\ told'  = told \cup {p}
        /\ IF method[t] = "pipe_in"
             THEN Goto(t, "copy") /\ UNCHANGED <<old_set, outcome>>
             ELSE \E throw_non_zero \in BOOLEAN :
                     Finish(t, JoinOutcome(throw_non_zero, exit[p]))
        /\ UNCHANGED <<method, sigmask, child, sigcld, handles, openFailed,
                       launcher, by, mask, saved, handlers, cld, term, exit,
                       load, todo, pipeVars>>

\* ... or waitpid(-1, ...) takes any child, and join throws if it is not its own.
JoinReapsAny(t) ==
    \E p \in Pids :
        /\ pc[t] = "wait"
        /\ state[p] = "zombie"
        /\ state' = [state EXCEPT ![p] = "gone"]
        /\ told'  = told \cup ({p} \cap {child[t]})
        /\ IF p # child[t] THEN Finish(t, "OksSystemCallIssue")
           ELSE IF method[t] = "pipe_in" /\ exit[p] # "signal"
             THEN Goto(t, "copy") /\ UNCHANGED <<old_set, outcome>>
             ELSE \E throw_non_zero \in BOOLEAN :
                     Finish(t, JoinOutcome(throw_non_zero, exit[p]))
        /\ UNCHANGED <<method, sigmask, child, sigcld, handles, openFailed,
                       launcher, by, mask, saved, handlers, cld, term, exit,
                       load, todo, pipeVars>>

\* waitpid reaps the child and returns how it ended.  pipe_in does not let join
\* throw a status, and goes on to read.
JoinReaps(t) ==
    LET p == child[t]
    IN  /\ pc[t] = "wait"
        /\ state[p] = "zombie"
        /\ state' = [state EXCEPT ![p] = "gone"]
        /\ told'  = told \cup {p}
        /\ IF method[t] = "pipe_in" /\ exit[p] # "signal"
             THEN Goto(t, "copy") /\ UNCHANGED <<old_set, outcome>>
             ELSE \E throw_non_zero \in BOOLEAN :
                     Finish(t, JoinOutcome(throw_non_zero, exit[p]))
        /\ UNCHANGED <<method, sigmask, child, sigcld, handles, openFailed,
                       launcher, by, mask, saved, handlers, cld, term, exit,
                       load, todo, pipeVars>>

\* waitpid fails with ECHILD: another join had the child, or the kernel reaped
\* it by itself.
JoinFails(t) ==
    /\ pc[t] = "wait"
    /\ state[child[t]] = "gone"
    /\ Finish(t, "OksSystemCallIssue")
    /\ UNCHANGED <<method, sigmask, child, sigcld, handles, openFailed, told,
                   procVars, pipeVars>>

\* A handler of the application interrupts the wait of t in a system call.
Interrupted(t) == t \in Interrupts /\ sigmask[t] = "own"

\* waitpid fails with EINTR: join does not retry.
JoinInterrupted(t) ==
    /\ pc[t] = "wait"
    /\ Interrupted(t)
    /\ Finish(t, "OksSystemCallIssue")
    /\ UNCHANGED <<method, sigmask, child, sigcld, handles, openFailed, told,
                   procVars, pipeVars>>

\* No process has a write end of the pipes of t any more: a reader of an empty
\* pipe gets to its end instead of waiting.
AtEnd(t) == heldBy[t] = {} /\ open[t] \cap WriteEnds = {}

\* Mutants of CopyOutput: one ignores the exit status, the other leaves the
\* input pipe open.
CopyIgnoresStatus(t) ==
    /\ pc[t] = "copy"
    /\ AtEnd(t) \/ Interrupted(t)
    /\ got'  = [got EXCEPT ![t] = fill[child[t]]]
    /\ fill' = [fill EXCEPT ![child[t]] = Nothing]
    /\ open' = [open EXCEPT ![t] = {}]
    /\ Finish(t, "output")
    /\ UNCHANGED <<method, sigmask, child, sigcld, handles, openFailed, told,
                   procVars, heldBy>>
CopyLeavesInput(t) ==
    /\ pc[t] = "copy"
    /\ AtEnd(t) \/ Interrupted(t)
    /\ got'  = [got EXCEPT ![t] = fill[child[t]]]
    /\ fill' = [fill EXCEPT ![child[t]] = Nothing]
    /\ open' = [open EXCEPT ![t] = {<<"input", "read">>}]
    /\ Finish(t, IF exit[child[t]] = "ok" THEN "output" ELSE "ExecutionIssue")
    /\ UNCHANGED <<method, sigmask, child, sigcld, handles, openFailed, told,
                   procVars, heldBy>>

\* copy_fd reads each pipe up to its end, or all there is in it if a signal
\* interrupts its wait for more (it takes EINTR for the end).  pipe_in closes the
\* pipes, then returns the data or throws.
CopyOutput(t) ==
    /\ pc[t] = "copy"
    /\ AtEnd(t) \/ Interrupted(t)
    /\ got'  = [got EXCEPT ![t] = fill[child[t]]]
    /\ fill' = [fill EXCEPT ![child[t]] = Nothing]
    /\ open' = [open EXCEPT ![t] = {}]
    /\ Finish(t, IF exit[child[t]] = "ok" THEN "output" ELSE "ExecutionIssue")
    /\ UNCHANGED <<method, sigmask, child, sigcld, handles, openFailed, told,
                   procVars, heldBy>>

-----------------------------------------------------------------------------
(* The child, from the fork to its program. *)

\* Mutant of ChildDefaults: SIGCLD stays as it was.
ChildKeepsCld(p) ==
    /\ state[p] = "forked"
    /\ state'    = [state EXCEPT ![p] = "defaulted"]
    /\ handlers' = [handlers EXCEPT ![p] = "default"]
    /\ UNCHANGED <<callVars, launcher, by, mask, saved, cld, term, exit, load,
                   todo, pipeVars>>

\* signal(SIGTERM, SIG_DFL) and signal(SIGINT, SIG_DFL), and SIGCLD too in the
\* child of start_and_forget.
ChildDefaults(p) ==
    /\ state[p] = "forked"
    /\ state'    = [state EXCEPT ![p] = "defaulted"]
    /\ handlers' = [handlers EXCEPT ![p] = "default"]
    /\ cld'      = [cld EXCEPT ![p] =
                      IF by[p] = "start_and_forget" THEN "default" ELSE @]
    /\ UNCHANGED <<callVars, launcher, by, mask, saved, term, exit,
                   load, todo, pipeVars>>

\* Mutant of ChildUnmasks: the mask stays full.
ChildStaysMasked(p) ==
    /\ state[p] = "defaulted"
    /\ state' = [state EXCEPT ![p] = "unmasked"]
    /\ UNCHANGED <<callVars, launcher, by, mask, saved, handlers, cld, term,
                   exit, load, todo, pipeVars>>

\* pthread_sigmask(SIG_SETMASK, &old_set, NULL) in the child.
ChildUnmasks(p) ==
    /\ state[p] = "defaulted"
    /\ state' = [state EXCEPT ![p] = "unmasked"]
    /\ mask'  = [mask EXCEPT ![p] = saved[p]]
    /\ saved' = [saved EXCEPT ![p] = "own"]
    /\ UNCHANGED <<callVars, launcher, by, handlers, cld, term,
                   exit, load, todo, pipeVars>>

\* execv succeeds: handlers become default, mask and ignored signals stay.
\* pipe_in has given the program its pipes with dup2; the output of the other
\* programs goes elsewhere.
ChildExecs(p) ==
    /\ state[p] = "unmasked"
    /\ state'    = [state EXCEPT ![p] = "running"]
    /\ handlers' = [handlers EXCEPT ![p] = "default"]
    /\ \E o \in IF by[p] = "pipe_in" THEN Outputs ELSE {Nothing} :
          /\ load' = [load EXCEPT ![p] = o]
          /\ todo' = [todo EXCEPT ![p] = o]
    /\ UNCHANGED <<callVars, launcher, by, mask, saved, cld, term,
                   exit, pipeVars>>

\* p ends as e says: the kernel forgets its signals, closes its descriptors and
\* keeps it for waitpid, unless the application ignores SIGCLD.
End(p, e) ==
    /\ state'    = [state EXCEPT ![p] =
                      IF sigcld = "ignored" THEN "gone" ELSE "zombie"]
    /\ exit'     = [exit EXCEPT ![p] = e]
    /\ term'     = term \ {p}
    /\ heldBy'   = [t \in Threads |-> heldBy[t] \ {p}]
    /\ mask'     = [mask EXCEPT ![p] = "own"]
    /\ saved'    = [saved EXCEPT ![p] = "own"]
    /\ handlers' = [handlers EXCEPT ![p] = "default"]
    /\ cld'      = [cld EXCEPT ![p] = "default"]
    /\ UNCHANGED <<callVars, launcher, by, load, todo, open, fill, got>>

\* execv fails: ExecutionIssue is caught, and the child calls _exit.
ChildExecFails(p) == state[p] = "unmasked" /\ End(p, "fail")

-----------------------------------------------------------------------------
(* The program, and the signals sent to it. *)

\* The program writes on s; pipe_in does not read before the program has ended,
\* so that the write blocks when the pipe is full.
Write(p, s) ==
    /\ state[p] = "running"
    /\ todo[p][s] > 0
    /\ fill[p][s] < PipeCapacity
    /\ todo' = [todo EXCEPT ![p][s] = @ - 1]
    /\ fill' = [fill EXCEPT ![p][s] = @ + 1]
    /\ UNCHANGED <<callVars, state, launcher, by, mask, saved, handlers, cld,
                   term, exit, load, open, heldBy, got>>

ProgramExits(p) ==
    /\ state[p] = "running"
    /\ todo[p] = Nothing
    /\ \E e \in {"ok", "fail"} : End(p, e)

Alive == {p \in Pids : state[p] \in {"forked", "defaulted", "unmasked", "running"}}

\* Somebody sends TERM: Process::terminate, or a user to the process group.
SendTerm(p) ==
    /\ p \in Alive \ term
    /\ term' = term \cup {p}
    /\ UNCHANGED <<callVars, state, launcher, by, mask, saved, handlers, cld,
                   exit, load, todo, pipeVars>>

\* A pending TERM that is not blocked ends the process by default.  With the
\* handlers of the application it would run one of these in the child instead,
\* which OwnHandlersOnly excludes.
DeliverTerm(p) ==
    /\ p \in term
    /\ mask[p] = "own"
    /\ handlers[p] = "default"
    /\ End(p, "signal")

-----------------------------------------------------------------------------
\* What a thread does by itself once in a call.
ThreadStep(t) ==
    \/ (\E p \in Pids : Fork(t, p)) \/ ForkFails(t)
    \/ Restore(t) \/ CloseWriteEnds(t)
    \/ JoinReaps(t) \/ JoinFails(t) \/ CopyOutput(t)

\* What the child does by itself up to its program.
ChildStep(p) ==
    ChildDefaults(p) \/ ChildUnmasks(p) \/ ChildExecs(p) \/ ChildExecFails(p)

ProgramStep(p) == (\E s \in Streams : Write(p, s)) \/ ProgramExits(p)

Call(t) ==
    \/ Start(t) \/ StartAndForget(t)
    \/ PipeOut(t) \/ OpenFails(t)
    \/ PipeIn(t) \/ PipesFail(t)
    \/ \E p \in Pids : Join(t, p)

Next ==
    \/ \E t \in Threads : Call(t) \/ ThreadStep(t) \/ JoinInterrupted(t)
    \/ \E p \in Pids : \/ ChildStep(p) \/ ProgramStep(p)
                       \/ SendTerm(p) \/ DeliverTerm(p)

Spec == Init /\ [][Next]_vars

\* Threads and children run, programs end, and signals are delivered; that a
\* wait for more output is interrupted is not for sure.
Fairness ==
    /\ \A t \in Threads : WF_vars(ThreadStep(t) /\ (pc[t] = "copy" => AtEnd(t)))
    /\ \A p \in Pids : /\ WF_vars(ChildStep(p))
                       /\ WF_vars(ProgramStep(p))
                       /\ WF_vars(DeliverTerm(p))

FairSpec == Spec /\ Fairness

-----------------------------------------------------------------------------
(* Safety. *)

\* A TERM that reaches a child never runs a handler of the application there:
\* while the child has its handler of TERM its mask holds the signal back
\* (Executable.cpp: sigfillset before fork, SIG_DFL before the child unmasks).
\* INT is treated alike.  Nothing is said of other signals, whose handlers the
\* child keeps until execv.
OwnHandlersOnly == \A p \in term : mask[p] = "own" => handlers[p] = "default"

\* A thread that is not in a call has the mask the application chose, on every
\* path out of a launch but one: the OpenFileIssue of a pipe_out, which makes the
\* comment "Restore the original signal mask in parent" untrue of that path.
MaskRestored ==
    \A t \in Threads : pc[t] = "idle" /\ sigmask[t] = "all" => t \in openFailed

\* A program has all its signals blocked only if its launch came from a thread
\* on which a pipe_out failed before: execv keeps the mask of the child.
ProgramsTakeSignals ==
    \A p \in Pids :
        state[p] = "running" /\ mask[p] = "all" => launcher[p] \in openFailed

\* However many threads launch, join and run pipe_in at a time, no wait takes the
\* end of a process away from its joiners: it is told to pipe_in for its own
\* child, or to a join of a Process for it, and lost only once start_and_forget
\* has made the application ignore SIGCLD.  What join makes of it is how the
\* process ended; a join fails only if a handler interrupts it, another join was
\* told, or the end was lost.  (The comment above join, Process.cpp:140, promises
\* the status of a process that terminates normally without these exceptions.)
EndsAreTold ==
    /\ \A p \in Pids : state[p] = "gone" => p \in told \/ sigcld = "ignored"
    /\ \A t \in Threads : method[t] = "join" =>
          /\ outcome[t] \in {"status", "TerminationIssue"} =>
                child[t] \in told /\ exit[child[t]] \in {"ok", "fail"}
          /\ outcome[t] = "SignalIssue" =>
                child[t] \in told /\ exit[child[t]] = "signal"
          /\ outcome[t] = "OksSystemCallIssue" =>
                t \in Interrupts \/ state[child[t]] = "gone"

\* What start_and_forget launches is never left for waitpid (Executable.cpp: the
\* parent will not wait on the child termination), and can wait for children of
\* its own, although the application ignores SIGCLD and execv keeps that.
ForgottenForGood ==
    \A p \in Pids : by[p] = "start_and_forget" =>
        /\ state[p] # "zombie"
        /\ state[p] = "running" => cld[p] = "default"

\* pipe_in returns the output of a program only if that ended with status zero,
\* and then all the program wrote, on each stream, has been read; when it returns
\* without a program, as fork failed, it returns nothing.
OutputComplete ==
    \A t \in Threads : outcome[t] = "output" =>
        IF child[t] = NoPid THEN got[t] = Nothing
        ELSE exit[child[t]] = "ok" /\ got[t] = load[child[t]]

\* pipe_in leaves descriptors open only when it fails in pipe or fork, or in
\* its join; write ends only when it fails in pipe or fork.
LeaksOnlyOnFailure ==
    \A t \in Threads : pc[t] = "idle" =>
        /\ open[t] # {} /\ method[t] = "pipe_in" =>
              \/ child[t] = NoPid
              \/ outcome[t] \in {"OksSystemCallIssue", "SignalIssue"}
        /\ open[t] \cap WriteEnds # {} /\ method[t] = "pipe_in" =>
              child[t] = NoPid

-----------------------------------------------------------------------------
(* Each thread's pipe_in calls implement CommandRun. *)

Piping(t)  == method[t] = "pipe_in"
HasRun(t)  == Piping(t) /\ child[t] # NoPid
Printed(p) == load[p]["data"] - todo[p]["data"]

\* The caller sees what went to standard output, and that only if pipe_in returns:
\* the exception it throws has the status, not what went to standard error.
Run(t) == INSTANCE CommandRun WITH
    calling <- Piping(t) /\ pc[t] # "idle",
    command <- IF ~HasRun(t) THEN "none"
               ELSE IF exit[child[t]] = "none" THEN "alive" ELSE exit[child[t]],
    printed <- IF HasRun(t) THEN Printed(child[t]) ELSE 0,
    answer  <- IF Piping(t) THEN outcome[t] ELSE "none",
    result  <- IF Piping(t) /\ outcome[t] = "output" THEN got[t]["data"] ELSE 0

\* pipe_in runs its command once at most.  A text that is not empty is all that a
\* command that succeeded wrote to standard output, and a command that ended in
\* any other way ends the call in an exception, whatever the other threads fork,
\* join and read meanwhile.  The empty text says less: fork may have failed
\* (Executable.cpp:403).  The comment above pipe_in (Executable.cpp:406-416)
\* promises more than the code does and than this says: the content of standard
\* error in the exception, ExecFail for exec and PipeIssue for pipe.
PipeInRunsCommand ==
    /\ \A t \in Threads : Run(t)!Init
    /\ [][\A t \in Threads : [Run(t)!Next]_(Run(t)!vars)]_vars

-----------------------------------------------------------------------------
(* Liveness. *)

\* Every pipe_in call ends, with a value or an exception (the comment above
\* pipe_in: it waits for the termination, then returns or throws).
PipeInReturns ==
    \A t \in Threads :
        method[t] = "pipe_in" /\ pc[t] # "idle" ~> pc[t] = "idle"

\* A program that waits for a full pipe to be read.
Stuck(p) ==
    /\ state[p] = "running"
    /\ \E s \in Streams : todo[p][s] > 0 /\ fill[p][s] = PipeCapacity

\* What can be said of it: every pipe_in call ends as long as no program, of its
\* own or of another thread, fills a pipe.
PipeInReturnsUnlessStuck ==
    \A t \in Threads :
        method[t] = "pipe_in" /\ pc[t] # "idle"
            ~> pc[t] = "idle" \/ \E p \in Pids : Stuck(p)

\* A TERM ends the process it is sent to, whatever the moment of the launch it
\* arrives in, unless its mask comes from a thread that lost its own.
TermEnds ==
    \A p \in Pids :
        p \in term /\ launcher[p] \notin openFailed ~> p \notin Alive
=============================================================================
