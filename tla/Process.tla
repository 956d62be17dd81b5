------------------------------ MODULE Process ------------------------------
(***************************************************************************)
(* The processes an application launches and the Process objects it has of *)
(* them (Process.cpp), with the environments they are launched in          *)
(* (Executable.cpp, Environment.cpp) and the user they are signalled as    *)
(* (User::setuid).                                                         *)
(*                                                                         *)
(* A Process is a pid: join, signal, exists and terminate act on whichever *)
(* process has that number then.  The kernel gives the number of a process *)
(* that was waited for to another one, of the application or not.  The     *)
(* model keeps with an object the process it was made for, which the code  *)
(* does not know.                                                          *)
(*                                                                         *)
(* How a launch gets from fork to exec is the subject of Executable; here  *)
(* it is one step.                                                         *)
(***************************************************************************)
EXTENDS Environment

CONSTANTS
    Threads,    \* the threads of the application
    Processes,  \* the processes there are besides it, one after the other
    Numbers,    \* the pids
    None,       \* no process, no number
    Anything,        \* a variable of a program that nobody said anything of
    Usages      \* what applications do: each a set of methods

AllMethods == {"start", "start_and_forget", "start_with", "pipe_in", "set",
               "join", "terminate", "setuid"}

ASSUME NoneAssumption     == None \notin Processes \cup Numbers
ASSUME AnythingAssumption == Anything \notin Values \cup {Unset}
ASSUME UsagesAssumption   == Usages \subseteq SUBSET AllMethods

VARIABLES
    methods,    \* what the application does
    \* the calls of its threads
    pc,         \* pc[t]: where t is in its call, or "idle"
    object,     \* object[t]: the Process the call is about
    target,     \* target[t]: the process that waitpid found, and waits for
    result,     \* result[t]: how the call ended
    variables,  \* variables[t]: those the call was given; Unset if not
    todo,       \* todo[t]: those it has still to set
    shaken,     \* history: those other threads have set after it
    \* the application
    objects,    \* the Process objects it has
    sigcld,     \* its disposition of SIGCLD
    uid,        \* its user
    \* the kernel
    state,      \* state[p]: what there is of p
    number,     \* number[p]: the pid p has or had
    user,       \* user[p]: the user of p
    child,      \* child[p]: is p a child of the application?
    env,        \* env[p]: the environment of its program
    promised,   \* history: what the launch of p said of that, or Anything
    joined,     \* history: the children the application has waited for
    sent,       \* history: the processes it has sent TERM
    strayed     \* history: processes one of whose objects acted on another

callVars   == <<pc, object, target, result>>
launchVars == <<variables, todo, shaken>>
appVars    == <<methods, objects, sigcld, uid>>
kernelVars == <<state, number, user, child, env, promised>>
histories  == <<joined, sent, strayed>>
vars == <<environ, callVars, launchVars, appVars, kernelVars, histories>>

Objects  == [id : Numbers, of : Processes]
NoObject == [id |-> None, of |-> None]
UserIds  == {"root", "user"}

TypeOK ==
    /\ environ   \in Environments
    /\ methods   \in SUBSET AllMethods
    /\ pc        \in [Threads -> {"idle", "set", "join", "kill"}]
    /\ object    \in [Threads -> Objects \cup {NoObject}]
    /\ target    \in [Threads -> Processes \cup {None}]
    /\ result    \in [Threads -> {"none", "process", "status", "signalled",
                                  "nothing", "OksSystemCallIssue"}]
    /\ variables \in [Threads -> Environments]
    /\ todo      \in [Threads -> SUBSET Keys]
    /\ shaken    \in [Threads -> SUBSET Keys]
    /\ objects   \in SUBSET Objects
    /\ sigcld    \in {"default", "ignored"}
    /\ uid       \in UserIds
    /\ state     \in [Processes -> {"unborn", "running", "zombie", "gone"}]
    /\ number    \in [Processes -> Numbers \cup {None}]
    /\ user      \in [Processes -> UserIds]
    /\ child     \in [Processes -> BOOLEAN]
    /\ env       \in [Processes -> Environments]
    /\ promised  \in [Processes -> [Keys -> Values \cup {Unset, Anything}]]
    /\ joined \in SUBSET Processes
    /\ sent \in SUBSET Processes
    /\ strayed \in SUBSET Processes

NoVariables == [k \in Keys |-> Unset]
NoPromise   == [k \in Keys |-> Anything]

Init ==
    /\ EnvironmentInit
    /\ methods   \in Usages
    /\ pc        = [t \in Threads |-> "idle"]
    /\ object    = [t \in Threads |-> NoObject]
    /\ target    = [t \in Threads |-> None]
    /\ result    = [t \in Threads |-> "none"]
    /\ variables = [t \in Threads |-> NoVariables]
    /\ todo      = [t \in Threads |-> {}]
    /\ shaken    = [t \in Threads |-> {}]
    /\ objects   = {}
    /\ sigcld    = "default"
    /\ uid       = "root"
    /\ state     = [p \in Processes |-> "unborn"]
    /\ number    = [p \in Processes |-> None]
    /\ user      = [p \in Processes |-> "root"]
    /\ child     = [p \in Processes |-> FALSE]
    /\ env       = [p \in Processes |-> NoVariables]
    /\ promised  = [p \in Processes |-> NoPromise]
    /\ joined    = {}
    /\ sent      = {}
    /\ strayed   = {}

-----------------------------------------------------------------------------
(* The kernel's side. *)

Exists(p) == state[p] \in {"running", "zombie"}

Free(n) == \A p \in Processes : Exists(p) => number[p] # n

\* p comes into being with a number that no process has.
Born(p, n, u, ours, e, promise) ==
    /\ state[p] = "unborn"
    /\ Free(n)
    /\ state'    = [state EXCEPT ![p] = "running"]
    /\ number'   = [number EXCEPT ![p] = n]
    /\ user'     = [user EXCEPT ![p] = u]
    /\ child'    = [child EXCEPT ![p] = ours]
    /\ env'      = [env EXCEPT ![p] = e]
    /\ promised' = [promised EXCEPT ![p] = promise]

\* May the application send p a signal?
Permitted(p) == uid = "root" \/ user[p] = uid

\* kill(n, ...) finds p and may signal it; a zombie will do.
Reaches(n, p) == Exists(p) /\ number[p] = n /\ Permitted(p)

\* An object for p acts on q.
Strays(p, q) == strayed' = IF p = q THEN strayed ELSE strayed \cup {p}

Others(p, n) ==
    /\ \E u \in UserIds : Born(p, n, u, FALSE, NoVariables, NoPromise)
    /\ UNCHANGED <<environ, callVars, launchVars, appVars, histories>>

\* A child stays for waitpid, unless the application ignores SIGCLD; its
\* environment goes with its program.
Exits(p) ==
    /\ state[p] = "running"
    /\ state' = [state EXCEPT ![p] =
                    IF child[p] /\ sigcld = "default" THEN "zombie" ELSE "gone"]
    /\ env'      = [env EXCEPT ![p] = NoVariables]
    /\ promised' = [promised EXCEPT ![p] = NoPromise]
    /\ UNCHANGED <<environ, callVars, launchVars, appVars, number, user, child,
                   histories>>

-----------------------------------------------------------------------------
(* Launches. *)

Return(t, o, r) ==
    /\ pc'     = [pc EXCEPT ![t] = "idle"]
    /\ object' = [object EXCEPT ![t] = o]
    /\ result' = [result EXCEPT ![t] = r]
    /\ target' = [target EXCEPT ![t] = None]

\* fork and exec give t the child p, whose environment is e.
Launch(t, m, p, n, e, promise) ==
    /\ pc[t] = "idle" /\ m \in methods
    /\ Born(p, n, uid, TRUE, e, promise)
    /\ objects' = objects \cup {[id |-> n, of |-> p]}
    /\ Return(t, [id |-> n, of |-> p], "process")
    /\ UNCHANGED <<environ, launchVars, methods, uid, histories>>

\* Mutant of Start: a fork that fails gives a Process all the same.
StartUnchecked(t, p, n) ==
    /\ pc[t] = "idle" /\ "start" \in methods
    /\ objects' = objects \cup {NoObject}
    /\ Return(t, NoObject, "process")
    /\ UNCHANGED <<environ, launchVars, methods, sigcld, uid, kernelVars, histories>>

\* start(params): execv passes on the environment of the application.
Start(t, p, n) ==
    /\ Launch(t, "start", p, n, environ, NoPromise)
    /\ UNCHANGED sigcld

\* start_and_forget ignores SIGCLD, and returns a Process all the same.  (Its fork
\* fails in Executable; nothing is left of it here.)
StartAndForget(t, p, n) ==
    /\ sigcld' = "ignored"
    /\ Launch(t, "start_and_forget", p, n, environ, NoPromise)

\* Mutant of StartWith: the environment of the application is passed on.
StartWithout(t, p, n) ==
    /\ \E vs \in Environments : Launch(t, "start_with", p, n, environ, vs)
    /\ UNCHANGED sigcld

\* start(params, envs): execve gives the program these variables and no others.
StartWith(t, p, n) ==
    /\ \E vs \in Environments : Launch(t, "start_with", p, n, vs, vs)
    /\ UNCHANGED sigcld

\* pipe_in(params, envs) begins to set envs in the application.
PipeIn(t) ==
    /\ pc[t] = "idle" /\ "pipe_in" \in methods
    /\ \E vs \in Environments :
          /\ variables' = [variables EXCEPT ![t] = vs]
          /\ todo' = [todo EXCEPT ![t] = {k \in Keys : vs[k] # Unset}]
    /\ pc'     = [pc EXCEPT ![t] = "set"]
    /\ object' = [object EXCEPT ![t] = NoObject]
    /\ result' = [result EXCEPT ![t] = "none"]
    /\ UNCHANGED <<environ, target, shaken, appVars, kernelVars, histories>>

\* The variables of the call of t have no more use.
Forget(t) ==
    /\ variables' = [variables EXCEPT ![t] = NoVariables]
    /\ todo'      = [todo EXCEPT ![t] = {}]
    /\ shaken'    = [shaken EXCEPT ![t] = {}]

\* t has set k, over what the other threads have set it to.
Shake(t, k) ==
    shaken' = [u \in Threads |->
                  IF u = t THEN shaken[u] \ {k}
                  ELSE IF pc[u] = "set" THEN shaken[u] \cup {k} ELSE shaken[u]]

SetNext(t) ==
    /\ pc[t] = "set"
    /\ \E k \in Keys :
          /\ IsNext(k, todo[t])
          /\ Set(k, variables[t][k])
          /\ todo' = [todo EXCEPT ![t] = @ \ {k}]
          /\ Shake(t, k)
    /\ UNCHANGED <<callVars, variables, appVars, kernelVars, histories>>

\* setenv fails: the exception leaves pipe_in, and what was set stays set.
SetFails(t) ==
    /\ pc[t] = "set" /\ todo[t] # {}
    /\ Return(t, NoObject, "OksSystemCallIssue")
    /\ Forget(t)
    /\ UNCHANGED <<environ, appVars, kernelVars, histories>>

\* What the call of t says its program will see.
Promise(t) == [k \in Keys |-> IF variables[t][k] = Unset \/ k \in shaken[t]
                              THEN Anything ELSE variables[t][k]]

\* Mutant of Fork: pipe_in does not wait for the last variable.
ForkEarly(t, p, n) ==
    /\ pc[t] = "set"
    /\ Born(p, n, uid, TRUE, environ, Promise(t))
    /\ pc'     = [pc EXCEPT ![t] = "join"]
    /\ object' = [object EXCEPT ![t] = [id |-> n, of |-> p]]
    /\ target' = [target EXCEPT ![t] = p]
    /\ Forget(t)
    /\ UNCHANGED <<environ, result, appVars, histories>>

\* pipe_in has set them all; it launches the program, and joins it.
Fork(t, p, n) ==
    /\ pc[t] = "set" /\ todo[t] = {}
    /\ Born(p, n, uid, TRUE, environ, Promise(t))
    /\ pc'     = [pc EXCEPT ![t] = "join"]
    /\ object' = [object EXCEPT ![t] = [id |-> n, of |-> p]]
    /\ target' = [target EXCEPT ![t] = p]
    /\ Forget(t)
    /\ UNCHANGED <<environ, result, appVars, histories>>

\* Somebody sets a variable of the application.
SetVariable(t) ==
    /\ pc[t] = "idle" /\ "set" \in methods
    /\ \E k \in Keys, v \in Values : Set(k, v) /\ Shake(t, k)
    /\ UNCHANGED <<callVars, variables, todo, appVars, kernelVars, histories>>

-----------------------------------------------------------------------------
(* The methods of Process. *)

\* waitpid looks for a child with that pid, and waits for it.
Join(t, o) ==
    /\ pc[t] = "idle" /\ "join" \in methods
    /\ \/ \E p \in Processes :
             /\ child[p] /\ Exists(p) /\ number[p] = o.id
             /\ pc'     = [pc EXCEPT ![t] = "join"]
             /\ object' = [object EXCEPT ![t] = o]
             /\ target' = [target EXCEPT ![t] = p]
             /\ result' = [result EXCEPT ![t] = "none"]
             /\ Strays(o.of, p)
       \/ /\ \A p \in Processes : ~(child[p] /\ Exists(p) /\ number[p] = o.id)
          /\ Return(t, o, "OksSystemCallIssue")
          /\ UNCHANGED strayed
    /\ UNCHANGED <<environ, launchVars, appVars, kernelVars, joined, sent>>

\* It ends when the child does, and the child is gone.
Reap(t) ==
    /\ pc[t] = "join" /\ state[target[t]] = "zombie"
    /\ state'  = [state EXCEPT ![target[t]] = "gone"]
    /\ joined' = joined \cup {target[t]}
    /\ Return(t, object[t], "status")
    /\ UNCHANGED <<environ, launchVars, appVars, number, user, child, env,
                   promised, sent, strayed>>

\* Somebody else has waited for it, or the kernel has.
JoinFails(t) ==
    /\ pc[t] = "join" /\ state[target[t]] = "gone"
    /\ Return(t, object[t], "OksSystemCallIssue")
    /\ UNCHANGED <<environ, launchVars, appVars, kernelVars, histories>>

\* Mutants of Terminate: exists waits for a process that has ended; it takes the
\* 0 of kill for a failure.
TerminateReaps(t, o) ==
    /\ pc[t] = "idle" /\ "terminate" \in methods
    /\ state' = [p \in Processes |->
          IF child[p] /\ state[p] = "zombie" /\ number[p] = o.id THEN "gone"
          ELSE state[p]]
    /\ object' = [object EXCEPT ![t] = o]
    /\ result' = [result EXCEPT ![t] = "none"]
    /\ pc'     = [pc EXCEPT ![t] = "kill"]
    /\ UNCHANGED <<environ, target, launchVars, appVars, number, user, child,
                   env, promised, histories>>
TerminateNever(t, o) ==
    /\ pc[t] = "idle" /\ "terminate" \in methods
    /\ Return(t, o, "nothing")
    /\ UNCHANGED <<environ, launchVars, appVars, kernelVars, histories>>

\* terminate asks exists, kill with no signal, which answers no to every error.
Terminate(t, o) ==
    /\ pc[t] = "idle" /\ "terminate" \in methods
    /\ IF \E p \in Processes : Reaches(o.id, p)
         THEN /\ pc'     = [pc EXCEPT ![t] = "kill"]
              /\ object' = [object EXCEPT ![t] = o]
              /\ result' = [result EXCEPT ![t] = "none"]
              /\ UNCHANGED target
         ELSE Return(t, o, "nothing")
    /\ UNCHANGED <<environ, launchVars, appVars, kernelVars, histories>>

\* Then it calls signal, which throws if kill fails.
Signal(t) ==
    /\ pc[t] = "kill"
    /\ \/ \E p \in Processes :
             /\ Reaches(object[t].id, p)
             /\ Return(t, object[t], "signalled")
             /\ sent' = sent \cup {p}
             /\ Strays(object[t].of, p)
       \/ /\ \A p \in Processes : ~Reaches(object[t].id, p)
          /\ Return(t, object[t], "OksSystemCallIssue")
          /\ UNCHANGED <<sent, strayed>>
    /\ UNCHANGED <<environ, launchVars, appVars, kernelVars, joined>>

\* User::setuid gives up the privileges of the application, for good.
Setuid ==
    /\ "setuid" \in methods /\ uid = "root"
    /\ uid' = "user"
    /\ UNCHANGED <<environ, callVars, launchVars, methods, objects, sigcld,
                   kernelVars, histories>>

-----------------------------------------------------------------------------
CallStep(t) ==
    \/ PipeIn(t) \/ SetNext(t) \/ SetFails(t) \/ SetVariable(t)
    \/ Reap(t) \/ JoinFails(t) \/ Signal(t)
    \/ \E o \in objects : Join(t, o) \/ Terminate(t, o)

LaunchStep(t, p, n) ==
    \/ Start(t, p, n) \/ StartAndForget(t, p, n) \/ StartWith(t, p, n)
    \/ Fork(t, p, n)

Next ==
    \/ Setuid
    \/ \E t \in Threads : CallStep(t)
    \/ \E t \in Threads, p \in Processes, n \in Numbers : LaunchStep(t, p, n)
    \/ \E p \in Processes : Exits(p) \/ \E n \in Numbers : Others(p, n)

Spec == Init /\ [][Next]_vars

-----------------------------------------------------------------------------
(* Properties. *)

\* What is done to a Process is done to the process it was made for, unless the
\* application has waited for that one, perhaps in another thread between the
\* exists and the signal of terminate, or has called start_and_forget.
ActsOnTheMeant ==
    \A p \in strayed : p \in joined \/ sigcld = "ignored"

\* A terminate that returns or throws has sent TERM to the process it is meant
\* for, unless that is gone, or belongs to a user the application has ceased to
\* be: exists then answers no, and terminate returns as if all were well.
TerminateReaches ==
    \A t \in Threads :
        \/ object[t] = NoObject \/ pc[t] # "idle"
        \/ result[t] \in {"process", "status"}
        \/ LET p == object[t].of
           IN  p \in sent \/ state[p] = "gone" \/ ~Permitted(p)

\* A program sees the variables it was launched with: exactly those of start
\* with an environment, and those of pipe_in that no other thread set after it
\* (the comment of pipe_in: the environment variables to set).
ProgramsSeeTheirVariables ==
    \A p \in Processes, k \in Keys :
        promised[p][k] # Anything => env[p][k] = promised[p][k]
=============================================================================
