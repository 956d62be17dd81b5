--------------------------- MODULE ProcessProofs ---------------------------
(***************************************************************************)
(* What holds of Process objects and environments for any number of        *)
(* threads, processes, pids and variables.                                 *)
(*                                                                         *)
(* The argument about objects: two processes that exist have different     *)
(* pids, so that an object can act on another process only when its own is *)
(* gone; and a child goes only by being waited for or because SIGCLD is    *)
(* ignored.  The argument about environments: a variable that pipe_in has  *)
(* set keeps its value until another thread sets it.                       *)
(***************************************************************************)
EXTENDS Process, TLAPS

\* o is the Process of a child that was launched.
Known(o) ==
    /\ o \in Objects
    /\ child[o.of] /\ state[o.of] # "unborn" /\ number[o.of] = o.id

\* Two processes that exist have two numbers.
NumbersInv ==
    \A p, q \in Processes :
        Exists(p) /\ Exists(q) /\ number[p] = number[q] => p = q

\* Every object is that of a child, and so is the one a call is about.
ObjectsInv ==
    /\ \A o \in objects : Known(o)
    /\ \A t \in Threads :
          /\ object[t] # NoObject => Known(object[t])
          /\ pc[t] \in {"join", "kill"} => object[t] # NoObject

\* A call that waits for another process than it should: that one is gone.
TargetInv ==
    \A t \in Threads : pc[t] = "join" =>
        /\ target[t] \in Processes
        /\ state[target[t]] # "unborn"
        /\ child[target[t]]
        /\ target[t] = object[t].of \/ state[object[t].of] = "gone"

\* A child is gone for one of two reasons.
GoneInv ==
    \A p \in Processes : child[p] /\ state[p] = "gone" =>
        p \in joined \/ sigcld = "ignored"

StrayInv == \A p \in strayed : child[p] /\ state[p] = "gone"

\* What pipe_in has set is as it has set it, where no other thread did.
SetInv ==
    \A t \in Threads, k \in Keys :
        /\ pc[t] = "set" /\ variables[t][k] # Unset
        /\ k \notin todo[t] /\ k \notin shaken[t]
        => environ[k] = variables[t][k]

IInv == /\ TypeOK /\ NumbersInv /\ ObjectsInv /\ TargetInv /\ GoneInv /\ StrayInv
        /\ SetInv /\ TerminateReaches /\ ProgramsSeeTheirVariables

-----------------------------------------------------------------------------
\* The application starts in the invariant.
LEMMA InitInv == Init => IInv
  BY NoneAssumption, AnythingAssumption, UsagesAssumption
     DEF Init, EnvironmentInit, IInv, TypeOK, NumbersInv, ObjectsInv, TargetInv,
         GoneInv, StrayInv, SetInv, TerminateReaches, ProgramsSeeTheirVariables,
         NoVariables, NoPromise, Environments, UserIds, NoObject, AllMethods,
         Exists

\* What the three methods that return a Process have in common.
Launched(t, p, n, e, promise) ==
    /\ Born(p, n, uid, TRUE, e, promise)
    /\ objects' = objects \cup {[id |-> n, of |-> p]}
    /\ Return(t, [id |-> n, of |-> p], "process")
    /\ pc[t] = "idle"
    /\ sigcld' \in {sigcld, "ignored"}
    /\ UNCHANGED <<environ, launchVars, methods, uid, histories>>

\* They give the program an environment that is what they promise.
LEMMA LaunchIsLaunched ==
  ASSUME TypeOK, NEW t \in Threads, NEW p \in Processes, NEW n \in Numbers,
         Start(t, p, n) \/ StartAndForget(t, p, n) \/ StartWith(t, p, n)
  PROVE  \E e \in Environments, promise \in [Keys -> Values \cup {Unset, Anything}] :
            /\ Launched(t, p, n, e, promise)
            /\ \A k \in Keys : promise[k] # Anything => e[k] = promise[k]
<1> USE DEF TypeOK, Launch, Launched
<1>1. NoPromise \in [Keys -> Values \cup {Unset, Anything}]
  BY DEF NoPromise
<1>2. \A k \in Keys : NoPromise[k] = Anything
  BY DEF NoPromise
<1>3. CASE Start(t, p, n)
  BY <1>1, <1>2, <1>3 DEF Start
<1>4. CASE StartAndForget(t, p, n)
  BY <1>1, <1>2, <1>4 DEF StartAndForget
<1>5. CASE StartWith(t, p, n)
  <2>1. PICK vs \in Environments : Launched(t, p, n, vs, vs)
    BY <1>5 DEF StartWith
  <2>2. vs \in [Keys -> Values \cup {Unset, Anything}]
    BY DEF Environments
  <2> QED
    BY <2>1, <2>2
<1> QED
  BY <1>3, <1>4, <1>5

\* What pipe_in promises is an environment with gaps.
LEMMA PromiseType ==
  ASSUME TypeOK, NEW t \in Threads
  PROVE  Promise(t) \in [Keys -> Values \cup {Unset, Anything}]
  BY DEF TypeOK, Promise, Environments

-----------------------------------------------------------------------------
(* The kernel. *)

\* A new process disturbs no other one, and has its number to itself.
LEMMA BornStep ==
  ASSUME TypeOK, NumbersInv, NEW p \in Processes, NEW n \in Numbers,
         NEW u, NEW ours, NEW e, NEW promise, Born(p, n, u, ours, e, promise)
  PROVE  /\ \A q \in Processes : q # p =>
              /\ state'[q] = state[q] /\ number'[q] = number[q]
              /\ user'[q] = user[q] /\ child'[q] = child[q]
              /\ env'[q] = env[q] /\ promised'[q] = promised[q]
         /\ state[p] = "unborn"
         /\ state'[p] = "running" /\ number'[p] = n /\ child'[p] = ours
         /\ user'[p] = u /\ env'[p] = e /\ promised'[p] = promise
         /\ NumbersInv'
<1>1. /\ \A q \in Processes : q # p =>
           /\ state'[q] = state[q] /\ number'[q] = number[q]
           /\ user'[q] = user[q] /\ child'[q] = child[q]
           /\ env'[q] = env[q] /\ promised'[q] = promised[q]
      /\ state[p] = "unborn"
      /\ state'[p] = "running" /\ number'[p] = n /\ child'[p] = ours
      /\ user'[p] = u /\ env'[p] = e /\ promised'[p] = promise
  BY DEF TypeOK, Born
<1>2. NumbersInv'
  BY <1>1 DEF NumbersInv, Born, Free, Exists
<1> QED
  BY <1>1, <1>2

\* The child that pipe_in forks.
LEMMA ForkStep ==
  ASSUME TypeOK, NumbersInv, NEW t \in Threads, NEW p \in Processes,
         NEW n \in Numbers, Fork(t, p, n)
  PROVE  /\ state'[p] = "running" /\ number'[p] = n /\ child'[p] = TRUE
         /\ env'[p] = environ /\ promised'[p] = Promise(t)
<1>1. Born(p, n, uid, TRUE, environ, Promise(t))
  BY DEF Fork
<1> QED
  BY <1>1 DEF Born, TypeOK

\* What a step of the application may do to the processes that are there: a
\* process that was born stays what it was, one that is gone stays gone, and a
\* child goes because it is waited for or SIGCLD is ignored.
Steady ==
    /\ \A p \in Processes :
          /\ state[p] # "unborn" =>
                /\ state'[p] # "unborn" /\ number'[p] = number[p]
                /\ user'[p] = user[p] /\ child'[p] = child[p]
          /\ state[p] = "gone" => state'[p] = "gone"
          /\ child'[p] /\ state'[p] = "gone" =>
                (state[p] = "gone" /\ child[p]) \/ p \in joined' \/ sigcld' = "ignored"
    /\ NumbersInv'
    /\ joined \subseteq joined' /\ sent \subseteq sent'
    /\ sigcld = "ignored" => sigcld' = "ignored"
    /\ uid = "user" => uid' = "user"

\* The kernel keeps to that in every step.
LEMMA SteadyStep == IInv /\ [Next]_vars => Steady
<1> SUFFICES ASSUME IInv, [Next]_vars PROVE Steady
  OBVIOUS
<1> USE DEF IInv, Steady
<1>1. ASSUME UNCHANGED <<kernelVars, joined, sigcld>>, sent \subseteq sent',
             uid = "user" => uid' = "user"
      PROVE  Steady
  BY <1>1 DEF kernelVars, NumbersInv, Exists
<1>2. CASE Setuid
  BY <1>1, <1>2 DEF Setuid, histories
<1>3. ASSUME NEW t \in Threads, CallStep(t) PROVE Steady
  <2>1. CASE PipeIn(t) \/ SetNext(t) \/ SetFails(t) \/ SetVariable(t) \/ JoinFails(t)
    BY <1>1, <2>1
       DEF PipeIn, SetNext, SetFails, SetVariable, JoinFails, histories, appVars
  <2>2. CASE Reap(t)
    <3>1. target[t] \in Processes
      BY <2>2 DEF Reap, TargetInv
    <3>2. /\ state' = [state EXCEPT ![target[t]] = "gone"]
          /\ state[target[t]] = "zombie"
          /\ UNCHANGED <<number, user, child, sigcld, uid, sent>>
          /\ joined' = joined \cup {target[t]}
      BY <2>2 DEF Reap, appVars
    <3>3. NumbersInv'
      BY <3>1, <3>2 DEF TypeOK, NumbersInv, Exists
    <3> QED
      BY <3>1, <3>2, <3>3 DEF TypeOK
  <2>3. CASE Signal(t)
    BY <1>1, <2>3 DEF Signal, appVars
  <2>4. ASSUME NEW o \in objects, Join(t, o) \/ Terminate(t, o) PROVE Steady
    BY <1>1, <2>4 DEF Join, Terminate, appVars, histories
  <2> QED
    BY <1>3, <2>1, <2>2, <2>3, <2>4 DEF CallStep
<1>4. ASSUME NEW t \in Threads, NEW p \in Processes, NEW n \in Numbers,
             LaunchStep(t, p, n)
      PROVE  Steady
  <2>1. ASSUME NEW e, NEW promise, Launched(t, p, n, e, promise) PROVE Steady
    BY <2>1, BornStep DEF Launched, histories
  <2>2. CASE Fork(t, p, n)
    BY <2>2, BornStep DEF Fork, histories, appVars
  <2> QED
    BY <1>4, <2>1, <2>2, LaunchIsLaunched DEF LaunchStep
<1>5. ASSUME NEW p \in Processes, Exits(p) PROVE Steady
  <2>1. NumbersInv'
    BY <1>5 DEF Exits, TypeOK, NumbersInv, Exists
  <2> QED
    BY <1>5, <2>1 DEF Exits, TypeOK, histories, appVars
<1>6. ASSUME NEW p \in Processes, NEW n \in Numbers, Others(p, n) PROVE Steady
  BY <1>6, BornStep DEF Others, histories, appVars
<1>7. CASE UNCHANGED vars
  BY <1>1, <1>7 DEF vars, appVars, histories
<1> QED
  BY <1>2, <1>3, <1>4, <1>5, <1>6, <1>7 DEF Next

\* The object of a child stays the object of that child.
LEMMA KnownStays ==
  ASSUME IInv, Steady, NEW o, Known(o)
  PROVE  Known(o)'
  BY DEF Known, Steady, Objects

-----------------------------------------------------------------------------
(* The application. *)

\* The types of a new process.
LEMMA BornType ==
  ASSUME TypeOK, NEW p \in Processes, NEW n \in Numbers, NEW u \in UserIds,
         NEW ours \in BOOLEAN, NEW e \in Environments,
         NEW promise \in [Keys -> Values \cup {Unset, Anything}],
         Born(p, n, u, ours, e, promise)
  PROVE  /\ state'    \in [Processes -> {"unborn", "running", "zombie", "gone"}]
         /\ number'   \in [Processes -> Numbers \cup {None}]
         /\ user'     \in [Processes -> UserIds]
         /\ child'    \in [Processes -> BOOLEAN]
         /\ env'      \in [Processes -> Environments]
         /\ promised' \in [Processes -> [Keys -> Values \cup {Unset, Anything}]]
  BY DEF TypeOK, Born

\* The types hold after every step.
LEMMA TypeStep == IInv /\ [Next]_vars => TypeOK'
<1> SUFFICES ASSUME IInv, [Next]_vars PROVE TypeOK'
  OBVIOUS
<1> USE DEF IInv, TypeOK, Return
<1> /\ NoVariables \in Environments
    /\ NoPromise \in [Keys -> Values \cup {Unset, Anything}]
  BY DEF NoVariables, NoPromise, Environments
<1> \A o \in objects : o \in Objects /\ o.of \in Processes
  BY DEF Objects
<1>1. CASE Setuid
  BY <1>1 DEF Setuid, callVars, launchVars, kernelVars, histories, UserIds
<1>2. ASSUME NEW t \in Threads, CallStep(t) PROVE TypeOK'
  <2>1. CASE PipeIn(t)
    BY <2>1 DEF PipeIn, appVars, kernelVars, histories
  <2>2. CASE SetNext(t)
    <3>1. PICK k \in Keys : /\ Set(k, variables[t][k]) /\ k \in todo[t]
                            /\ todo' = [todo EXCEPT ![t] = @ \ {k}]
                            /\ Shake(t, k)
      BY <2>2 DEF SetNext, IsNext
    <3>2. environ' \in Environments
      BY <3>1 DEF Set, Environments
    <3>3. shaken' \in [Threads -> SUBSET Keys]
      BY <3>1 DEF Shake
    <3> QED
      BY <2>2, <3>1, <3>2, <3>3
         DEF SetNext, callVars, appVars, kernelVars, histories
  <2>3. CASE SetFails(t)
    BY <2>3 DEF SetFails, Forget, appVars, kernelVars, histories
  <2>4. CASE SetVariable(t)
    <3>1. PICK k \in Keys, v \in Values : Set(k, v) /\ Shake(t, k)
      BY <2>4 DEF SetVariable
    <3>2. environ' \in Environments
      BY <3>1 DEF Set, Environments
    <3>3. shaken' \in [Threads -> SUBSET Keys]
      BY <3>1 DEF Shake
    <3> QED
      BY <2>4, <3>2, <3>3
         DEF SetVariable, callVars, appVars, kernelVars, histories
  <2>5. CASE Reap(t)
    BY <2>5 DEF Reap, TargetInv, launchVars, appVars
  <2>6. CASE JoinFails(t)
    BY <2>6 DEF JoinFails, launchVars, appVars, kernelVars, histories
  <2>7. CASE Signal(t)
    <3>1. object[t].of \in Processes /\ object[t] \in Objects
      BY <2>7 DEF Signal, ObjectsInv, Known, Objects
    <3>2. strayed' \subseteq strayed \cup {object[t].of}
      BY <2>7 DEF Signal, Strays
    <3>3. /\ \E r \in {"signalled", "OksSystemCallIssue"} : Return(t, object[t], r)
          /\ sent' \in SUBSET Processes
          /\ UNCHANGED <<environ, launchVars, appVars, kernelVars, joined>>
      BY <2>7 DEF Signal
    <3> QED
      BY <3>1, <3>2, <3>3 DEF launchVars, appVars, kernelVars
  <2>8. ASSUME NEW o \in objects, Join(t, o) PROVE TypeOK'
    <3>1. strayed' \subseteq strayed \cup {o.of}
      BY <2>8 DEF Join, Strays
    <3>2. UNCHANGED <<environ, launchVars, appVars, kernelVars, joined, sent>>
      BY <2>8 DEF Join
    <3>3. CASE Return(t, o, "OksSystemCallIssue")
      BY <3>1, <3>2, <3>3 DEF launchVars, appVars, kernelVars
    <3>4. ASSUME NEW p \in Processes,
                 /\ pc'     = [pc EXCEPT ![t] = "join"]
                 /\ object' = [object EXCEPT ![t] = o]
                 /\ target' = [target EXCEPT ![t] = p]
                 /\ result' = [result EXCEPT ![t] = "none"]
          PROVE  TypeOK'
      BY <3>1, <3>2, <3>4 DEF launchVars, appVars, kernelVars
    <3> QED
      BY <2>8, <3>3, <3>4 DEF Join
  <2>9. ASSUME NEW o \in objects, Terminate(t, o) PROVE TypeOK'
    BY <2>9 DEF Terminate, launchVars, appVars, kernelVars, histories
  <2> QED
    BY <1>2, <2>1, <2>2, <2>3, <2>4, <2>5, <2>6, <2>7, <2>8, <2>9 DEF CallStep
<1>3. ASSUME NEW t \in Threads, NEW p \in Processes, NEW n \in Numbers,
             LaunchStep(t, p, n)
      PROVE  TypeOK'
  <2> [id |-> n, of |-> p] \in Objects
    BY DEF Objects
  <2>1. ASSUME NEW e \in Environments,
               NEW promise \in [Keys -> Values \cup {Unset, Anything}],
               Launched(t, p, n, e, promise)
        PROVE  TypeOK'
    <3>1. Born(p, n, uid, TRUE, e, promise)
      BY <2>1 DEF Launched
    <3> QED
      BY <2>1, <3>1, BornType DEF Launched, launchVars, histories
  <2>2. CASE Fork(t, p, n)
    <3>1. Born(p, n, uid, TRUE, environ, Promise(t))
      BY <2>2 DEF Fork
    <3> QED
      BY <2>2, <3>1, BornType, PromiseType DEF Fork, Forget, appVars, histories
  <2> QED
    BY <1>3, <2>1, <2>2, LaunchIsLaunched DEF LaunchStep
<1>4. ASSUME NEW p \in Processes, Exits(p) PROVE TypeOK'
  BY <1>4 DEF Exits, callVars, launchVars, appVars, histories
<1>5. ASSUME NEW p \in Processes, NEW n \in Numbers, Others(p, n) PROVE TypeOK'
  BY <1>5, BornType DEF Others, callVars, launchVars, appVars, histories
<1>6. CASE UNCHANGED vars
  BY <1>6 DEF vars, callVars, launchVars, appVars, kernelVars, histories
<1> QED
  BY <1>1, <1>2, <1>3, <1>4, <1>5, <1>6 DEF Next

\* Objects stay those of children: every launch returns that of its own child.
LEMMA ObjectsStep == IInv /\ [Next]_vars => ObjectsInv'
<1> SUFFICES ASSUME IInv, [Next]_vars PROVE ObjectsInv'
  OBVIOUS
<1>0. Steady
  BY SteadyStep
<1> USE DEF IInv, TypeOK, ObjectsInv
\* A step of t that gives its call an object it knows leaves the others alone.
<1>1. ASSUME NEW t \in Threads, NEW o,
             o = NoObject \/ Known(o)',
             object' = [object EXCEPT ![t] = o],
             objects' = objects,
             \/ pc' = [pc EXCEPT ![t] = "idle"]
             \/ pc' = [pc EXCEPT ![t] = "set"]
             \/ o # NoObject /\ \E q \in {"join", "kill"} : pc' = [pc EXCEPT ![t] = q]
      PROVE  ObjectsInv'
  BY <1>0, <1>1, KnownStays
<1>2. ASSUME UNCHANGED <<pc, object, objects>> PROVE ObjectsInv'
  BY <1>0, <1>2, KnownStays
<1>3. ASSUME NEW t \in Threads, CallStep(t) PROVE ObjectsInv'
  <2>1. CASE PipeIn(t)
    BY <1>1, <2>1 DEF PipeIn, appVars
  <2>2. CASE SetNext(t) \/ SetVariable(t)
    BY <1>2, <2>2 DEF SetNext, SetVariable, callVars, appVars
  <2>3. CASE SetFails(t)
    BY <1>1, <2>3 DEF SetFails, Return, appVars
  <2>4. CASE Reap(t) \/ JoinFails(t)
    BY <1>0, <1>1, <2>4, KnownStays DEF Reap, JoinFails, Return, appVars
  <2>5. CASE Signal(t)
    BY <1>0, <1>1, <2>5, KnownStays DEF Signal, Return, appVars
  <2>6. ASSUME NEW o \in objects, Join(t, o) \/ Terminate(t, o) PROVE ObjectsInv'
    <3>1. Known(o)'
      BY <1>0, KnownStays
    <3>2. o # NoObject
      BY NoneAssumption DEF Known, Objects, NoObject
    <3>3. CASE Join(t, o)
      BY <1>1, <3>1, <3>2, <3>3 DEF Join, Return, appVars
    <3>4. CASE Terminate(t, o)
      BY <1>1, <3>1, <3>2, <3>4 DEF Terminate, Return, appVars
    <3> QED
      BY <2>6, <3>3, <3>4
  <2> QED
    BY <1>3, <2>1, <2>2, <2>3, <2>4, <2>5, <2>6 DEF CallStep
<1>4. ASSUME NEW t \in Threads, NEW p \in Processes, NEW n \in Numbers,
             LaunchStep(t, p, n)
      PROVE  ObjectsInv'
  <2> DEFINE o == [id |-> n, of |-> p]
  <2>1. ASSUME state'[p] = "running", number'[p] = n, child'[p] = TRUE
        PROVE  Known(o)' /\ o # NoObject
    BY <2>1, NoneAssumption DEF Known, Objects, NoObject
  <2> HIDE DEF o
  <2>2. ASSUME NEW e, NEW promise, Launched(t, p, n, e, promise) PROVE ObjectsInv'
    <3>1. Known(o)' /\ o # NoObject
      <4>1. Born(p, n, uid, TRUE, e, promise)
        BY <2>2 DEF Launched
      <4> QED
        BY <2>1, <4>1, BornStep
    <3>2. /\ objects' = objects \cup {o}
          /\ object' = [object EXCEPT ![t] = o]
          /\ pc' = [pc EXCEPT ![t] = "idle"]
      BY <2>2 DEF Launched, Return, o
    <3> QED
      BY <1>0, <3>1, <3>2, KnownStays
  <2>3. CASE Fork(t, p, n)
    <3>1. Known(o)' /\ o # NoObject
      BY <2>1, <2>3, ForkStep
    <3> QED
      BY <1>1, <2>3, <3>1 DEF Fork, appVars, o
  <2> QED
    BY <1>4, <2>2, <2>3, LaunchIsLaunched DEF LaunchStep
<1>5. CASE Setuid \/ UNCHANGED vars
  BY <1>2, <1>5 DEF Setuid, vars, callVars, appVars
<1>6. ASSUME NEW p \in Processes, Exits(p) \/ \E n \in Numbers : Others(p, n)
      PROVE  ObjectsInv'
  BY <1>2, <1>6 DEF Exits, Others, callVars, appVars
<1> QED
  BY <1>3, <1>4, <1>5, <1>6 DEF Next

\* A call waits for the process its object is for, or for one that has taken
\* the number of that.
LEMMA TargetStep == IInv /\ [Next]_vars => TargetInv'
<1> SUFFICES ASSUME IInv, [Next]_vars PROVE TargetInv'
  OBVIOUS
<1>0. Steady
  BY SteadyStep
<1> USE DEF IInv, TypeOK, TargetInv
<1>1. ASSUME UNCHANGED <<pc, object, target>> PROVE TargetInv'
  BY <1>0, <1>1 DEF Steady, ObjectsInv, Known, Objects
\* The other threads wait as before.
<1>2. ASSUME NEW t \in Threads, NEW q \in {"idle", "set", "kill"},
             pc' = [pc EXCEPT ![t] = q],
             \A u \in Threads \ {t} : object'[u] = object[u] /\ target'[u] = target[u]
      PROVE  TargetInv'
  BY <1>0, <1>2 DEF Steady, ObjectsInv, Known, Objects
<1>3. ASSUME NEW t \in Threads, NEW p \in Processes, NEW o \in Objects,
             pc' = [pc EXCEPT ![t] = "join"],
             object' = [object EXCEPT ![t] = o],
             target' = [target EXCEPT ![t] = p],
             state'[p] # "unborn", child'[p], p = o.of \/ state'[o.of] = "gone"
      PROVE  TargetInv'
  BY <1>0, <1>3 DEF Steady, ObjectsInv, Known, Objects
<1>4. ASSUME NEW t \in Threads, CallStep(t) PROVE TargetInv'
  <2>1. CASE SetNext(t) \/ SetVariable(t)
    BY <1>1, <2>1 DEF SetNext, SetVariable, callVars
  <2>2. CASE PipeIn(t) \/ SetFails(t) \/ Reap(t) \/ JoinFails(t) \/ Signal(t)
    BY <1>2, <2>2 DEF PipeIn, SetFails, Reap, JoinFails, Signal, Return
  <2>3. ASSUME NEW o \in objects, Terminate(t, o) PROVE TargetInv'
    BY <1>2, <2>3 DEF Terminate, Return
  <2>4. ASSUME NEW o \in objects, Join(t, o) PROVE TargetInv'
    <3>1. CASE Return(t, o, "OksSystemCallIssue")
      BY <1>2, <3>1 DEF Return
    <3>2. ASSUME NEW p \in Processes, child[p], Exists(p), number[p] = o.id,
                 pc' = [pc EXCEPT ![t] = "join"], object' = [object EXCEPT ![t] = o],
                 target' = [target EXCEPT ![t] = p], UNCHANGED kernelVars
          PROVE  TargetInv'
      <4>1. Known(o)
        BY DEF ObjectsInv
      <4>2. p = o.of \/ state[o.of] = "gone"
        BY <3>2, <4>1 DEF Known, Objects, NumbersInv, Exists
      <4> QED
        BY <1>3, <3>2, <4>1, <4>2 DEF kernelVars, Exists, Known
    <3> QED
      BY <2>4, <3>1, <3>2 DEF Join
  <2> QED
    BY <1>4, <2>1, <2>2, <2>3, <2>4 DEF CallStep
<1>5. ASSUME NEW t \in Threads, NEW p \in Processes, NEW n \in Numbers,
             LaunchStep(t, p, n)
      PROVE  TargetInv'
  <2>1. ASSUME NEW e, NEW promise, Launched(t, p, n, e, promise) PROVE TargetInv'
    BY <1>2, <2>1 DEF Launched, Return
  <2>2. CASE Fork(t, p, n)
    <3>2. state'[p] = "running" /\ child'[p] = TRUE
      BY <2>2, ForkStep
    <3>3. [id |-> n, of |-> p] \in Objects /\ [id |-> n, of |-> p].of = p
      BY DEF Objects
    <3> QED
      BY <1>3, <2>2, <3>2, <3>3 DEF Fork
  <2> QED
    BY <1>5, <2>1, <2>2, LaunchIsLaunched DEF LaunchStep
<1>6. CASE Setuid \/ UNCHANGED vars
  BY <1>1, <1>6 DEF Setuid, vars, callVars
<1>7. ASSUME NEW p \in Processes, Exits(p) \/ \E n \in Numbers : Others(p, n)
      PROVE  TargetInv'
  BY <1>1, <1>7 DEF Exits, Others, callVars
<1> QED
  BY <1>4, <1>5, <1>6, <1>7 DEF Next

\* Children go for the two reasons only.
LEMMA GoneStep == IInv /\ [Next]_vars => GoneInv'
  BY SteadyStep DEF IInv, GoneInv, Steady

\* An object strays only when its own process is gone.
LEMMA StrayStep == IInv /\ [Next]_vars => StrayInv'
<1> SUFFICES ASSUME IInv, [Next]_vars PROVE StrayInv'
  OBVIOUS
<1>0. Steady
  BY SteadyStep
<1> USE DEF IInv, StrayInv
<1>1. ASSUME UNCHANGED strayed PROVE StrayInv'
  BY <1>0, <1>1 DEF TypeOK, Steady
<1>2. ASSUME NEW o, Known(o), NEW q \in Processes, Exists(q), number[q] = o.id,
             Strays(o.of, q)
      PROVE  StrayInv'
  <2>1. CASE q = o.of
    BY <1>1, <1>2, <2>1 DEF Strays
  <2>2. CASE q # o.of
    <3>1. state[o.of] = "gone" /\ child[o.of] /\ o.of \in Processes
      BY <1>2, <2>2 DEF Known, Objects, NumbersInv, Exists, TypeOK
    <3> QED
      BY <1>0, <1>2, <2>2, <3>1 DEF Strays, TypeOK, Steady
  <2> QED
    BY <2>1, <2>2
<1>3. ASSUME NEW t \in Threads, CallStep(t) PROVE StrayInv'
  <2>1. CASE \/ PipeIn(t) \/ SetNext(t) \/ SetFails(t) \/ SetVariable(t)
             \/ Reap(t) \/ JoinFails(t)
    BY <1>1, <2>1
       DEF PipeIn, SetNext, SetFails, SetVariable, Reap, JoinFails, histories
  <2>2. CASE Signal(t)
    <3>1. Known(object[t])
      BY <2>2 DEF Signal, ObjectsInv
    <3> QED
      BY <1>1, <1>2, <2>2, <3>1 DEF Signal, Reaches
  <2>3. ASSUME NEW o \in objects, Join(t, o) PROVE StrayInv'
    BY <1>1, <1>2, <2>3 DEF Join, ObjectsInv
  <2>4. ASSUME NEW o \in objects, Terminate(t, o) PROVE StrayInv'
    BY <1>1, <2>4 DEF Terminate, histories
  <2> QED
    BY <1>3, <2>1, <2>2, <2>3, <2>4 DEF CallStep
<1>4. ASSUME NEW t \in Threads, NEW p \in Processes, NEW n \in Numbers,
             LaunchStep(t, p, n)
      PROVE  StrayInv'
  BY <1>1, <1>4, LaunchIsLaunched DEF LaunchStep, Launched, Fork, histories
<1>5. CASE Setuid \/ UNCHANGED vars
  BY <1>1, <1>5 DEF Setuid, vars, histories
<1>6. ASSUME NEW p \in Processes, Exits(p) \/ \E n \in Numbers : Others(p, n)
      PROVE  StrayInv'
  BY <1>1, <1>6 DEF Exits, Others, histories
<1> QED
  BY <1>3, <1>4, <1>5, <1>6 DEF Next

\* A process that could not be signalled, or was, stays so.
LEMMA ReachStep == IInv /\ [Next]_vars => TerminateReaches'
<1> SUFFICES ASSUME IInv, [Next]_vars PROVE TerminateReaches'
  OBVIOUS
<1>0. Steady
  BY SteadyStep
<1> DEFINE Settled(p) == p \in sent \/ state[p] = "gone" \/ ~Permitted(p)
           WillBe(p)  == \/ p \in sent' \/ state'[p] = "gone"
                         \/ ~(uid' = "root" \/ user'[p] = uid')
<1> USE DEF IInv
<1>1. ASSUME NEW p \in Processes, state[p] # "unborn", Settled(p) PROVE WillBe(p)
  BY <1>0, <1>1 DEF Steady, Permitted, TypeOK, UserIds
<1>2. ASSUME UNCHANGED <<pc, object, result>> PROVE TerminateReaches'
  <2> SUFFICES ASSUME NEW t \in Threads, object[t] # NoObject, pc[t] = "idle",
                      result[t] \notin {"process", "status"}
               PROVE  WillBe(object[t].of)
    BY <1>2 DEF TerminateReaches, Permitted
  <2>1. Settled(object[t].of)
    BY DEF TerminateReaches
  <2> QED
    BY <1>1, <2>1 DEF ObjectsInv, Known, Objects
\* It is enough to look at the thread that makes the step.
<1>3. ASSUME NEW t \in Threads, NEW o, NEW q, NEW r,
             object' = [object EXCEPT ![t] = o],
             pc' = [pc EXCEPT ![t] = q], result' = [result EXCEPT ![t] = r],
             \/ o = NoObject
             \/ q # "idle"
             \/ r \in {"process", "status"}
             \/ WillBe(o.of)
      PROVE  TerminateReaches'
  <2> SUFFICES ASSUME NEW u \in Threads
               PROVE  \/ object'[u] = NoObject \/ pc'[u] # "idle"
                      \/ result'[u] \in {"process", "status"}
                      \/ WillBe(object'[u].of)
    BY DEF TerminateReaches, Permitted
  <2>1. CASE u = t
    BY <1>3, <2>1 DEF TypeOK
  <2>2. CASE u # t
    <3>1. /\ object'[u] = object[u] /\ pc'[u] = pc[u] /\ result'[u] = result[u]
      BY <1>3, <2>2 DEF TypeOK
    <3>2. CASE \/ object[u] = NoObject \/ pc[u] # "idle"
               \/ result[u] \in {"process", "status"}
      BY <3>1, <3>2
    <3>3. CASE object[u] # NoObject /\ Settled(object[u].of)
      <4>1. object[u].of \in Processes /\ state[object[u].of] # "unborn"
        BY <3>3 DEF ObjectsInv, Known, Objects
      <4> QED
        BY <1>1, <3>1, <3>3, <4>1
    <3> QED
      BY <3>2, <3>3 DEF TerminateReaches
  <2> QED
    BY <2>1, <2>2
\* A pid nobody has, or nobody the application may signal, is no longer that of
\* its process.
<1>4. ASSUME NEW o, Known(o), \A p \in Processes : ~Reaches(o.id, p)
      PROVE  o.of \in Processes /\ state[o.of] # "unborn" /\ Settled(o.of)
  BY <1>4 DEF Known, Objects, Reaches, Exists, TypeOK
<1>5. ASSUME NEW t \in Threads, CallStep(t) PROVE TerminateReaches'
  <2>1. CASE SetNext(t) \/ SetVariable(t)
    BY <1>2, <2>1 DEF SetNext, SetVariable, callVars
  <2>2. CASE PipeIn(t)
    BY <1>3, <2>2 DEF PipeIn
  <2>3. CASE SetFails(t)
    BY <1>3, <2>3 DEF SetFails, Return
  <2>4. CASE Reap(t)
    BY <1>3, <2>4 DEF Reap, Return
  <2>5. CASE JoinFails(t)
    <3>1. state[object[t].of] = "gone" /\ object[t].of \in Processes
      BY <2>5 DEF JoinFails, TargetInv, ObjectsInv, Known, Objects
    <3>2. WillBe(object[t].of)
      BY <1>1, <3>1
    <3> QED
      BY <1>3, <2>5, <3>2 DEF JoinFails, Return
  <2>6. CASE Signal(t)
    <3>1. Known(object[t])
      BY <2>6 DEF Signal, ObjectsInv
    <3>2. ASSUME NEW p \in Processes, Reaches(object[t].id, p), sent' = sent \cup {p}
          PROVE  WillBe(object[t].of)
      <4>1. p = object[t].of \/ state[object[t].of] = "gone"
        BY <3>1, <3>2 DEF Known, Objects, Reaches, Exists, NumbersInv, TypeOK
      <4>2. CASE p = object[t].of
        BY <3>2, <4>2
      <4>3. CASE state[object[t].of] = "gone"
        BY <1>1, <3>1, <4>3 DEF Known, Objects
      <4> QED
        BY <4>1, <4>2, <4>3
    <3>3. ASSUME \A p \in Processes : ~Reaches(object[t].id, p)
          PROVE  WillBe(object[t].of)
      BY <1>1, <1>4, <3>1, <3>3
    <3>4. WillBe(object[t].of)
      BY <2>6, <3>2, <3>3 DEF Signal
    <3> QED
      BY <1>3, <2>6, <3>4 DEF Signal, Return
  <2>7. ASSUME NEW o \in objects, Join(t, o) PROVE TerminateReaches'
    <3>1. CASE pc' = [pc EXCEPT ![t] = "join"]
      BY <1>3, <2>7, <3>1 DEF Join, Return
    <3>2. CASE /\ \A p \in Processes : ~(child[p] /\ Exists(p) /\ number[p] = o.id)
               /\ Return(t, o, "OksSystemCallIssue")
      <4>1. state[o.of] = "gone" /\ o.of \in Processes
        BY <3>2 DEF ObjectsInv, Known, Objects, Exists, TypeOK
      <4>2. WillBe(o.of)
        BY <1>1, <4>1
      <4> QED
        BY <1>3, <3>2, <4>2 DEF Return
    <3> QED
      BY <2>7, <3>1, <3>2 DEF Join
  <2>8. ASSUME NEW o \in objects, Terminate(t, o) PROVE TerminateReaches'
    <3>1. CASE pc' = [pc EXCEPT ![t] = "kill"] /\ object' = [object EXCEPT ![t] = o]
               /\ result' = [result EXCEPT ![t] = "none"]
      BY <1>3, <3>1
    <3>2. CASE /\ \A p \in Processes : ~Reaches(o.id, p)
               /\ Return(t, o, "nothing")
      <4>1. Known(o)
        BY DEF ObjectsInv
      <4>2. WillBe(o.of)
        BY <1>1, <1>4, <3>2, <4>1
      <4> QED
        BY <1>3, <3>2, <4>2 DEF Return
    <3> QED
      BY <2>8, <3>1, <3>2 DEF Terminate
  <2> QED
    BY <1>5, <2>1, <2>2, <2>3, <2>4, <2>5, <2>6, <2>7, <2>8 DEF CallStep
<1>6. ASSUME NEW t \in Threads, NEW p \in Processes, NEW n \in Numbers,
             LaunchStep(t, p, n)
      PROVE  TerminateReaches'
  <2>1. ASSUME NEW e, NEW promise, Launched(t, p, n, e, promise)
        PROVE  TerminateReaches'
    BY <1>3, <2>1 DEF Launched, Return
  <2>2. CASE Fork(t, p, n)
    <3>1. result' = [result EXCEPT ![t] = result[t]]
      BY <2>2 DEF Fork, TypeOK
    <3> QED
      BY <1>3, <2>2, <3>1 DEF Fork
  <2> QED
    BY <1>6, <2>1, <2>2, LaunchIsLaunched DEF LaunchStep
<1>7. CASE Setuid \/ UNCHANGED vars
  BY <1>2, <1>7 DEF Setuid, vars, callVars
<1>8. ASSUME NEW p \in Processes, Exits(p) \/ \E n \in Numbers : Others(p, n)
      PROVE  TerminateReaches'
  BY <1>2, <1>8 DEF Exits, Others, callVars
<1> QED
  BY <1>5, <1>6, <1>7, <1>8 DEF Next

-----------------------------------------------------------------------------
(* Environments. *)

\* A variable that pipe_in has set changes only if another thread sets it.
LEMMA SetStep == IInv /\ [Next]_vars => SetInv'
<1> SUFFICES ASSUME IInv, [Next]_vars PROVE SetInv'
  OBVIOUS
<1> USE DEF IInv, TypeOK, SetInv
<1>1. ASSUME UNCHANGED <<pc, environ, variables, todo, shaken>> PROVE SetInv'
  BY <1>1
\* Calls that set nothing leave the threads that do alone.
<1>2. ASSUME NEW t \in Threads, NEW q \in {"idle", "join", "kill"},
             pc' = [pc EXCEPT ![t] = q], environ' = environ,
             \A u \in Threads \ {t} :
                variables'[u] = variables[u] /\ todo'[u] = todo[u] /\ shaken'[u] = shaken[u]
      PROVE  SetInv'
  BY <1>2
<1>3. ASSUME NEW t \in Threads, CallStep(t) PROVE SetInv'
  <2>1. CASE PipeIn(t)
    BY <2>1 DEF PipeIn
  <2>2. CASE SetNext(t)
    <3>1. PICK k \in Keys : /\ Set(k, variables[t][k])
                            /\ todo' = [todo EXCEPT ![t] = @ \ {k}]
                            /\ Shake(t, k)
      BY <2>2 DEF SetNext
    <3>2. UNCHANGED <<pc, variables>>
      BY <2>2 DEF SetNext, callVars
    <3> QED
      BY <3>1, <3>2 DEF Set, Shake, Environments
  <2>3. CASE SetVariable(t)
    <3>1. PICK k \in Keys, v \in Values : Set(k, v) /\ Shake(t, k)
      BY <2>3 DEF SetVariable
    <3>2. pc[t] = "idle" /\ UNCHANGED <<pc, variables, todo>>
      BY <2>3 DEF SetVariable, callVars
    <3> QED
      BY <3>1, <3>2 DEF Set, Shake, Environments
  <2>4. CASE SetFails(t)
    BY <1>2, <2>4 DEF SetFails, Forget, Return
  <2>5. CASE Reap(t) \/ JoinFails(t) \/ Signal(t)
    BY <1>2, <2>5 DEF Reap, JoinFails, Signal, Return, launchVars
  <2>6. ASSUME NEW o \in objects, Join(t, o) \/ Terminate(t, o) PROVE SetInv'
    BY <1>2, <2>6 DEF Join, Terminate, Return, launchVars
  <2> QED
    BY <1>3, <2>1, <2>2, <2>3, <2>4, <2>5, <2>6 DEF CallStep
<1>4. ASSUME NEW t \in Threads, NEW p \in Processes, NEW n \in Numbers,
             LaunchStep(t, p, n)
      PROVE  SetInv'
  <2>1. ASSUME NEW e, NEW promise, Launched(t, p, n, e, promise) PROVE SetInv'
    BY <1>2, <2>1 DEF Launched, Return, launchVars
  <2>2. CASE Fork(t, p, n)
    BY <1>2, <2>2 DEF Fork, Forget
  <2> QED
    BY <1>4, <2>1, <2>2, LaunchIsLaunched DEF LaunchStep
<1>5. CASE Setuid \/ UNCHANGED vars
  BY <1>1, <1>5 DEF Setuid, vars, callVars, launchVars
<1>6. ASSUME NEW p \in Processes, Exits(p) \/ \E n \in Numbers : Others(p, n)
      PROVE  SetInv'
  BY <1>1, <1>6 DEF Exits, Others, callVars, launchVars
<1> QED
  BY <1>3, <1>4, <1>5, <1>6 DEF Next

\* A new program whose environment is what was promised leaves that true of all.
LEMMA BornPromise ==
  ASSUME TypeOK, ProgramsSeeTheirVariables,
         NEW p \in Processes, NEW n \in Numbers, NEW u, NEW ours, NEW e,
         NEW promise, Born(p, n, u, ours, e, promise),
         \A k \in Keys : promise[k] # Anything => e[k] = promise[k]
  PROVE  ProgramsSeeTheirVariables'
<1>1. /\ \A q \in Processes : q # p => env'[q] = env[q] /\ promised'[q] = promised[q]
      /\ env'[p] = e /\ promised'[p] = promise
  BY DEF Born, TypeOK
<1> SUFFICES ASSUME NEW q \in Processes, NEW k \in Keys, promised'[q][k] # Anything
             PROVE  env'[q][k] = promised'[q][k]
  BY DEF ProgramsSeeTheirVariables
<1>2. CASE q = p
  BY <1>1, <1>2
<1>3. CASE q # p
  BY <1>1, <1>3 DEF ProgramsSeeTheirVariables
<1> QED
  BY <1>2, <1>3

\* A program's environment is what its launch promised, from its fork on.
LEMMA PromiseStep == IInv /\ [Next]_vars => ProgramsSeeTheirVariables'
<1> SUFFICES ASSUME IInv, [Next]_vars PROVE ProgramsSeeTheirVariables'
  OBVIOUS
<1> TypeOK /\ ProgramsSeeTheirVariables /\ SetInv
  BY DEF IInv
<1>1. ASSUME UNCHANGED <<env, promised>> PROVE ProgramsSeeTheirVariables'
  BY <1>1 DEF ProgramsSeeTheirVariables
<1>2. ASSUME NEW t \in Threads, CallStep(t) PROVE ProgramsSeeTheirVariables'
  <2>1. CASE \/ PipeIn(t) \/ SetNext(t) \/ SetFails(t) \/ SetVariable(t)
             \/ Reap(t) \/ JoinFails(t) \/ Signal(t)
    BY <1>1, <2>1 DEF PipeIn, SetNext, SetFails, SetVariable, Reap, JoinFails,
                      Signal, kernelVars
  <2>2. ASSUME NEW o \in objects, Join(t, o) \/ Terminate(t, o)
        PROVE  ProgramsSeeTheirVariables'
    BY <1>1, <2>2 DEF Join, Terminate, kernelVars
  <2> QED
    BY <1>2, <2>1, <2>2 DEF CallStep
<1>3. ASSUME NEW t \in Threads, NEW p \in Processes, NEW n \in Numbers,
             LaunchStep(t, p, n)
      PROVE  ProgramsSeeTheirVariables'
  <2>1. ASSUME NEW e, NEW promise, Launched(t, p, n, e, promise),
               \A k \in Keys : promise[k] # Anything => e[k] = promise[k]
        PROVE  ProgramsSeeTheirVariables'
    <3>1. Born(p, n, uid, TRUE, e, promise)
      BY <2>1 DEF Launched
    <3> QED
      BY <2>1, <3>1, BornPromise
  <2>2. CASE Fork(t, p, n)
    <3>1. \A k \in Keys : Promise(t)[k] # Anything => environ[k] = Promise(t)[k]
      BY <2>2 DEF Fork, Promise, SetInv
    <3>2. Born(p, n, uid, TRUE, environ, Promise(t))
      BY <2>2 DEF Fork
    <3> QED
      BY <3>1, <3>2, BornPromise
  <2> QED
    BY <1>3, <2>1, <2>2, LaunchIsLaunched DEF LaunchStep
<1>4. CASE Setuid \/ UNCHANGED vars
  BY <1>1, <1>4 DEF Setuid, vars, kernelVars
<1>5. ASSUME NEW p \in Processes, Exits(p) PROVE ProgramsSeeTheirVariables'
  <2>1. /\ \A q \in Processes : q # p =>
             env'[q] = env[q] /\ promised'[q] = promised[q]
        /\ promised'[p] = NoPromise
    BY <1>5 DEF Exits, TypeOK
  <2> QED
    BY <2>1 DEF ProgramsSeeTheirVariables, NoPromise
<1>6. ASSUME NEW p \in Processes, NEW n \in Numbers, Others(p, n)
      PROVE  ProgramsSeeTheirVariables'
  <2>1. PICK u \in UserIds : Born(p, n, u, FALSE, NoVariables, NoPromise)
    BY <1>6 DEF Others
  <2>2. \A k \in Keys : NoPromise[k] # Anything => NoVariables[k] = NoPromise[k]
    BY DEF NoPromise
  <2> QED
    BY <2>1, <2>2, BornPromise
<1> QED
  BY <1>2, <1>3, <1>4, <1>5, <1>6 DEF Next

-----------------------------------------------------------------------------
\* The invariant holds in every state.
THEOREM ProcessInvariance == Spec => []IInv
<1>1. IInv /\ [Next]_vars => NumbersInv'
  BY SteadyStep DEF Steady
<1>2. IInv /\ [Next]_vars => IInv'
  BY <1>1, TypeStep, ObjectsStep, TargetStep, GoneStep, StrayStep, ReachStep,
     SetStep, PromiseStep
     DEF IInv
<1> QED
  BY <1>2, InitInv, PTL DEF Spec

\* Every variable keeps its type.
THEOREM ProcessTypeCorrect == Spec => []TypeOK
<1>1. IInv => TypeOK
  BY DEF IInv
<1> QED
  BY <1>1, ProcessInvariance, PTL

\* Whichever numbers the kernel reuses, nothing is done to another process through
\* the object of a child, unless that child was waited for or SIGCLD is ignored.
THEOREM ObjectsActOnTheMeant == Spec => []ActsOnTheMeant
<1>1. IInv => ActsOnTheMeant
  BY DEF IInv, StrayInv, GoneInv, TypeOK, ActsOnTheMeant
<1> QED
  BY <1>1, ProcessInvariance, PTL

\* A terminate has reached its process, unless that is gone or out of reach.
THEOREM TerminatesReach == Spec => []TerminateReaches
<1>1. IInv => TerminateReaches
  BY DEF IInv
<1> QED
  BY <1>1, ProcessInvariance, PTL

\* A program sees the variables it was launched with, whatever other threads set.
THEOREM VariablesAreSeen == Spec => []ProgramsSeeTheirVariables
<1>1. IInv => ProgramsSeeTheirVariables
  BY DEF IInv
<1> QED
  BY <1>1, ProcessInvariance, PTL
=============================================================================
