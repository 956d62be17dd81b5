----------------------------- MODULE Singleton -----------------------------
(***************************************************************************)
(* The current process, which Process::instance makes when it is first     *)
(* asked for, and which Process::set_name names (Process.cpp).  The local  *)
(* host is made in the same way (LocalHost::instance in Host.cpp).         *)
(*                                                                         *)
(* instance looks at s_instance and assigns it a new object if it is null; *)
(* nothing keeps two threads from doing so at once, and the second object  *)
(* hides the first.  set_name names the object that s_instance points to   *)
(* after a call of instance.                                               *)
(***************************************************************************)
EXTENDS Callers

CONSTANTS
    Labels      \* the names the application gives itself

VARIABLES
    s_instance,     \* is there an object?
    m_process_name, \* the name of the object last made
    lastName        \* history: the name last set, unless a thread was about to
                    \* make another object then

singletonVars == <<s_instance, m_process_name, lastName>>

SingletonInit ==
    /\ s_instance     = FALSE
    /\ m_process_name = Empty
    /\ lastName       = Empty

\* Threads that have seen a null s_instance and have not assigned it yet.
Makers == {t \in Threads : call[t].at = "make"}

-----------------------------------------------------------------------------
\* Mutant of Instance: s_instance is not looked at.
InstanceAgain(t, name) ==
    /\ Idle(t)
    /\ Begins(t, "make", "process", name)
    /\ UNCHANGED <<found, singletonVars>>

\* t calls set_name(name), or instance if the name is empty, which finds no
\* object or goes on to the assignment of the name.
Instance(t, name) ==
    /\ Idle(t)
    /\ \/ ~s_instance /\ Begins(t, "make", "process", name)
       \/ s_instance /\ name # Empty /\ Begins(t, "set", "process", name)
    /\ UNCHANGED <<found, singletonVars>>

\* s_instance = new Process(): the object has no name.
Make(t) ==
    /\ call[t].at = "make"
    /\ s_instance'     = TRUE
    /\ m_process_name' = Empty
    /\ IF call[t].to = Empty THEN Ends(t)
       ELSE Continues(t, "set") /\ UNCHANGED found
    /\ UNCHANGED lastName

\* s_instance->m_process_name = name.
SetName(t) ==
    /\ call[t].at = "set"
    /\ m_process_name' = call[t].to
    /\ lastName' = IF Makers = {} THEN call[t].to ELSE Empty
    /\ Ends(t)
    /\ UNCHANGED s_instance

SingletonNext ==
    \E t \in Threads : \/ \E n \in Labels \cup {Empty} : Instance(t, n)
                       \/ Make(t) \/ SetName(t)

-----------------------------------------------------------------------------
\* The name that was last set is the name of the current process, whichever
\* threads ask for the process meanwhile, unless one of them was then about to
\* make it once more (the comment of Process::instance: a singleton).
NameKept == lastName # Empty => m_process_name = lastName
=============================================================================
