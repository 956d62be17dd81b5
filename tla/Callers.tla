------------------------------ MODULE Callers ------------------------------
(***************************************************************************)
(* The threads that use one User, Host or Process, and the call each of    *)
(* them makes: where it is, the object it is about, and the method.  A     *)
(* call whose answer is remembered is a single step, and leaves no trace.  *)
(***************************************************************************)
EXTENDS Naturals

CONSTANTS
    Threads,    \* the threads of the application
    Empty,      \* the empty string
    Unknown,    \* the string "unknown"
    Dotted,     \* the address of a host, as a string
    Given       \* a name the application made an object with

VARIABLES
    call,       \* call[t]: the call of t
    found       \* found[t]: what the system answered that call

NoCall == [at |-> "idle"]

\* A name as it stands in the n-th state of the system's database is n.
ASSUME StringsAssumption ==
    /\ \A s \in {Empty, Unknown, Dotted, Given} : s \notin Nat
    /\ Empty \notin {Unknown, Dotted, Given}
    /\ Unknown \notin {Dotted, Given} /\ Dotted # Given

CallersInit ==
    /\ call  = [t \in Threads |-> NoCall]
    /\ found = [t \in Threads |-> Empty]

Idle(t) == call[t].at = "idle"

\* The threads with a call in progress on the object o.
Using(o) == {t \in Threads : ~Idle(t) /\ call[t].of = o}

Begins(t, q, o, m) == call' = [call EXCEPT ![t] = [at |-> q, of |-> o, to |-> m]]

Continues(t, q) == call' = [call EXCEPT ![t].at = q]

Ends(t) == /\ call'  = [call EXCEPT ![t] = NoCall]
           /\ found' = [found EXCEPT ![t] = Empty]
=============================================================================
