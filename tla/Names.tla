-------------------------------- MODULE Names --------------------------------
(***************************************************************************)
(* An application whose threads share Users, Hosts or the current process. *)
(* A thread makes one call at a time; the three share nothing else, so     *)
(* that a behaviour is about one of them.                                  *)
(***************************************************************************)
EXTENDS User, Host, Singleton

VARIABLE subject    \* what the calls of the behaviour are about

vars == <<call, found, userVars, hostVars, singletonVars, subject>>

Init ==
    /\ subject \in {"users", "hosts", "process"}
    /\ CallersInit /\ UserInit /\ HostInit /\ SingletonInit

Next ==
    \/ /\ subject = "users"
       /\ UserNext
       /\ UNCHANGED <<hostVars, singletonVars, subject>>
    \/ /\ subject = "hosts"
       /\ HostNext
       /\ UNCHANGED <<userVars, singletonVars, subject>>
    \/ /\ subject = "process"
       /\ SingletonNext
       /\ UNCHANGED <<userVars, hostVars, subject>>

Spec == Init /\ [][Next]_vars
=============================================================================
