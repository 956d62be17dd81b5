-------------------------------- MODULE User --------------------------------
(***************************************************************************)
(* Users an application names, and what they remember of their account     *)
(* (User.cpp).                                                             *)
(*                                                                         *)
(* A User is a uid and three mutable fields.  name, home and real_name     *)
(* fill all three with one getpwuid_r when the one they return is empty,   *)
(* and return a reference to it.  A const User is shared by threads (ROOT  *)
(* is one for all of them), and nothing locks its fields: each assignment  *)
(* is a step here.  All Users of the model name one account, whose entry   *)
(* may change and may be out of reach.                                     *)
(***************************************************************************)
EXTENDS Callers

CONSTANTS
    Users,      \* the User objects the threads share
    MaxEntry    \* how many entries the account has, one after the other

VARIABLES
    entry,      \* the entry of the account now
    field,      \* field[u][f]: the member m_user_f of u; the text that an
                \* entry e has for f is e
    overlapped, \* history: users that two calls have resolved at a time
    safe        \* history: users whose failures name_safe has hidden

userVars == <<entry, field, overlapped, safe>>

Fields  == {"name", "home", "real_name"}
Methods == Fields \cup {"name_safe"}

\* What field f holds after a lookup that found e: the first entry of the
\* account has an empty gecos, and so no real name.
TextOf(e, f) == IF e = 1 /\ f = "real_name" THEN Empty ELSE e

\* The field a method returns.
Returned(m) == IF m = "name_safe" THEN "name" ELSE m

UserInit ==
    /\ entry      = 1
    /\ field      = [u \in Users |-> [f \in Fields |-> Empty]]
    /\ overlapped = {}
    /\ safe       = {}

-----------------------------------------------------------------------------
\* The account is edited.
EntryChanges ==
    /\ entry < MaxEntry
    /\ entry' = entry + 1
    /\ UNCHANGED <<call, found, field, overlapped, safe>>

\* u is made anew with the name n and no other field.
Named(u, n) == field' = [field EXCEPT ![u] =
                            [f \in Fields |-> IF f = "name" THEN n ELSE Empty]]

\* By its uid, or by the name of its account: getpwnam_r gives the uid only.
Construct(u) ==
    /\ Using(u) = {}
    /\ \E n \in {Empty, Given} : Named(u, n)
    /\ overlapped' = overlapped \ {u}
    /\ safe'       = safe \ {u}
    /\ UNCHANGED <<call, found, entry>>

\* As a copy of v, which has the name of v and not its other fields.
Copy(u, v) ==
    /\ Using(u) = {}
    /\ Named(u, field[v]["name"])
    /\ overlapped' = overlapped \ {u}
    /\ safe'       = IF v \in safe THEN safe \cup {u} ELSE safe \ {u}
    /\ UNCHANGED <<call, found, entry>>

\* t calls m of u, whose field is empty and has to be resolved.
Ask(t, u, m) ==
    /\ Idle(t)
    /\ field[u][Returned(m)] = Empty
    /\ Begins(t, "lookup", u, m)
    /\ overlapped' = IF Using(u) = {} THEN overlapped ELSE overlapped \cup {u}
    /\ UNCHANGED <<found, entry, field, safe>>

\* getpwuid_r finds the entry of the account.
Lookup(t) ==
    /\ call[t].at = "lookup"
    /\ found' = [found EXCEPT ![t] = entry]
    /\ Continues(t, "name")
    /\ UNCHANGED userVars

\* Mutant of LookupFails: resolve hides its failure as resolve_safe does.
LookupHides(t) ==
    /\ call[t].at = "lookup"
    /\ found' = [found EXCEPT ![t] = Unknown]
    /\ Continues(t, "name")
    /\ safe' = IF call[t].to = "name_safe" THEN safe \cup {call[t].of} ELSE safe
    /\ UNCHANGED <<entry, field, overlapped>>

\* getpwuid_r fails or knows no such user: resolve throws, resolve_safe goes on
\* to fill in "unknown".
LookupFails(t) ==
    /\ call[t].at = "lookup"
    /\ IF call[t].to = "name_safe"
         THEN /\ found' = [found EXCEPT ![t] = Unknown]
              /\ Continues(t, "name")
              /\ safe' = safe \cup {call[t].of}
         ELSE Ends(t) /\ UNCHANGED safe
    /\ UNCHANGED <<entry, field, overlapped>>

\* Mutant of Assign: only the field that was asked for is assigned.
AssignOne(t) ==
    /\ call[t].at \in Fields
    /\ LET f == Returned(call[t].to) IN
       field' = [field EXCEPT ![call[t].of][f] = TextOf(found[t], f)]
    /\ Ends(t)
    /\ UNCHANGED <<entry, overlapped, safe>>

\* The next of the three fields is assigned; after the last the call returns.
Assign(t) ==
    LET f == call[t].at
    IN  /\ f \in Fields
        /\ field' = [field EXCEPT ![call[t].of][f] = TextOf(found[t], f)]
        /\ CASE f = "name"      -> Continues(t, "home") /\ UNCHANGED found
             [] f = "home"      -> Continues(t, "real_name") /\ UNCHANGED found
             [] f = "real_name" -> Ends(t)
        /\ UNCHANGED <<entry, overlapped, safe>>

UserNext ==
    \/ EntryChanges
    \/ \E u \in Users : Construct(u) \/ \E v \in Users \ {u} : Copy(u, v)
    \/ \E t \in Threads : \/ \E u \in Users, m \in Methods : Ask(t, u, m)
                          \/ Lookup(t) \/ LookupFails(t) \/ Assign(t)

-----------------------------------------------------------------------------
\* A User shows the fields of one lookup, and "unknown" only where name_safe hid
\* its failure from the caller, on this User or on the one it was copied from;
\* unless two calls resolved it at a time (the comment of User::resolve: all
\* fields of the object are then filled in).
FieldsOfOneLookup ==
    \A u \in Users : Using(u) = {} /\ u \notin overlapped =>
        /\ Unknown \in {field[u][f] : f \in Fields} => u \in safe
        /\ \/ field[u]["home"] = Empty /\ field[u]["real_name"] = Empty
           \/ \E e \in 1 .. entry \cup {Unknown} :
                 \A f \in Fields : field[u][f] = TextOf(e, f)
=============================================================================
