-------------------------------- MODULE Host --------------------------------
(***************************************************************************)
(* Hosts and their full names (Host.cpp).                                  *)
(*                                                                         *)
(* full_name expands the name with two lookups, name to address and        *)
(* address to name, if it has none yet, and keeps what it gets, a failure  *)
(* too: the short name when the first lookup fails, the dotted address     *)
(* when the second does.  equals compares two full names.  A const Host is *)
(* shared by threads, the local host by all of them.                       *)
(***************************************************************************)
EXTENDS Callers

CONSTANTS
    Hosts,      \* the Host objects the threads share
    MaxName     \* how many names the machine has in DNS, one after the other

VARIABLES
    dns,        \* the name of the machine in DNS now
    m_name,     \* m_name[h]: the name h was made with
    m_full_name,\* m_full_name[h]: its full name, if it is known
    crossed,    \* history: hosts that two calls have expanded at a time
    verdicts    \* history: [of, same]: what equals said of pairs of hosts

hostVars == <<dns, m_name, m_full_name, crossed, verdicts>>

HostInit ==
    /\ dns         = 1
    /\ m_name      = [h \in Hosts |-> Given]
    /\ m_full_name = [h \in Hosts |-> Empty]
    /\ crossed     = {}
    /\ verdicts    = {}

\* h is made anew with these names: what was said of it is of no concern now.
Made(h, name, full) ==
    /\ \A t \in Threads \ {u \in Threads : Idle(u)} :
          h \notin {call[t].of} \cup call[t].to.asked \cup call[t].to.rest
    /\ m_name'      = [m_name EXCEPT ![h] = name]
    /\ m_full_name' = [m_full_name EXCEPT ![h] = full]
    /\ crossed'     = crossed \ {h}
    /\ verdicts'    = {v \in verdicts : h \notin v.of}
    /\ UNCHANGED <<call, found, dns>>

-----------------------------------------------------------------------------
DnsChanges ==
    /\ dns < MaxName
    /\ dns' = dns + 1
    /\ UNCHANGED <<call, found, m_name, m_full_name, crossed, verdicts>>

\* A Host by name, or the local host, whose name uname and gethostname may not
\* give.
HostOfName(h) == \E n \in {Given, Empty} : Made(h, n, Empty)

\* A Host by address: resolve(address) is its name and its full name.
HostOfAddress(h) == \E n \in {dns, Dotted} : Made(h, n, n)

CopyHost(h, g) == Made(h, m_name[g], m_full_name[g])

-----------------------------------------------------------------------------
\* t calls full_name of h, or equals with the other hosts in rest, which asks
\* each of the two for its full name.
FullName(t, h, rest) ==
    /\ Idle(t)
    /\ Begins(t, "ask", h, [asked |-> {}, rest |-> rest])
    /\ UNCHANGED <<found, hostVars>>

\* h has a full name, given the names in full: the call goes on to the other
\* host, or equals compares the two.
HasFullName(t, full) ==
    LET h     == call[t].of
        asked == call[t].to.asked \cup {h}
        rest  == call[t].to.rest
    IN  \/ /\ rest = {}
           /\ Ends(t)
           /\ verdicts' = IF asked = {h} THEN verdicts ELSE verdicts \cup
                 {[of |-> asked, same |-> \A g, k \in asked : full[g] = full[k]]}
        \/ \E g \in rest :
              /\ Begins(t, "ask", g, [asked |-> asked, rest |-> rest \ {g}])
              /\ found' = [found EXCEPT ![t] = Empty]
              /\ UNCHANGED verdicts

Known(t) ==
    /\ call[t].at = "ask" /\ m_full_name[call[t].of] # Empty
    /\ HasFullName(t, m_full_name)
    /\ UNCHANGED <<dns, m_name, m_full_name, crossed>>

\* Calls between their look at m_full_name and their assignment to it.
Expanding(h) == {t \in Using(h) : call[t].at # "ask"}

\* Mutant of Expand: the full name is not remembered.
ExpandAgain(t) ==
    /\ call[t].at = "ask"
    /\ Continues(t, "resolve")
    /\ crossed' = IF Expanding(call[t].of) = {} THEN crossed
                  ELSE crossed \cup {call[t].of}
    /\ UNCHANGED <<found, dns, m_name, m_full_name, verdicts>>

Expand(t) ==
    /\ call[t].at = "ask" /\ m_full_name[call[t].of] = Empty
    /\ Continues(t, "resolve")
    /\ crossed' = IF Expanding(call[t].of) = {} THEN crossed
                  ELSE crossed \cup {call[t].of}
    /\ UNCHANGED <<found, dns, m_name, m_full_name, verdicts>>

\* getaddrinfo gives the address of the name; there is none of an empty one.
Resolve(t) ==
    /\ call[t].at = "resolve" /\ m_name[call[t].of] # Empty
    /\ Continues(t, "reverse")
    /\ UNCHANGED <<found, hostVars>>

\* It fails: the name is taken for the full name.
ResolveFails(t) ==
    /\ call[t].at = "resolve"
    /\ Continues(t, "store")
    /\ found' = [found EXCEPT ![t] = m_name[call[t].of]]
    /\ UNCHANGED hostVars

\* getnameinfo gives the name of the address, or the address is taken for it.
Reverse(t) ==
    /\ call[t].at = "reverse"
    /\ Continues(t, "store")
    /\ \E n \in {dns, Dotted} : found' = [found EXCEPT ![t] = n]
    /\ UNCHANGED hostVars

Store(t) ==
    /\ call[t].at = "store"
    /\ m_full_name' = [m_full_name EXCEPT ![call[t].of] = found[t]]
    /\ HasFullName(t, m_full_name')
    /\ UNCHANGED <<dns, m_name, crossed>>

HostNext ==
    \/ DnsChanges
    \/ \E h \in Hosts : \/ HostOfName(h) \/ HostOfAddress(h)
                        \/ \E g \in Hosts \ {h} : CopyHost(h, g)
    \/ \E t \in Threads :
          \/ \E h \in Hosts : \/ FullName(t, h, {})
                              \/ \E g \in Hosts \ {h} : FullName(t, h, {g})
          \/ Known(t) \/ Expand(t) \/ Resolve(t) \/ ResolveFails(t)
          \/ Reverse(t) \/ Store(t)

-----------------------------------------------------------------------------
\* What equals says of two hosts it says for good, although DNS changes and
\* fails, unless two calls expanded one of them at a time (full_name in Host.cpp:
\* a full name is looked up once).
EqualsForGood ==
    \A v, w \in verdicts :
        v.of = w.of /\ v.of \cap crossed = {} => v.same = w.same
=============================================================================
