----------------------------- MODULE NamesProofs -----------------------------
(***************************************************************************)
(* What Users, Hosts and the current process answer, for any number of     *)
(* threads and objects and any history of the system's databases.          *)
(*                                                                         *)
(* Nothing is locked: the invariants say of each point of a call what it   *)
(* has put into its object so far, for the objects that no second call has *)
(* been filling in at that time.                                           *)
(***************************************************************************)
EXTENDS Names, TLAPS

\* No two threads are in a call of a kind on one object.
Alone(S) == \A t, u \in S : t = u

-----------------------------------------------------------------------------
(* Users *)

UserCalls == {NoCall} \cup [at : {"lookup"} \cup Fields, of : Users, to : Methods]
UserTexts == {Empty, Unknown, Given} \cup Nat

\* The answers of the database so far, and of resolve_safe for it.
Answers == 1 .. entry \cup {Unknown}

UserTypeOK ==
    /\ call  \in [Threads -> UserCalls]
    /\ found \in [Threads -> {Empty} \cup Answers]
    /\ entry \in Nat \ {0}
    /\ field \in [Users -> [Fields -> UserTexts]]
    /\ overlapped \in SUBSET Users
    /\ safe \in SUBSET Users

\* The fields of u are those of one lookup, or of none.
OneLookup(u) ==
    \/ field[u]["home"] = Empty /\ field[u]["real_name"] = Empty
    \/ \E e \in Answers : \A f \in Fields : field[u][f] = TextOf(e, f)

\* "unknown" is there, or on its way, only where name_safe hid a failure.
SafeInv ==
    /\ \A u \in Users : Unknown \in {field[u][f] : f \in Fields} => u \in safe
    /\ \A t \in Threads : found[t] = Unknown => ~Idle(t) /\ call[t].of \in safe

\* A call that has a User for itself fills in the fields of its one lookup, and
\* finds those of one lookup there.
FillInv ==
    /\ \A t \in Threads : call[t].at \in Fields => found[t] \in Answers
    /\ \A u \in Users \ overlapped :
          /\ Alone(Using(u))
          /\ (\A t \in Using(u) : call[t].at \in {"lookup", "name"}) => OneLookup(u)
    /\ \A t \in Threads : ~Idle(t) /\ call[t].of \notin overlapped =>
          LET u == call[t].of
          IN  /\ call[t].at \in {"home", "real_name"} =>
                    field[u]["name"] = TextOf(found[t], "name")
              /\ call[t].at = "real_name" =>
                    field[u]["home"] = TextOf(found[t], "home")

UserInv == UserTypeOK /\ SafeInv /\ FillInv

\* The three fields are assigned one after the other.
LEMMA AssignSteps ==
  ASSUME NEW t \in Threads, Assign(t)
  PROVE  \/ call[t].at = "name" /\ Continues(t, "home") /\ UNCHANGED found
         \/ call[t].at = "home" /\ Continues(t, "real_name") /\ UNCHANGED found
         \/ call[t].at = "real_name" /\ Ends(t)
<1>1. call[t].at \in {"name", "home", "real_name"}
  BY DEF Assign, Fields
<1>2. CASE call[t].at = "name"
  BY <1>2, Zenon DEF Assign
<1>3. CASE call[t].at = "home"
  BY <1>3, Zenon DEF Assign
<1>4. CASE call[t].at = "real_name"
  BY <1>4, Zenon DEF Assign
<1> QED
  BY <1>1, <1>2, <1>3, <1>4

\* The texts of an entry, and "unknown", are what they are.
LEMMA Texts ==
  ASSUME NEW e \in Nat \cup {Unknown}, NEW f \in Fields
  PROVE  /\ TextOf(e, f) \in UserTexts
         /\ TextOf(e, f) = Unknown => e = Unknown
  BY StringsAssumption DEF TextOf, UserTexts

\* What is the same after a step that a thread takes in its call.
LEMMA CallTypes ==
  ASSUME UserTypeOK, NEW t \in Threads, ~Idle(t)
  PROVE  /\ call[t] \in [at : {"lookup"} \cup Fields, of : Users, to : Methods]
         /\ call[t].of \in Users /\ call[t].at # "idle"
  BY DEF UserTypeOK, UserCalls, Idle, NoCall

\* The application starts with Users nobody has asked.
LEMMA UserInitInv == CallersInit /\ UserInit => UserInv
<1> SUFFICES ASSUME CallersInit, UserInit PROVE UserInv
  OBVIOUS
<1> USE StringsAssumption DEF CallersInit, UserInit, Idle, NoCall, Using
<1>1. UserTypeOK
  BY DEF UserTypeOK, UserCalls, UserTexts, Answers
<1>2. SafeInv
  BY DEF SafeInv, Fields
<1>3. FillInv
  BY DEF FillInv, Alone, OneLookup, Fields
<1> QED
  BY <1>1, <1>2, <1>3 DEF UserInv

\* An edit of the account adds an entry.
LEMMA EntryChangesInv == UserInv /\ EntryChanges => UserInv'
<1> SUFFICES ASSUME UserInv, EntryChanges PROVE UserInv'
  OBVIOUS
<1> USE DEF UserInv, UserTypeOK
<1>1. /\ entry' = entry + 1 /\ UNCHANGED <<call, found, field, overlapped, safe>>
      /\ Answers \subseteq Answers'
  BY DEF EntryChanges, Answers
<1>2. UserTypeOK'
  BY <1>1
<1>3. SafeInv'
  BY <1>1 DEF SafeInv, Idle
<1>4. \A u \in Users : OneLookup(u) => OneLookup(u)'
  BY <1>1 DEF OneLookup
<1>5. FillInv'
  BY <1>1, <1>4 DEF FillInv, Using, Alone, Idle
<1> QED
  BY <1>2, <1>3, <1>5

\* A User that is made anew shows a name at most.
LEMMA NamedInv ==
  ASSUME UserInv, NEW u \in Users, NEW n \in UserTexts, Named(u, n), Using(u) = {},
         overlapped' = overlapped \ {u}, UNCHANGED <<call, found, entry>>,
         safe' \in SUBSET Users, \A v \in Users \ {u} : v \in safe => v \in safe',
         n = Unknown => u \in safe'
  PROVE  UserInv'
<1> USE DEF UserInv, UserTypeOK
<1>1. /\ \A f \in Fields : field'[u][f] = IF f = "name" THEN n ELSE Empty
      /\ \A v \in Users \ {u} : field'[v] = field[v]
      /\ field' \in [Users -> [Fields -> UserTexts]]
  BY DEF Named, UserTexts
<1>2. \A t \in Threads : ~Idle(t) => call[t].of # u
  BY DEF Using
<1>3. UserTypeOK'
  BY <1>1 DEF Answers
<1>4. SafeInv'
  BY <1>1, <1>2, StringsAssumption, CallTypes DEF SafeInv, Idle
<1>5. OneLookup(u)' /\ \A v \in Users \ {u} : OneLookup(v) => OneLookup(v)'
  BY <1>1 DEF OneLookup, Fields, Answers
<1>6. \A v \in Users : Using(v)' = Using(v)
  BY DEF Using, Idle
<1>7. FillInv'
  BY <1>1, <1>2, <1>5, <1>6, CallTypes DEF FillInv, Alone, Idle, Answers
<1> QED
  BY <1>3, <1>4, <1>7

\* A User made by uid, by name or as a copy shows at most a name it was given.
LEMMA MadeUserInv ==
  ASSUME UserInv, NEW u \in Users,
         Construct(u) \/ \E v \in Users \ {u} : Copy(u, v)
  PROVE  UserInv'
<1> USE DEF UserInv, UserTypeOK
<1>1. CASE Construct(u)
  BY <1>1, NamedInv, StringsAssumption DEF Construct, UserTexts
<1>2. ASSUME NEW v \in Users \ {u}, Copy(u, v) PROVE UserInv'
  <2>1. field[v]["name"] \in UserTexts /\ (field[v]["name"] = Unknown => v \in safe)
    BY DEF SafeInv, Fields
  <2> QED
    BY <1>2, <2>1, NamedInv DEF Copy
<1> QED
  BY <1>1, <1>2

\* A second call on a User makes it one that two have resolved.
LEMMA AskInv ==
  ASSUME UserInv, NEW t \in Threads, NEW u \in Users, NEW m \in Methods, Ask(t, u, m)
  PROVE  UserInv'
<1> USE DEF UserInv, UserTypeOK
<1>1. /\ Idle(t) /\ call' = [call EXCEPT ![t] = [at |-> "lookup", of |-> u, to |-> m]]
      /\ overlapped' = IF Using(u) = {} THEN overlapped ELSE overlapped \cup {u}
      /\ UNCHANGED <<found, entry, field, safe>>
  BY DEF Ask, Begins
<1>2. /\ call'[t].at = "lookup" /\ call'[t].of = u
      /\ \A w \in Threads \ {t} : call'[w] = call[w]
  BY <1>1
<1>3. UserTypeOK'
  BY <1>1 DEF UserCalls, Answers
<1>4. SafeInv'
  BY <1>1, <1>2 DEF SafeInv, Idle
<1>5. \A v \in Users : OneLookup(v)' <=> OneLookup(v)
  BY <1>1 DEF OneLookup, Answers
<1>6. Using(u)' = Using(u) \cup {t} /\ \A v \in Users \ {u} : Using(v)' = Using(v)
  BY <1>1, <1>2 DEF Using, Idle
<1>7. FillInv'
  BY <1>1, <1>2, <1>5, <1>6 DEF FillInv, Alone, Idle, Answers, Fields, Using
<1> QED
  BY <1>3, <1>4, <1>7

\* A lookup answers with an entry of the account, or with "unknown".
LEMMA LookupInv ==
  ASSUME UserInv, NEW t \in Threads, Lookup(t) \/ LookupFails(t)
  PROVE  UserInv'
<1> USE DEF UserInv, UserTypeOK
<1>1. call[t].at = "lookup" /\ ~Idle(t) /\ UNCHANGED <<entry, field, overlapped>>
  BY DEF Lookup, LookupFails, userVars, Idle
<1>2. call[t] \in [at : {"lookup"} \cup Fields, of : Users, to : Methods]
  BY <1>1, CallTypes
<1>3. CASE Continues(t, "name")
  <2>1. PICK e \in Answers :
           /\ found' = [found EXCEPT ![t] = e]
           /\ \A u \in Users : u \in safe => u \in safe'
           /\ e = Unknown => call[t].of \in safe'
           /\ safe' \in SUBSET Users
    BY <1>1, <1>2, <1>3, StringsAssumption DEF Lookup, LookupFails, Answers, userVars,
       Ends, Continues, NoCall
  <2>2. /\ call'[t].at = "name" /\ call'[t].of = call[t].of
        /\ call'[t] \in [at : {"lookup"} \cup Fields, of : Users, to : Methods]
        /\ \A w \in Threads \ {t} : call'[w] = call[w] /\ found'[w] = found[w]
        /\ found'[t] = e /\ call' \in [Threads -> UserCalls]
    BY <1>2, <1>3, <2>1 DEF Continues, Fields, UserCalls
  <2>3. UserTypeOK'
    BY <1>1, <2>1, <2>2 DEF Answers
  <2>4. SafeInv'
    BY <1>1, <2>1, <2>2 DEF SafeInv, Idle, UserCalls, NoCall
  <2>5. \A u \in Users : (OneLookup(u)' <=> OneLookup(u)) /\ Using(u)' = Using(u)
    BY <1>1, <2>2 DEF OneLookup, Answers, Using, Idle
  <2>6. FillInv'
    BY <1>1, <2>1, <2>2, <2>5 DEF FillInv, Alone, Idle, Answers, Fields, Using
  <2> QED
    BY <2>3, <2>4, <2>6
<1>4. CASE Ends(t) /\ UNCHANGED safe
  <2>1. /\ call'[t] = NoCall /\ found'[t] = Empty
        /\ \A w \in Threads \ {t} : call'[w] = call[w] /\ found'[w] = found[w]
    BY <1>4 DEF Ends
  <2>2. UserTypeOK'
    BY <1>1, <1>4 DEF Answers, Ends, UserCalls
  <2>3. SafeInv'
    BY <1>1, <1>4, <2>1, StringsAssumption DEF SafeInv, Idle
  <2>4. \A u \in Users : (OneLookup(u)' <=> OneLookup(u)) /\ Using(u)' = Using(u) \ {t}
    BY <1>1, <2>1 DEF OneLookup, Answers, Using, Idle, NoCall
  <2>5. FillInv'
    BY <1>1, <2>1, <2>4 DEF FillInv, Alone, Idle, Answers, Fields, Using, NoCall
  <2> QED
    BY <2>2, <2>3, <2>5
<1> QED
  BY <1>3, <1>4 DEF Lookup, LookupFails

\* A field is assigned from the answer of the call.
LEMMA AssignInv ==
  ASSUME UserInv, NEW t \in Threads, Assign(t)
  PROVE  UserInv'
<1> USE DEF UserInv, UserTypeOK
<1>0. call[t].at \in Fields /\ ~Idle(t) /\ UNCHANGED <<entry, overlapped, safe>>
  BY DEF Assign, Idle, Fields
<1>2. PICK u \in Users, f \in Fields, e \in Answers :
         u = call[t].of /\ f = call[t].at /\ e = found[t]
  BY <1>0, CallTypes DEF FillInv
<1>1. /\ ~Idle(t) /\ UNCHANGED <<entry, overlapped, safe>>
      /\ field' = [field EXCEPT ![u] = [field[u] EXCEPT ![f] = TextOf(e, f)]]
      /\ call[t] \in [at : {"lookup"} \cup Fields, of : Users, to : Methods]
  BY <1>0, <1>2, CallTypes DEF Assign
<1>3. TextOf(e, f) \in UserTexts /\ (TextOf(e, f) = Unknown => u \in safe)
  <2>1. e \in Nat \cup {Unknown}
    BY DEF Answers
  <2> QED
    BY <1>2, <2>1, Texts DEF SafeInv
<1>4. /\ field'[u][f] = TextOf(e, f)
      /\ \A g \in Fields \ {f} : field'[u][g] = field[u][g]
      /\ \A v \in Users \ {u} : field'[v] = field[v]
  BY <1>1, <1>2
<1>5. /\ \/ f = "name" /\ call'[t].at = "home" /\ call'[t].of = u /\ found'[t] = e
         \/ f = "home" /\ call'[t].at = "real_name" /\ call'[t].of = u /\ found'[t] = e
         \/ f = "real_name" /\ call'[t].at = "idle" /\ found'[t] = Empty
      /\ \A w \in Threads \ {t} : call'[w] = call[w] /\ found'[w] = found[w]
      /\ call' \in [Threads -> UserCalls]
      /\ found' \in [Threads -> {Empty} \cup Answers]
  <2>1. ASSUME NEW q \in {"home", "real_name"}, Continues(t, q), UNCHANGED found
        PROVE  /\ call'[t].at = q /\ call'[t].of = u /\ found'[t] = e
               /\ \A w \in Threads \ {t} : call'[w] = call[w] /\ found'[w] = found[w]
               /\ call' \in [Threads -> UserCalls]
               /\ found' \in [Threads -> {Empty} \cup Answers]
    <3>1. call' = [call EXCEPT ![t] = [call[t] EXCEPT !.at = q]]
      BY <2>1 DEF Continues
    <3>2. [call[t] EXCEPT !.at = q] \in [at : {"lookup"} \cup Fields, of : Users, to : Methods]
      BY <1>1 DEF Fields
    <3> QED
      BY <1>1, <1>2, <2>1, <3>1, <3>2 DEF UserCalls
  <2>2. ASSUME Ends(t)
        PROVE  /\ call'[t].at = "idle" /\ found'[t] = Empty
               /\ \A w \in Threads \ {t} : call'[w] = call[w] /\ found'[w] = found[w]
               /\ call' \in [Threads -> UserCalls]
               /\ found' \in [Threads -> {Empty} \cup Answers]
    BY <2>2 DEF Ends, UserCalls, NoCall
  <2> QED
    BY <1>2, <2>1, <2>2, AssignSteps
<1>6. UserTypeOK'
  BY <1>1, <1>2, <1>3, <1>5 DEF Answers
<1>7. SafeInv'
  <2>1. \A v \in Users : Unknown \in {field'[v][g] : g \in Fields} => v \in safe
    BY <1>2, <1>3, <1>4 DEF SafeInv
  <2>2. \A w \in Threads : found'[w] = Unknown => ~Idle(w)' /\ call'[w].of \in safe
    BY <1>1, <1>5, <1>2, StringsAssumption DEF SafeInv, Idle, Answers
  <2> QED
    BY <1>1, <2>1, <2>2 DEF SafeInv
<1>9. \A v \in Users : Using(v)' \subseteq Using(v)
  BY <1>1, <1>2, <1>5 DEF Using, Idle
<1>10. ASSUME u \notin overlapped
       PROVE  /\ \A w \in Threads \ {t} : ~Idle(w) => call[w].of # u
              /\ f = "real_name" => OneLookup(u)'
  <2>1. t \in Using(u) /\ Alone(Using(u))
    BY <1>1, <1>2, <1>10 DEF FillInv, Using
  <2>2. /\ f \in {"home", "real_name"} => field[u]["name"] = TextOf(e, "name")
        /\ f = "real_name" => field[u]["home"] = TextOf(e, "home")
    BY <1>1, <1>2, <1>10 DEF FillInv
  <2>3. f = "real_name" => \A g \in Fields : field'[u][g] = TextOf(e, g)
    BY <1>4, <2>2 DEF Fields
  <2>4. f = "real_name" => OneLookup(u)'
    BY <1>1, <2>3 DEF OneLookup, Answers
  <2>5. \A w \in Threads \ {t} : ~Idle(w) => call[w].of # u
    BY <2>1 DEF Alone, Using
  <2> QED
    BY <2>4, <2>5
<1>11. \A v \in Users \ {u} : OneLookup(v)' <=> OneLookup(v)
  BY <1>1, <1>4 DEF OneLookup, Answers
<1>12. FillInv'
  <2>1. \A w \in Threads : call'[w].at \in Fields => found'[w] \in Answers'
    BY <1>1, <1>2, <1>5 DEF FillInv, Answers, Fields
  <2>2. ASSUME NEW v \in Users \ overlapped
        PROVE  /\ Alone(Using(v)')
               /\ (\A w \in Using(v)' : call'[w].at \in {"lookup", "name"}) => OneLookup(v)'
    <3>1. Alone(Using(v)')
      BY <1>9, <2>2 DEF FillInv, Alone
    <3>2. CASE v = u
      <4>1. f # "real_name" => t \in Using(u)' /\ call'[t].at \notin {"lookup", "name"}
        BY <1>1, <1>2, <1>5 DEF Using, Idle, Fields
      <4> QED
        BY <1>10, <2>2, <3>1, <3>2, <4>1
    <3>3. CASE v # u
      <4>1. Using(v)' = Using(v) /\ t \notin Using(v)
        BY <1>1, <1>2, <1>5, <3>3 DEF Using, Idle
      <4> QED
        BY <1>5, <1>11, <2>2, <3>1, <3>3, <4>1 DEF FillInv, Using
    <3> QED
      BY <3>2, <3>3
  <2>3. ASSUME NEW w \in Threads, ~Idle(w)', call'[w].of \notin overlapped
        PROVE  LET v == call'[w].of
               IN  /\ call'[w].at \in {"home", "real_name"} =>
                         field'[v]["name"] = TextOf(found'[w], "name")
                   /\ call'[w].at = "real_name" =>
                         field'[v]["home"] = TextOf(found'[w], "home")
    <3>1. CASE w = t
      <4>1. call'[w].of = u /\ u \notin overlapped /\ found'[t] = e
        BY <1>5, <2>3, <3>1 DEF Idle
      <4>2. /\ f \in {"home", "real_name"} => field[u]["name"] = TextOf(e, "name")
            /\ f = "real_name" => field[u]["home"] = TextOf(e, "home")
        BY <1>1, <1>2, <4>1 DEF FillInv
      <4> QED
        BY <1>1, <1>4, <1>5, <2>3, <3>1, <4>1, <4>2 DEF Fields, Idle
    <3>2. CASE w # t
      <4>1. call'[w] = call[w] /\ found'[w] = found[w] /\ ~Idle(w)
        BY <1>5, <2>3, <3>2 DEF Idle
      <4>2. call[w].of # u /\ call[w].of \in Users
        BY <1>10, <2>3, <3>2, <4>1, CallTypes
      <4> QED
        BY <1>4, <2>3, <4>1, <4>2 DEF FillInv
    <3> QED
      BY <3>1, <3>2
  <2> QED
    BY <1>1, <2>1, <2>2, <2>3 DEF FillInv
<1> QED
  BY <1>6, <1>7, <1>12

\* Every step of a User or of its account keeps the invariant.
LEMMA UserNextInv == UserInv /\ UserNext => UserInv'
  BY EntryChangesInv, MadeUserInv, AskInv, LookupInv, AssignInv DEF UserNext

-----------------------------------------------------------------------------
(* Hosts *)

HostCalls == {NoCall} \cup [at : {"ask", "resolve", "reverse", "store"}, of : Hosts,
                            to : [asked : SUBSET Hosts, rest : SUBSET Hosts]]

HostTypeOK ==
    /\ call \in [Threads -> HostCalls]
    /\ m_name \in [Hosts -> {Empty, Given, Dotted} \cup Nat]
    /\ dns \in Nat
    /\ m_full_name \in [Hosts -> {Empty, Given, Dotted} \cup Nat]
    /\ found \in [Threads -> {Empty, Given, Dotted} \cup Nat]
    /\ verdicts \subseteq [of : SUBSET Hosts, same : BOOLEAN]

\* A host shows the name it is going to show: one without a name has no other.
Settled(h) == m_full_name[h] # Empty \/ m_name[h] = Empty

\* The names a call finds, and those of the hosts it has asked.
AskedInv ==
    /\ \A h \in Hosts : m_name[h] = Empty => m_full_name[h] = Empty
    /\ \A t \in Threads :
          /\ call[t].at = "reverse" => m_name[call[t].of] # Empty
          /\ call[t].at = "store" => (found[t] = Empty <=> m_name[call[t].of] = Empty)
          /\ ~Idle(t) => \A h \in call[t].to.asked : Settled(h)

\* A host that one call at a time expands is expanded once.
ExpandInv ==
    \A h \in Hosts \ crossed :
        /\ Alone(Expanding(h))
        /\ Expanding(h) # {} => m_full_name[h] = Empty

\* What equals has said is still so.
VerdictInv ==
    \A v \in verdicts : v.of \cap crossed = {} =>
        /\ \A h \in v.of : Settled(h)
        /\ v.same <=> \A g, k \in v.of : m_full_name[g] = m_full_name[k]

HostInv == HostTypeOK /\ AskedInv /\ ExpandInv /\ VerdictInv

\* The application starts with hosts nobody has asked.
LEMMA HostInitInv == CallersInit /\ HostInit => HostInv
<1> SUFFICES ASSUME CallersInit, HostInit PROVE HostInv
  OBVIOUS
<1> USE StringsAssumption DEF CallersInit, HostInit, Idle, NoCall
<1>1. HostTypeOK
  BY DEF HostTypeOK, HostCalls
<1>2. AskedInv
  BY DEF AskedInv
<1>3. ExpandInv /\ VerdictInv
  BY DEF ExpandInv, VerdictInv, Expanding, Using, Alone
<1> QED
  BY <1>1, <1>2, <1>3 DEF HostInv

\* A call in progress has a host and the others it asks about.
LEMMA HostCallTypes ==
  ASSUME HostTypeOK, NEW t \in Threads, ~Idle(t)
  PROVE  /\ call[t] \in [at : {"ask", "resolve", "reverse", "store"}, of : Hosts,
                         to : [asked : SUBSET Hosts, rest : SUBSET Hosts]]
         /\ call[t].of \in Hosts
         /\ call[t].to.asked \in SUBSET Hosts /\ call[t].to.rest \in SUBSET Hosts
  BY DEF HostTypeOK, HostCalls, Idle, NoCall

\* DNS may say what it likes: no host looks at it again.
LEMMA DnsChangesInv == HostInv /\ DnsChanges => HostInv'
<1> SUFFICES ASSUME HostInv, DnsChanges PROVE HostInv'
  OBVIOUS
<1>1. dns \in Nat /\ dns' = dns + 1
      /\ UNCHANGED <<call, found, m_name, m_full_name, crossed, verdicts>>
  BY DEF DnsChanges, HostInv, HostTypeOK
<1> QED
  BY <1>1 DEF HostInv, HostTypeOK, AskedInv, ExpandInv, VerdictInv, Settled, Expanding,
              Using, Alone, Idle

\* A host that is made anew is in no call, and nothing is said of it.
LEMMA MadeInv ==
  ASSUME HostInv, NEW h \in Hosts,
         NEW n \in {Empty, Given, Dotted} \cup Nat,
         NEW f \in {Empty, Given, Dotted} \cup Nat,
         n = Empty => f = Empty, Made(h, n, f)
  PROVE  HostInv'
<1> USE DEF HostInv, HostTypeOK
<1>1. /\ m_name' = [m_name EXCEPT ![h] = n]
      /\ m_full_name' = [m_full_name EXCEPT ![h] = f]
      /\ crossed' = crossed \ {h} /\ verdicts' = {v \in verdicts : h \notin v.of}
      /\ UNCHANGED <<call, found, dns>>
  BY DEF Made
<1>2. \A t \in Threads : ~Idle(t) => call[t].of # h /\ h \notin call[t].to.asked
  BY DEF Made
<1>3. \A g \in Hosts \ {h} : m_name'[g] = m_name[g] /\ m_full_name'[g] = m_full_name[g]
  BY <1>1
<1>4. m_name'[h] = n /\ m_full_name'[h] = f
  BY <1>1
<1>5. HostTypeOK'
  BY <1>1
<1>6. AskedInv'
  BY <1>1, <1>2, <1>3, <1>4, HostCallTypes DEF AskedInv, Settled, Idle
<1>7. ExpandInv'
  <2>1. \A g \in Hosts : Expanding(g)' = Expanding(g)
    BY <1>1 DEF Expanding, Using, Idle
  <2>2. Expanding(h) = {}
    BY <1>2 DEF Expanding, Using
  <2> QED
    BY <1>1, <1>3, <2>1, <2>2 DEF ExpandInv, Alone
<1>8. VerdictInv'
  BY <1>1, <1>3 DEF VerdictInv, Settled
<1> QED
  BY <1>5, <1>6, <1>7, <1>8

\* A Host made by name, by address or as a copy is one of those.
LEMMA MadeHostInv ==
  ASSUME HostInv, NEW h \in Hosts,
         \/ HostOfName(h) \/ HostOfAddress(h)
         \/ \E g \in Hosts \ {h} : CopyHost(h, g)
  PROVE  HostInv'
<1> USE DEF HostInv, HostTypeOK
<1>1. CASE HostOfName(h)
  BY <1>1, MadeInv DEF HostOfName
<1>2. CASE HostOfAddress(h)
  BY <1>2, MadeInv, StringsAssumption DEF HostOfAddress
<1>3. ASSUME NEW g \in Hosts \ {h}, CopyHost(h, g) PROVE HostInv'
  BY <1>3, MadeInv DEF CopyHost, AskedInv
<1> QED
  BY <1>1, <1>2, <1>3

\* A call asks another host, or its first: nobody expands it for that.
LEMMA AskHostInv ==
  ASSUME HostTypeOK, AskedInv, ExpandInv, VerdictInv,
         NEW t \in Threads, NEW g \in Hosts, NEW asked \in SUBSET Hosts,
         NEW rest \in SUBSET Hosts, \A h \in asked : Settled(h),
         Begins(t, "ask", g, [asked |-> asked, rest |-> rest]),
         UNCHANGED <<dns, m_name, m_full_name, crossed, verdicts>>,
         found' = found \/ found' = [found EXCEPT ![t] = Empty]
  PROVE  HostInv'
<1> USE DEF HostInv, HostTypeOK
<1> DEFINE c == [at |-> "ask", of |-> g, to |-> [asked |-> asked, rest |-> rest]]
<1>1. call' = [call EXCEPT ![t] = c] /\ c \in HostCalls
  BY DEF Begins, HostCalls
<1>2. /\ call'[t].at = "ask" /\ call'[t].to.asked = asked
      /\ \A w \in Threads \ {t} : call'[w] = call[w] /\ found'[w] = found[w]
  BY <1>1
<1> HIDE DEF c
<1>3. HostTypeOK'
  BY <1>1
<1>4. AskedInv'
  BY <1>2 DEF AskedInv, Settled, Idle
<1>5. ExpandInv'
  <2>1. \A h \in Hosts : Expanding(h)' \subseteq Expanding(h)
    BY <1>2 DEF Expanding, Using, Idle
  <2> QED
    BY <2>1 DEF ExpandInv, Alone
<1>6. VerdictInv'
  BY DEF VerdictInv, Settled
<1> QED
  BY <1>3, <1>4, <1>5, <1>6

\* A call that asks no more hosts ends, and equals may have said something.
LEMMA EndHostInv ==
  ASSUME HostTypeOK, AskedInv, ExpandInv, VerdictInv, NEW t \in Threads, Ends(t),
         UNCHANGED <<dns, m_name, m_full_name, crossed>>,
         NEW asked \in SUBSET Hosts, \A h \in asked : Settled(h),
         \/ UNCHANGED verdicts
         \/ verdicts' = verdicts \cup
              {[of |-> asked,
                same |-> \A g, k \in asked : m_full_name[g] = m_full_name[k]]}
  PROVE  HostInv'
<1> USE DEF HostInv, HostTypeOK
<1>1. /\ call'[t] = NoCall /\ found'[t] = Empty
      /\ \A w \in Threads \ {t} : call'[w] = call[w] /\ found'[w] = found[w]
      /\ call' \in [Threads -> HostCalls]
      /\ found' \in [Threads -> {Empty, Given, Dotted} \cup Nat]
  BY DEF Ends, HostCalls
<1>2. HostTypeOK'
  <2>1. verdicts' \subseteq [of : SUBSET Hosts, same : BOOLEAN]
    <3>1. verdicts \in SUBSET [of : SUBSET Hosts, same : BOOLEAN]
      BY DEF HostTypeOK
    <3>2. CASE UNCHANGED verdicts
      BY <3>1, <3>2
    <3>3. CASE verdicts' = verdicts \cup
                 {[of |-> asked,
                   same |-> \A g, k \in asked : m_full_name[g] = m_full_name[k]]}
      <4>1. PICK b \in BOOLEAN :
               b = \A g, k \in asked : m_full_name[g] = m_full_name[k]
        OBVIOUS
      <4>2. verdicts' = verdicts \cup {[of |-> asked, same |-> b]}
        BY <3>3, <4>1, Zenon
      <4> QED
        BY <3>1, <4>2
    <3> QED
      BY <3>2, <3>3
  <2> QED
    BY <1>1, <2>1
<1>3. AskedInv'
  BY <1>1 DEF AskedInv, Settled, Idle, NoCall
<1>4. ExpandInv'
  <2>1. \A h \in Hosts : Expanding(h)' \subseteq Expanding(h)
    BY <1>1 DEF Expanding, Using, Idle, NoCall
  <2> QED
    BY <2>1 DEF ExpandInv, Alone
<1>5. VerdictInv'
  BY DEF VerdictInv, Settled
<1> QED
  BY <1>2, <1>3, <1>4, <1>5

\* A call that finds the full name of its host goes on to the next one, or ends.
LEMMA KnownInv ==
  ASSUME HostInv, NEW t \in Threads, Known(t)
  PROVE  HostInv'
<1>1. /\ ~Idle(t) /\ call[t].of \in Hosts /\ m_full_name[call[t].of] # Empty
      /\ call[t].to.asked \in SUBSET Hosts /\ call[t].to.rest \in SUBSET Hosts
  BY HostCallTypes DEF Known, Idle, HostInv
<1>2. PICK asked \in SUBSET Hosts : asked = call[t].to.asked \cup {call[t].of}
  BY <1>1
<1>3. \A h \in asked : Settled(h)
  BY <1>1, <1>2 DEF HostInv, AskedInv, Settled
<1>4. UNCHANGED <<dns, m_name, m_full_name, crossed>>
  BY DEF Known
<1>5. CASE /\ Ends(t)
           /\ \/ UNCHANGED verdicts
              \/ verdicts' = verdicts \cup
                   {[of |-> asked,
                     same |-> \A g, k \in asked : m_full_name[g] = m_full_name[k]]}
  BY <1>3, <1>4, <1>5, EndHostInv DEF HostInv
<1>6. ASSUME NEW g \in call[t].to.rest,
             Begins(t, "ask", g, [asked |-> asked, rest |-> call[t].to.rest \ {g}]),
             found' = [found EXCEPT ![t] = Empty], UNCHANGED verdicts
      PROVE  HostInv'
  BY <1>1, <1>3, <1>4, <1>6, AskHostInv DEF HostInv
<1> QED
  BY <1>2, <1>5, <1>6 DEF Known, HasFullName

\* The steps of an expansion before its end.
LEMMA ExpansionInv ==
  ASSUME HostInv, NEW t \in Threads,
         Expand(t) \/ Resolve(t) \/ ResolveFails(t) \/ Reverse(t)
  PROVE  HostInv'
<1> USE DEF HostInv, HostTypeOK
<1>1. /\ ~Idle(t) /\ UNCHANGED <<dns, m_name, m_full_name, verdicts>>
      /\ \E q \in {"resolve", "reverse", "store"} : Continues(t, q)
  BY DEF Expand, Resolve, ResolveFails, Reverse, Idle, hostVars
<1>2. PICK q \in {"resolve", "reverse", "store"} : Continues(t, q)
  BY <1>1
<1>3. PICK h \in Hosts : h = call[t].of
  BY <1>1, HostCallTypes
<1>4. /\ call'[t].at = q /\ call'[t].of = h /\ call'[t].to = call[t].to
      /\ \A w \in Threads \ {t} : call'[w] = call[w]
      /\ call' \in [Threads -> HostCalls]
  <2>1. call' = [call EXCEPT ![t] = [call[t] EXCEPT !.at = q]]
    BY <1>2 DEF Continues
  <2>2. [call[t] EXCEPT !.at = q] \in
          [at : {"ask", "resolve", "reverse", "store"}, of : Hosts,
           to : [asked : SUBSET Hosts, rest : SUBSET Hosts]]
    BY <1>1, HostCallTypes
  <2> QED
    BY <1>1, <1>3, <2>1, <2>2, HostCallTypes DEF HostCalls
<1>5. /\ q = "reverse" => m_name[h] # Empty
      /\ q = "store" => (found'[t] = Empty <=> m_name[h] = Empty)
      /\ \A w \in Threads \ {t} : found'[w] = found[w]
      /\ found' \in [Threads -> {Empty, Given, Dotted} \cup Nat]
  <2>1. CASE Expand(t)
    BY <1>3, <1>4, <2>1 DEF Expand, Continues
  <2>2. CASE Resolve(t)
    BY <1>3, <1>4, <2>2 DEF Resolve, Continues
  <2>3. CASE ResolveFails(t)
    BY <1>3, <1>4, <2>3 DEF ResolveFails, Continues
  <2>4. CASE Reverse(t)
    BY <1>3, <1>4, <2>4, StringsAssumption DEF Reverse, Continues, AskedInv
  <2> QED
    BY <2>1, <2>2, <2>3, <2>4
<1>6. HostTypeOK'
  BY <1>1, <1>4, <1>5
<1>7. AskedInv'
  BY <1>1, <1>3, <1>4, <1>5 DEF AskedInv, Settled, Idle
<1>8. /\ crossed \subseteq crossed'
      /\ call[t].at = "ask" =>
           m_full_name[h] = Empty /\ (h \notin crossed' => Expanding(h) = {})
  BY <1>3 DEF Expand, Resolve, ResolveFails, Reverse, hostVars
<1>9. ExpandInv'
  <2>1. \A g \in Hosts \ {h} : Expanding(g)' = Expanding(g)
    BY <1>1, <1>3, <1>4 DEF Expanding, Using, Idle
  <2>2. Expanding(h)' = Expanding(h) \cup {t}
    BY <1>1, <1>3, <1>4 DEF Expanding, Using, Idle
  <2>3. call[t].at # "ask" => t \in Expanding(h)
    BY <1>1, <1>3 DEF Expanding, Using
  <2> QED
    BY <1>1, <1>8, <2>1, <2>2, <2>3 DEF ExpandInv, Alone
<1>10. VerdictInv'
  BY <1>1, <1>8 DEF VerdictInv, Settled
<1> QED
  BY <1>6, <1>7, <1>9, <1>10

\* A full name is assigned: if no other call was expanding the host, it had none,
\* and it gets one unless nothing was said of it.
LEMMA StoreInv ==
  ASSUME HostInv, NEW t \in Threads, Store(t)
  PROVE  HostInv'
<1> USE DEF HostInv, HostTypeOK
<1>1. ~Idle(t) /\ call[t].at = "store"
  BY DEF Store, Idle
<1>2. PICK h \in Hosts, n \in {Empty, Given, Dotted} \cup Nat :
         h = call[t].of /\ n = found[t]
  BY <1>1, HostCallTypes
<1>3. /\ m_full_name' = [m_full_name EXCEPT ![h] = n]
      /\ UNCHANGED <<dns, m_name, crossed>>
      /\ n = Empty <=> m_name[h] = Empty
  BY <1>1, <1>2 DEF Store, AskedInv
<1>4. m_full_name'[h] = n /\ \A g \in Hosts \ {h} : m_full_name'[g] = m_full_name[g]
  BY <1>3
<1>5. PICK asked \in SUBSET Hosts : asked = call[t].to.asked \cup {h}
  BY <1>1, HostCallTypes
<1>6. \A g \in Hosts : Settled(g) => Settled(g)'
  BY <1>3, <1>4 DEF Settled
<1>7. \A g \in asked : Settled(g)'
  <2>1. Settled(h)'
    BY <1>3, <1>4 DEF Settled
  <2> QED
    BY <1>1, <1>5, <1>6, <2>1 DEF AskedInv
<1>8. /\ t \in Expanding(h)
      /\ h \notin crossed => m_full_name[h] = Empty /\ Expanding(h) = {t}
  BY <1>1, <1>2 DEF Expanding, Using, ExpandInv, Alone
<1>9. \A v \in verdicts : v.of \cap crossed = {} /\ h \in v.of => m_full_name'[h] = m_full_name[h]
  BY <1>3, <1>4, <1>8 DEF VerdictInv, Settled
<1>10. \A v \in verdicts : v.of \cap crossed = {} =>
          /\ \A g \in v.of : Settled(g)'
          /\ v.same <=> \A g, k \in v.of : m_full_name'[g] = m_full_name'[k]
  BY <1>4, <1>6, <1>9 DEF VerdictInv
<1>11. \A g \in Hosts : m_name'[g] = Empty => m_full_name'[g] = Empty
  BY <1>3, <1>4 DEF AskedInv
<1>12. ASSUME NEW d, \/ d = NoCall
                     \/ \E g \in call[t].to.rest :
                          d = [at |-> "ask", of |-> g,
                               to |-> [asked |-> asked, rest |-> call[t].to.rest \ {g}]],
              call' = [call EXCEPT ![t] = d], found' = [found EXCEPT ![t] = Empty]
       PROVE  /\ call' \in [Threads -> HostCalls]
              /\ found' \in [Threads -> {Empty, Given, Dotted} \cup Nat]
              /\ AskedInv' /\ ExpandInv'
  <2>1. d \in HostCalls /\ d.at \in {"idle", "ask"} /\ (d.at = "ask" => d.to.asked = asked)
    BY <1>1, <1>12, HostCallTypes DEF HostCalls, NoCall
  <2>2. /\ call'[t] = d /\ found'[t] = Empty
        /\ \A w \in Threads \ {t} : call'[w] = call[w] /\ found'[w] = found[w]
    BY <1>12
  <2>3. AskedInv'
    <3>1. \A w \in Threads \ {t} : ~Idle(w)' => \A g \in call'[w].to.asked : Settled(g)'
      BY <1>6, <2>2, HostCallTypes DEF AskedInv, Idle
    <3>2. ~Idle(t)' => \A g \in call'[t].to.asked : Settled(g)'
      BY <1>7, <2>1, <2>2 DEF Idle
    <3>3. \A w \in Threads :
            /\ call'[w].at = "reverse" => m_name'[call'[w].of] # Empty
            /\ call'[w].at = "store" => (found'[w] = Empty <=> m_name'[call'[w].of] = Empty)
      BY <1>3, <2>1, <2>2 DEF AskedInv
    <3> QED
      BY <1>11, <3>1, <3>2, <3>3 DEF AskedInv
  <2>4. \A g \in Hosts : Expanding(g)' \subseteq Expanding(g) \ {t}
    BY <2>1, <2>2 DEF Expanding, Using, Idle
  <2>5. ExpandInv'
    BY <1>3, <1>4, <1>8, <2>4 DEF ExpandInv, Alone
  <2> QED
    BY <1>12, <2>1, <2>3, <2>5
<1>13. CASE /\ Ends(t)
            /\ \/ UNCHANGED verdicts
               \/ verdicts' = verdicts \cup
                    {[of |-> asked,
                      same |-> \A g, k \in asked : m_full_name'[g] = m_full_name'[k]]}
  <2>1. /\ call' \in [Threads -> HostCalls]
        /\ found' \in [Threads -> {Empty, Given, Dotted} \cup Nat]
        /\ AskedInv' /\ ExpandInv'
    BY <1>12, <1>13 DEF Ends
  <2>2. VerdictInv'
    BY <1>3, <1>7, <1>10, <1>13 DEF VerdictInv
  <2>3. verdicts' \subseteq [of : SUBSET Hosts, same : BOOLEAN]
    <3>1. verdicts \in SUBSET [of : SUBSET Hosts, same : BOOLEAN]
      BY DEF HostTypeOK
    <3>2. CASE UNCHANGED verdicts
      BY <3>1, <3>2
    <3>3. CASE verdicts' = verdicts \cup
                 {[of |-> asked,
                   same |-> \A g, k \in asked : m_full_name'[g] = m_full_name'[k]]}
      <4>1. PICK b \in BOOLEAN :
               b = \A g, k \in asked : m_full_name'[g] = m_full_name'[k]
        OBVIOUS
      <4>2. verdicts' = verdicts \cup {[of |-> asked, same |-> b]}
        BY <3>3, <4>1, Zenon
      <4> QED
        BY <3>1, <4>2
    <3> QED
      BY <1>13, <3>2, <3>3
  <2> QED
    BY <1>3, <2>1, <2>2, <2>3
<1>14. ASSUME NEW g \in call[t].to.rest,
              Begins(t, "ask", g, [asked |-> asked, rest |-> call[t].to.rest \ {g}]),
              found' = [found EXCEPT ![t] = Empty], UNCHANGED verdicts
       PROVE  HostInv'
  <2>1. /\ call' \in [Threads -> HostCalls]
        /\ found' \in [Threads -> {Empty, Given, Dotted} \cup Nat]
        /\ AskedInv' /\ ExpandInv'
    BY <1>12, <1>14 DEF Begins
  <2>2. VerdictInv'
    BY <1>3, <1>10, <1>14 DEF VerdictInv
  <2> QED
    BY <1>3, <1>14, <2>1, <2>2
<1> QED
  BY <1>2, <1>5, <1>13, <1>14 DEF Store, HasFullName

\* Every step of a host or of DNS keeps the invariant.
LEMMA HostNextInv == HostInv /\ HostNext => HostInv'
<1> SUFFICES ASSUME HostInv, HostNext PROVE HostInv'
  OBVIOUS
<1>1. ASSUME NEW t \in Threads, NEW h \in Hosts, NEW rest \in SUBSET Hosts,
             FullName(t, h, rest)
      PROVE  HostInv'
  BY <1>1, AskHostInv DEF FullName, hostVars, HostInv
<1> QED
  BY <1>1, DnsChangesInv, MadeHostInv, KnownInv, ExpansionInv, StoreInv DEF HostNext

-----------------------------------------------------------------------------
(* The current process *)

\* Once its name is set, with nobody about to make it again, nobody will be.
ProcessInv ==
    /\ call \in [Threads -> {NoCall} \cup [at : {"make", "set"}, of : {"process"},
                                           to : Labels \cup {Empty}]]
    /\ \A t \in Threads : call[t].at = "set" => s_instance
    /\ lastName # Empty => s_instance /\ Makers = {} /\ m_process_name = lastName

\* Every step of the current process keeps the invariant.
LEMMA SingletonNextInv == ProcessInv /\ SingletonNext => ProcessInv'
<1> SUFFICES ASSUME ProcessInv, SingletonNext PROVE ProcessInv'
  OBVIOUS
<1> USE DEF ProcessInv, Makers
<1>1. ASSUME NEW t \in Threads, NEW n \in Labels \cup {Empty}, Instance(t, n)
      PROVE  ProcessInv'
  BY <1>1 DEF Instance, Begins, Idle, singletonVars
<1>2. ASSUME NEW t \in Threads, Make(t) PROVE ProcessInv'
  BY <1>2 DEF Make, Ends, Continues, NoCall
<1>3. ASSUME NEW t \in Threads, SetName(t) PROVE ProcessInv'
  BY <1>3 DEF SetName, Ends, NoCall
<1> QED
  BY <1>1, <1>2, <1>3 DEF SingletonNext

-----------------------------------------------------------------------------
(* The application *)

\* What the calls of a behaviour are not about stays as it was at the start.
NamesInv ==
    /\ IF subject = "users"   THEN UserInv    ELSE UserInit
    /\ IF subject = "hosts"   THEN HostInv    ELSE HostInit
    /\ IF subject = "process" THEN ProcessInv ELSE SingletonInit

\* The invariant holds in every state of every application.
THEOREM NamesInvariance == Spec => []NamesInv
<1>1. Init => NamesInv
  BY UserInitInv, HostInitInv
     DEF Init, NamesInv, SingletonInit, CallersInit, ProcessInv, Makers, NoCall
<1>2. NamesInv /\ [Next]_vars => NamesInv'
  <2> SUFFICES ASSUME NamesInv, [Next]_vars PROVE NamesInv'
    OBVIOUS
  <2> USE DEF NamesInv, UserInit, HostInit, SingletonInit, userVars, hostVars, singletonVars
  <2>1. CASE subject = "users" /\ UserNext /\ UNCHANGED <<hostVars, singletonVars, subject>>
    BY <2>1, UserNextInv
  <2>2. CASE subject = "hosts" /\ HostNext /\ UNCHANGED <<userVars, singletonVars, subject>>
    BY <2>2, HostNextInv
  <2>3. CASE subject = "process" /\ SingletonNext /\ UNCHANGED <<userVars, hostVars, subject>>
    BY <2>3, SingletonNextInv
  <2>4. CASE UNCHANGED vars
    <3>1. UNCHANGED <<call, found, userVars, hostVars, singletonVars, subject>>
      BY <2>4 DEF vars
    <3>2. UserInv => UserInv'
      <4>1. UserTypeOK' <=> UserTypeOK
        BY <3>1 DEF UserTypeOK, Answers
      <4>2. SafeInv' <=> SafeInv
        BY <3>1 DEF SafeInv, Idle
      <4>3. FillInv' <=> FillInv
        BY <3>1 DEF FillInv, Answers, OneLookup, Using, Idle
      <4> QED
        BY <4>1, <4>2, <4>3 DEF UserInv
    <3>3. HostInv => HostInv'
      <4>1. HostTypeOK' <=> HostTypeOK
        BY <3>1 DEF HostTypeOK
      <4>2. AskedInv' <=> AskedInv
        BY <3>1 DEF AskedInv, Settled, Idle
      <4>3. ExpandInv' <=> ExpandInv
        BY <3>1 DEF ExpandInv, Expanding, Using, Idle
      <4>4. VerdictInv' <=> VerdictInv
        BY <3>1 DEF VerdictInv, Settled
      <4> QED
        BY <4>1, <4>2, <4>3, <4>4 DEF HostInv
    <3>4. ProcessInv => ProcessInv'
      BY <3>1 DEF ProcessInv, Makers
    <3> QED
      BY <3>1, <3>2, <3>3, <3>4
  <2> QED
    BY <2>1, <2>2, <2>3, <2>4 DEF Next
<1> QED
  BY <1>1, <1>2, PTL DEF Spec

\* A User that no two calls resolved at a time shows the fields of one lookup, and
\* "unknown" only where name_safe hid a failure.
THEOREM UsersShowOneLookup == Spec => []FieldsOfOneLookup
<1>1. NamesInv => FieldsOfOneLookup
  <2>1. UserInv => FieldsOfOneLookup
    BY DEF UserInv, SafeInv, FillInv, OneLookup, Answers, FieldsOfOneLookup
  <2>2. UserInit => FieldsOfOneLookup
    BY StringsAssumption DEF UserInit, Fields, FieldsOfOneLookup
  <2> QED
    BY <2>1, <2>2 DEF NamesInv
<1> QED
  BY <1>1, NamesInvariance, PTL

\* What equals says of hosts that no two calls expanded at a time it says for good.
THEOREM HostsEqualForGood == Spec => []EqualsForGood
<1>1. NamesInv => EqualsForGood
  <2>1. HostInv => EqualsForGood
    BY DEF HostInv, HostTypeOK, VerdictInv, EqualsForGood
  <2>2. HostInit => EqualsForGood
    BY DEF HostInit, EqualsForGood
  <2> QED
    BY <2>1, <2>2 DEF NamesInv
<1> QED
  BY <1>1, NamesInvariance, PTL

\* The name last set is that of the current process, unless a thread was then
\* about to make it once more.
THEOREM ProcessKeepsName == Spec => []NameKept
<1>1. NamesInv => NameKept
  BY DEF NamesInv, ProcessInv, SingletonInit, NameKept
<1> QED
  BY <1>1, NamesInvariance, PTL

=============================================================================
