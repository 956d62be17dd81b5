----------------------------- MODULE StringStore -----------------------------
(***************************************************************************)
(* What StringMemoryArea promises its writer and its readers: each handle  *)
(* has a string of its own.  An insert replaces the string of one handle.  *)
(* While it is under way, and for good if the writer dies in it, the       *)
(* handle has its former string, no characters at all, or the beginning of *)
(* the new string; never a mixture.  An insert may be refused only if the  *)
(* new string is longer than the former one.                               *)
(***************************************************************************)
EXTENDS Integers, Sequences

CONSTANTS
    Handles,    \* the holders of an offset into the area
    Strings,    \* the strings the writer inserts
    NoString    \* the string of a handle whose offset is 0

VARIABLES
    value,  \* value[h]: the string h has
    job,    \* the inserts under way, none or one
    answer  \* what the last insert answered

vars == <<value, job, answer>>

LengthOf(s) == IF s = NoString THEN 0 ELSE Len(s)

Init ==
    /\ value = [h \in Handles |-> NoString]
    /\ job = {}
    /\ answer = "none"

\* The writer starts to replace the string of h with s.
Insert(h, s) ==
    /\ job = {}
    /\ job' = {[handle |-> h, text |-> s, room |-> LengthOf(value[h])]}
    /\ answer' = "none"
    /\ UNCHANGED value

\* The former string goes at once.
Erase(j) ==
    /\ value[j.handle] # NoString
    /\ value' = [value EXCEPT ![j.handle] = <<>>]
    /\ UNCHANGED <<job, answer>>

\* One more character of the new string is there.
Advance(j) ==
    /\ value[j.handle] # NoString
    /\ \E n \in 0 .. Len(j.text) - 1 :
          /\ value[j.handle] = SubSeq(j.text, 1, n)
          /\ value' = [value EXCEPT ![j.handle] = SubSeq(j.text, 1, n + 1)]
    /\ UNCHANGED <<job, answer>>

Done(j) ==
    /\ value' = [value EXCEPT ![j.handle] = j.text]
    /\ job' = {}
    /\ answer' = "stored"

\* There is no room for a first or a longer string: the former string is lost.
Refuse(j) ==
    /\ value[j.handle] # NoString =>
          value[j.handle] = <<>> /\ Len(j.text) > j.room
    /\ job' = {}
    /\ answer' = "refused"
    /\ UNCHANGED value

\* The writer dies.
Crash == job # {} /\ job' = {} /\ UNCHANGED <<value, answer>>

Next ==
    \/ \E h \in Handles, s \in Strings : Insert(h, s)
    \/ \E j \in job : Erase(j) \/ Advance(j) \/ Done(j) \/ Refuse(j)
    \/ Crash

Spec == Init /\ [][Next]_vars
=============================================================================
