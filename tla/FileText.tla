----------------------------- MODULE FileText -----------------------------
(***************************************************************************)
(* The names and sizes of files as File.cpp takes them apart: parent,      *)
(* short name, depth and protocol of a path or an url, and the amounts of  *)
(* pretty_size.  A name is a sequence of characters.                       *)
(***************************************************************************)
EXTENDS Integers, Sequences, FiniteSets, SequencesExt

CONSTANTS
    FILE_PROTOCOL,
    KILOBYTE,       \* 1024
    INT_MAX         \* of an int

ASSUME ProtocolAssumption ==
    /\ FILE_PROTOCOL \in Seq(STRING) \ {<<>>}
    /\ \A i \in 1 .. Len(FILE_PROTOCOL) : FILE_PROTOCOL[i] \notin {":", "/"}
ASSUME KilobyteAssumption == KILOBYTE \in Nat /\ KILOBYTE > 1
ASSUME IntAssumption == INT_MAX \in Nat /\ KILOBYTE * (KILOBYTE * KILOBYTE) <= INT_MAX

\* The position of the first and of the last c in t, 0 if there is none.
FindFirst(t, c) == SelectInSeq(t, LAMBDA x : x = c)
FindLast(t, c)  == SelectLastInSeq(t, LAMBDA x : x = c)

After(t, i) == SubSeq(t, i + 1, Len(t))

protocol(url) ==
    LET colon == FindFirst(url, ":") IN
    IF colon = 0 THEN <<>> ELSE SubSeq(url, 1, colon - 1)

uri(url)        == After(url, FindFirst(url, ":"))
short_name(url) == After(url, FindLast(url, "/"))

\* Mutant of parent_name: what lies in the root has no parent name.
ParentOfRootless(path) == SubSeq(path, 1, FindLast(path, "/") - 1)

parent_name(path) ==
    LET slash == FindLast(path, "/") IN
    IF slash \in {0, 1} THEN <<"/">> ELSE SubSeq(path, 1, slash - 1)

\* Every slash but the first counts.
Slashes(path) == Cardinality({i \in 2 .. Len(path) : path[i] = "/"})

\* The depth of a path is that of what follows its protocol.
depth(path) ==
    LET from[n \in 0 .. Len(path)] ==
            LET rest == After(path, n) IN
            IF rest # <<>> /\ rest[1] = "/" THEN Slashes(rest)
            ELSE IF protocol(rest) = FILE_PROTOCOL THEN from[n + FindFirst(rest, ":")]
            ELSE -1
    IN  from[0]

\* The url that operator<< writes.
url_of(path) == FILE_PROTOCOL \o <<":", "/">> \o path

unit[u \in 0 .. 3] == IF u = 0 THEN 1 ELSE KILOBYTE * unit[u - 1]

\* What an int holds of a number.
AsInt(n) == ((n + INT_MAX + 1) % (2 * (INT_MAX + 1))) - (INT_MAX + 1)

\* Mutant of pretty_size: the rest is what the next larger unit left.
PrettySizeAgain(size, cut_small) ==
    [i \in 0 .. 3 |-> IF size > unit[i] THEN size \div unit[i] ELSE 0]

\* The amount printed for each unit: B, KB, MB, GB, the largest first; 0 is
\* printed as nothing.
pretty_size(size, cut_small) ==
    LET \* what is left of size for unit i, and what has been written before it
        left[i \in 0 .. 4] ==
            IF i = 4 THEN [rest |-> size, written |-> FALSE]
            ELSE LET l == left[i + 1] IN
                 IF l.rest > unit[i] /\ ~ (cut_small /\ l.written)
                 THEN [rest |-> l.rest % unit[i], written |-> TRUE]
                 ELSE l
    IN  [i \in 0 .. 3 |-> IF left[i] = left[i + 1] THEN 0
                          ELSE AsInt(left[i + 1].rest \div unit[i])]

-----------------------------------------------------------------------------
(* Properties *)

Total(amounts) == amounts[0] + amounts[1] * unit[1] + amounts[2] * unit[2]
                             + amounts[3] * unit[3]

\* A path is its parent, which is a path too, a slash and its short name; in a
\* directory it is one deeper than the directory, in the root its depth is 0;
\* and its url, which operator<< writes with a slash more, counts one deeper
\* (File::parent_name, File::short_name, File::depth).
NameComposes(path) ==
    LET father == parent_name(path) IN
    path # <<"/">> =>
        /\ FindFirst(father, "/") = 1
        /\ path = (IF father = <<"/">> THEN father ELSE father \o <<"/">>)
                  \o short_name(path)
        /\ depth(path) = IF father = <<"/">> THEN 0 ELSE depth(father) + 1
        /\ depth(url_of(path)) = depth(path) + 1

\* While the number of gigabytes fits an int, the amounts printed add up to the
\* size, but for the last byte of a size that is one more than whole kilobytes, which
\* is not printed; cut short, one amount is printed and less than its unit left out
\* (File::pretty_size).
SizeAddsUp(size) ==
    size \div unit[3] <= INT_MAX =>
        /\ Total(pretty_size(size, FALSE)) = IF size % KILOBYTE = 1 THEN size - 1 ELSE size
        /\ \A i \in 0 .. 3 :
            pretty_size(size, TRUE)[i] # 0 =>
                size - Total(pretty_size(size, TRUE)) \in 0 .. unit[i] - 1
=============================================================================
