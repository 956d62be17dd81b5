---------------------------- MODULE StringCodec ----------------------------
(***************************************************************************)
(* How lists and maps of strings become one text and are read back: the    *)
(* vectors and maps of StringMemoryArea.cpp, and the lists of directories  *)
(* of Path.cpp.  A string is a sequence of characters.                     *)
(***************************************************************************)
EXTENDS Naturals, Sequences, SequencesExt

CONSTANTS
    STRING_SEPARATOR, MAP_ENTRY_SEPARATOR, PATH_SEPARATOR,
    Canonical(_)    \* the full name of the File that is made of a name

ASSUME SeparatorsAssumption == STRING_SEPARATOR # MAP_ENTRY_SEPARATOR

\* Strings one after the other, with a separator between them.
Join(strings, sep) ==
    LET upto[n \in 0 .. Len(strings)] ==
            IF n = 0 THEN <<>>
            ELSE upto[n - 1] \o (IF n = 1 THEN <<>> ELSE <<sep>>) \o strings[n]
    IN  upto[Len(strings)]

\* Where c comes first in text from s on, or the position after its end.
Find(text, c, s) ==
    CHOOSE e \in s .. Len(text) + 1 :
        /\ e <= Len(text) => text[e] = c
        /\ \A i \in s .. e - 1 : text[i] # c

\* Mutant of Pieces: what follows the last separator is not read.
PiecesWithoutLast(text, sep) ==
    LET from[s \in 1 .. Len(text) + 2] ==
            IF s > Len(text) THEN <<>>
            ELSE LET e == Find(text, sep, s) IN
                 (IF e \in {s, Len(text) + 1} THEN <<>> ELSE <<SubSeq(text, s, e - 1)>>)
                 \o from[e + 1]
    IN  from[1]

\* The pieces of a text between separators, without the empty ones.
Pieces(text, sep) ==
    LET from[s \in 1 .. Len(text) + 2] ==
            IF s > Len(text) THEN <<>>
            ELSE LET e == Find(text, sep, s) IN
                 (IF e = s THEN <<>> ELSE <<SubSeq(text, s, e - 1)>>) \o from[e + 1]
    IN  from[1]

insert_vector(vect) == Join(vect, STRING_SEPARATOR)
get_vector(text)    == Pieces(text, STRING_SEPARATOR)

write_to(directories)      == Join(directories, PATH_SEPARATOR)

\* A File is made of each name: it has the working directory or a home before it,
\* if it does not begin at the root, and its links resolved.
FilesOf(names) == [i \in DOMAIN names |-> Canonical(names[i])]

parse_path_list(path_list) == FilesOf(Pieces(path_list, PATH_SEPARATOR))

Pair(key, value) == key \o <<STRING_SEPARATOR>> \o value

\* The keys are all different: their order does not matter to what is read.
insert_map(map) ==
    LET keys == SetToSeq(DOMAIN map) IN
    Join([i \in 1 .. Len(keys) |-> Pair(keys[i], map[keys[i]])], MAP_ENTRY_SEPARATOR)

\* What map[key] = value makes of a map.
With(map, key, value) ==
    [k \in DOMAIN map \cup {key} |-> IF k = key THEN value ELSE map[k]]

\* Mutant of WithEntry: a key without a value is dropped.
WithValuedEntry(map, entry) ==
    LET p == Find(entry, STRING_SEPARATOR, 1) IN
    IF p >= Len(entry) THEN map
    ELSE With(map, SubSeq(entry, 1, p - 1), SubSeq(entry, p + 1, Len(entry)))

\* An entry goes up to its first separator; one without separator is dropped.
WithEntry(map, entry) ==
    LET p == Find(entry, STRING_SEPARATOR, 1) IN
    IF p > Len(entry) THEN map
    ELSE With(map, SubSeq(entry, 1, p - 1), SubSeq(entry, p + 1, Len(entry)))

get_map(text) ==
    LET entries == Pieces(text, MAP_ENTRY_SEPARATOR)
        upto[n \in 0 .. Len(entries)] ==
            IF n = 0 THEN <<>> ELSE WithEntry(upto[n - 1], entries[n])
    IN  upto[Len(entries)]

-----------------------------------------------------------------------------
(* Properties *)

Has(s, c) == \E i \in 1 .. Len(s) : s[i] = c

\* The strings that are not empty, in their order.
NonEmpty(strings) ==
    LET from[n \in 1 .. Len(strings) + 1] ==
            IF n > Len(strings) THEN <<>>
            ELSE (IF strings[n] = <<>> THEN <<>> ELSE <<strings[n]>>) \o from[n + 1]
    IN  from[1]

\* A vector is read back as it was written, without its empty strings, if no
\* string holds the separator; a list of names is read back as the directories
\* they name, so that the full names of directories are read back as they were
\* (StringMemoryArea::insert and get_vector, Path::write_to and
\* parse_path_list).
VectorReadsBack(vect) ==
    /\ (\A i \in 1 .. Len(vect) : ~ Has(vect[i], STRING_SEPARATOR))
       => get_vector(insert_vector(vect)) = NonEmpty(vect)
    /\ (\A i \in 1 .. Len(vect) : ~ Has(vect[i], PATH_SEPARATOR))
       => parse_path_list(write_to(vect)) = FilesOf(NonEmpty(vect))

\* A map is read back exactly, empty keys and values too, if no key holds a
\* separator and no value the one between entries: a value may hold the one
\* after the key (StringMemoryArea::insert and get_map).
MapReadsBack(map) ==
    (\A key \in DOMAIN map : /\ ~ Has(key, STRING_SEPARATOR)
                             /\ ~ Has(key, MAP_ENTRY_SEPARATOR)
                             /\ ~ Has(map[key], MAP_ENTRY_SEPARATOR))
    => get_map(insert_map(map)) = map
=============================================================================
