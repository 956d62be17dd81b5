-------------------------- MODULE StringMemoryArea --------------------------
(***************************************************************************)
(* A memory area that holds strings of any length (StringMemoryArea.cpp),  *)
(* meant to lie in a mapped file: one process writes, another one reads    *)
(* it, and the area outlives both.                                         *)
(*                                                                         *)
(* A string lies at an offset and ends with a NUL.  The offsets are kept   *)
(* by handles: variables of the application, in the area's file.  A        *)
(* handle whose offset is 0 has no string yet.  The writer works character *)
(* by character, so that a reader sees, and a crash leaves behind, what    *)
(* clear and strcpy have done so far.  There is no lock in the code: the   *)
(* model has one writer, as the application must see to.                   *)
(***************************************************************************)
EXTENDS Integers, Sequences

CONSTANTS
    Size,       \* string_area_size(): the last offset of the area
    Chars,      \* the characters of strings
    Nul,        \* the character that ends a string
    Handles,    \* the holders of an offset
    Strings,    \* the strings the writer inserts
    NoString    \* what a reader gets of a handle with offset 0

ASSUME SizeAssumption     == Size \in Nat
ASSUME NulAssumption      == Nul \notin Chars
ASSUME StringsAssumption  == Strings \subseteq Seq(Chars)
ASSUME NoStringAssumption == NoString \notin Seq(Chars)

Offsets == 0 .. Size

VARIABLES
    \* the file
    data,       \* data[i]: the character at i
    last,       \* last_string(): where the last string ends
    offset,     \* offset[h]: where the string of h starts, or 0
    \* the writer
    pc,         \* where it is in insert
    handle,     \* the handle it inserts for
    text,       \* the string it inserts
    at,         \* where it puts the string
    count,      \* how many characters it has cleared or copied so far
    outcome,    \* what the last insert answered
    room,       \* history: how long the string of the handle was at first
    \* the reader
    reading,    \* is it copying a string out of the area?
    source,     \* the handle it reads
    start,      \* the offset it took from the handle
    copy,       \* the characters it has copied so far
    disturbed   \* history: has there been an insert for source meanwhile?

fileVars   == <<data, last, offset>>
writerVars == <<pc, handle, text, at, count, outcome, room>>
readerVars == <<reading, source, start, copy, disturbed>>
vars       == <<fileVars, writerVars, readerVars>>

TypeOK ==
    /\ data      \in [Offsets -> Chars \cup {Nul}]
    /\ last      \in Offsets
    /\ offset    \in [Handles -> Offsets]
    /\ pc        \in {"idle", "clear", "add", "overwrite", "append", "last",
                      "publish"}
    /\ handle    \in Handles
    /\ text      \in Strings
    /\ at        \in Offsets
    /\ count     \in Offsets
    /\ outcome   \in {"none", "stored", "refused"}
    /\ room      \in Offsets
    /\ reading   \in BOOLEAN
    /\ source    \in Handles
    /\ start     \in Offsets
    /\ copy      \in Seq(Chars)
    /\ disturbed \in BOOLEAN

\* A new file, filled with zeros (MapFile::zero).
Init ==
    /\ data      = [i \in Offsets |-> Nul]
    /\ last      = 0
    /\ offset    = [h \in Handles |-> 0]
    /\ pc        = "idle"
    /\ handle    \in Handles
    /\ text      \in Strings
    /\ at        = 0
    /\ count     = 0
    /\ outcome   = "none"
    /\ room      = 0
    /\ reading   = FALSE
    /\ source    \in Handles
    /\ start     = 0
    /\ copy      = <<>>
    /\ disturbed = FALSE

-----------------------------------------------------------------------------
(* What lies in the area. *)

\* The first NUL from o on, in an area with contents d.
IsEnd(d, o, i) == d[i] = Nul /\ \A j \in o .. i - 1 : d[j] # Nul
EndOf(d, o) == CHOOSE i \in o .. Size : IsEnd(d, o, i)

\* get_string(o), as a sequence of characters.
StringAt(d, o) ==
    IF o = 0 THEN NoString
    ELSE [k \in 1 .. EndOf(d, o) - o |-> d[o + k - 1]]

-----------------------------------------------------------------------------
(* The writer. *)

\* insert(&offset, s): it adds a first string, and clears a former one.
Insert(h, s) ==
    /\ pc = "idle"
    /\ handle' = h
    /\ text' = s
    /\ count' = 0
    /\ outcome' = "none"
    /\ at' = offset[h]
    /\ room' = IF offset[h] = 0 THEN 0 ELSE EndOf(data, offset[h]) - offset[h]
    /\ pc' = IF offset[h] = 0 THEN "add" ELSE "clear"
    /\ disturbed' = (disturbed \/ h = source)
    /\ UNCHANGED <<fileVars, reading, source, start, copy>>

\* Mutant of ClearCharacter: the former string is measured, not cleared.
MeasureCharacter ==
    /\ pc = "clear"
    /\ data[at + count] # Nul
    /\ count' = count + 1
    /\ UNCHANGED <<fileVars, pc, handle, text, at, outcome, room,
                   readerVars>>

\* clear, one character.
ClearCharacter ==
    /\ pc = "clear"
    /\ data[at + count] # Nul
    /\ data' = [data EXCEPT ![at + count] = Nul]
    /\ count' = count + 1
    /\ UNCHANGED <<last, offset, pc, handle, text, at, outcome, room,
                   readerVars>>

\* Mutant of Cleared: one character too many is taken to fit.
ClearedAndNul ==
    /\ pc = "clear"
    /\ data[at + count] = Nul
    /\ pc' = IF Len(text) <= count + 1 THEN "overwrite" ELSE "add"
    /\ count' = 0
    /\ UNCHANGED <<fileVars, handle, text, at, outcome, room,
                   readerVars>>

\* clear returns: the new string replaces the former one if it is not longer.
Cleared ==
    /\ pc = "clear"
    /\ data[at + count] = Nul
    /\ pc' = IF Len(text) <= count THEN "overwrite" ELSE "add"
    /\ count' = 0
    /\ UNCHANGED <<fileVars, handle, text, at, outcome, room,
                   readerVars>>

\* Mutants of Add: one forgets the NUL of the last string, the other checks the
\* range one short.
AddAtLast ==
    /\ pc = "add"
    /\ last + Len(text) \in 1 .. Size
    /\ at' = last
    /\ pc' = "append"
    /\ UNCHANGED <<fileVars, handle, text, count, outcome, room,
                   readerVars>>
AddBeyond ==
    /\ pc = "add"
    /\ last + Len(text) \in 1 .. Size
    /\ at' = last + 1
    /\ pc' = "append"
    /\ UNCHANGED <<fileVars, handle, text, count, outcome, room,
                   readerVars>>

\* add passes its range check.
Add ==
    /\ pc = "add"
    /\ last + 1 + Len(text) \in 1 .. Size
    /\ at' = last + 1
    /\ pc' = "append"
    /\ UNCHANGED <<fileVars, handle, text, count, outcome, room,
                   readerVars>>

\* add fails its range check: insert throws, and its handle keeps its offset.
AddRefused ==
    /\ pc = "add"
    /\ last + 1 + Len(text) \notin 1 .. Size
    /\ pc' = "idle"
    /\ outcome' = "refused"
    /\ UNCHANGED <<fileVars, handle, text, at, count, room,
                   readerVars>>

\* strcpy, one character.
CopyCharacter ==
    /\ pc \in {"overwrite", "append"}
    /\ count < Len(text)
    /\ data' = [data EXCEPT ![at + count] = text[count + 1]]
    /\ count' = count + 1
    /\ UNCHANGED <<last, offset, pc, handle, text, at, outcome, room,
                   readerVars>>

\* Mutant of CopyNul: the NUL is not copied.
CopyNoNul ==
    /\ pc \in {"overwrite", "append"}
    /\ count = Len(text)
    /\ pc' = IF pc = "append" THEN "last" ELSE "publish"
    /\ UNCHANGED <<fileVars, handle, text, at, count, outcome, room,
                   readerVars>>

\* The last character strcpy copies is the NUL.
CopyNul ==
    /\ pc \in {"overwrite", "append"}
    /\ count = Len(text)
    /\ data' = [data EXCEPT ![at + count] = Nul]
    /\ pc' = IF pc = "append" THEN "last" ELSE "publish"
    /\ UNCHANGED <<last, offset, handle, text, at, count, outcome, room,
                   readerVars>>

\* last_string(end)
SetLast ==
    /\ pc = "last"
    /\ last' = at + Len(text)
    /\ pc' = "publish"
    /\ UNCHANGED <<data, offset, handle, text, at, count, outcome, room,
                   readerVars>>

\* *offset = n_offset
Publish ==
    /\ pc = "publish"
    /\ offset' = [offset EXCEPT ![handle] = at]
    /\ pc' = "idle"
    /\ outcome' = "stored"
    /\ UNCHANGED <<data, last, handle, text, at, count, room,
                   readerVars>>

\* The writer dies in insert, and starts again: the file is as it left it.
Crash ==
    /\ pc # "idle"
    /\ pc' = "idle"
    /\ UNCHANGED <<fileVars, handle, text, at, count, outcome, room,
                   readerVars>>

-----------------------------------------------------------------------------
(* The reader. *)

\* get_string(offset[h]) gives a pointer, from which the reader copies.
Read(h) ==
    /\ ~reading
    /\ offset[h] # 0
    /\ reading' = TRUE
    /\ source' = h
    /\ start' = offset[h]
    /\ copy' = <<>>
    /\ disturbed' = (pc # "idle" /\ handle = h)
    /\ UNCHANGED <<fileVars, writerVars>>

ReadCharacter ==
    /\ reading
    /\ data[start + Len(copy)] # Nul
    /\ copy' = Append(copy, data[start + Len(copy)])
    /\ UNCHANGED <<fileVars, writerVars, reading, source, start, disturbed>>

ReadNul ==
    /\ reading
    /\ data[start + Len(copy)] = Nul
    /\ reading' = FALSE
    /\ UNCHANGED <<fileVars, writerVars, source, start, copy, disturbed>>

-----------------------------------------------------------------------------
Writer ==
    \/ \E h \in Handles, s \in Strings : Insert(h, s)
    \/ ClearCharacter \/ Cleared
    \/ Add \/ AddRefused
    \/ CopyCharacter \/ CopyNul
    \/ SetLast \/ Publish

Reader == (\E h \in Handles : Read(h)) \/ ReadCharacter \/ ReadNul

Next == Writer \/ Crash \/ Reader

Spec == Init /\ [][Next]_vars

-----------------------------------------------------------------------------
(* Safety. *)

\* The strings of two handles neither coincide nor overlap: there is a NUL
\* between their starts, whatever was inserted, refused or interrupted before.
StringsApart ==
    \A g, h \in Handles :
        g # h /\ 0 < offset[g] /\ offset[g] <= offset[h] =>
            \E i \in offset[g] .. offset[h] - 1 : data[i] = Nul

\* A handle's string ends inside the area, and so does what a reader follows,
\* even while the string changes under it.
StringsEnd ==
    /\ \A h \in Handles : offset[h] # 0 =>
          offset[h] <= last /\ \E i \in offset[h] .. last : data[i] = Nul
    /\ reading =>
          \E i \in start + Len(copy) .. last : data[i] = Nul

\* A reader copies the string of its handle exactly, as long as nothing is
\* inserted for that handle; inserts and crashes of other handles do not matter.
ReadsUndisturbed ==
    reading /\ ~disturbed =>
        /\ start = offset[source]
        /\ Len(copy) <= Len(StringAt(data, start))
        /\ copy = SubSeq(StringAt(data, start), 1, Len(copy))

-----------------------------------------------------------------------------
(* The area implements StringStore. *)

Store == INSTANCE StringStore WITH
    value <- [h \in Handles |-> StringAt(data, offset[h])],
    job   <- IF pc = "idle" THEN {}
             ELSE {[handle |-> handle, text |-> text, room |-> room]},
    answer <- outcome

\* Each handle reads as its former string, nothing, or the beginning of the new
\* one, at every step of an insert and after a crash in it.
StoresStrings == Store!Spec
=============================================================================
