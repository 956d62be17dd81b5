----------------------- MODULE StringMemoryAreaProofs -----------------------
(***************************************************************************)
(* The strings of StringMemoryArea stay apart and inside the area, readers *)
(* get them whole, and the area implements StringStore, for every size,    *)
(* every set of handles and every set of strings.                          *)
(*                                                                         *)
(* The invariant says of each point of insert which cells the writer may   *)
(* still write: up to a NUL that comes before the next string, or beyond   *)
(* the last string.                                                        *)
(***************************************************************************)
EXTENDS StringMemoryArea, WellFoundedInduction, TLAPS

(* The cells from at to at + n can be written: another NUL follows before *)
(* the next string, and before the end of the last one.                   *)
Reserved(n) ==
    /\ \E i \in at + n .. last : data[i] = Nul
    /\ \A g \in Handles : offset[g] > at =>
          \E i \in at + n .. offset[g] - 1 : data[i] = Nul

(* The string at at is new: it is not published, and lies after the others *)
(* or where the string of handle was.                                      *)
Separate ==
    /\ at > 0
    /\ \E i \in at .. last : data[i] = Nul
    /\ \A g \in Handles : g # handle /\ offset[g] # 0 =>
          /\ offset[g] <= at => \E i \in offset[g] .. at - 1 : data[i] = Nul
          /\ at <= offset[g] => \E i \in at .. offset[g] - 1 : data[i] = Nul

InPlace == at > 0 /\ offset[handle] = at

Beyond == at = last + 1 /\ at + Len(text) <= Size

(* Where the writer is. *)
WriterInv ==
    /\ pc = "clear"     => InPlace /\ Reserved(count)
    /\ pc = "add"       => count = 0
    /\ pc = "overwrite" => InPlace /\ Reserved(Len(text)) /\ count <= Len(text)
    /\ pc = "append"    => Beyond /\ count <= Len(text)
    /\ pc = "last"      => Beyond /\ data[at + Len(text)] = Nul
    /\ pc = "publish"   => Separate

(* What an undisturbed reader has copied is still there. *)
ReaderInv ==
    reading /\ ~disturbed =>
        /\ start # 0
        /\ start = offset[source]
        /\ pc # "idle" => handle # source
        /\ \A k \in 1 .. Len(copy) : data[start + k - 1] = copy[k]

AreaInv == TypeOK /\ StringsApart /\ StringsEnd /\ WriterInv /\ ReaderInv

-----------------------------------------------------------------------------
(* A set of numbers that is not empty has a least one. *)

\* The least element, from a well-founded order that contains <.
LEMMA LeastUnder ==
  ASSUME NEW R, NEW T \in SUBSET Nat, T # {}, IsWellFoundedOn(R, Nat),
         \A x, y \in Nat : y < x => <<y, x>> \in R
  PROVE  \E x \in T : \A y \in T : x <= y
<1>1. PICK x \in T : \A y \in T : ~ (<<y, x>> \in R)
  BY WFMin
<1>2. \A y \in T : ~ (y < x)
  BY <1>1
<1> QED BY <1>2

\* The least element.
LEMMA LeastElement ==
  ASSUME NEW T \in SUBSET Nat, T # {}
  PROVE  \E x \in T : \A y \in T : x <= y
<1> DEFINE R == OpToRel(<, Nat)
<1>1. IsWellFoundedOn(R, Nat)
  BY NatLessThanWellFounded
<1>2. \A x, y \in Nat : y < x => <<y, x>> \in R
  BY DEF OpToRel
<1> HIDE DEF R
<1> QED BY <1>1, <1>2, LeastUnder

\* A string has only one end.
LEMMA EndIs ==
  ASSUME NEW d, NEW o \in Offsets, NEW i \in o .. Size, IsEnd(d, o, i)
  PROVE  EndOf(d, o) = i
<1>1. \A j \in o .. Size : IsEnd(d, o, j) => j = i
  BY SizeAssumption DEF Offsets, IsEnd
<1>2. EndOf(d, o) \in o .. Size /\ IsEnd(d, o, EndOf(d, o))
  BY DEF EndOf
<1> QED BY <1>1, <1>2

\* If there is a NUL from o on, EndOf finds the first one.
LEMMA EndExists ==
  ASSUME NEW d, NEW o \in Offsets, \E i \in o .. Size : d[i] = Nul
  PROVE  EndOf(d, o) \in o .. Size /\ IsEnd(d, o, EndOf(d, o))
<1> DEFINE T == {i \in o .. Size : d[i] = Nul}
<1>1. T \in SUBSET Nat /\ T # {}
  BY SizeAssumption DEF Offsets
<1>2. PICK x \in T : \A y \in T : x <= y
  <2> HIDE DEF T
  <2> QED BY <1>1, LeastElement
<1>3. x \in o .. Size /\ IsEnd(d, o, x)
  <2>1. \A j \in o .. x - 1 : j \in o .. Size
    BY SizeAssumption DEF Offsets
  <2> QED BY <1>2, <2>1, SizeAssumption DEF IsEnd, Offsets
<1> QED BY <1>3, EndIs

-----------------------------------------------------------------------------
\* A new file is in the invariant.
LEMMA InitAreaInv == Init => AreaInv
  BY SizeAssumption
  DEF Init, AreaInv, TypeOK, StringsApart, StringsEnd, WriterInv, ReaderInv, Offsets

\* The characters of the text are not NUL.
LEMMA TextChars ==
  ASSUME TypeOK
  PROVE  /\ text \in Seq(Chars)
         /\ Len(text) \in Nat
         /\ \A k \in 1 .. Len(text) : text[k] \in Chars
  BY StringsAssumption DEF TypeOK

\* Every step keeps the types.
LEMMA TypeStep == AreaInv /\ [Next]_vars => TypeOK'
<1> SUFFICES ASSUME AreaInv, [Next]_vars PROVE TypeOK'
  OBVIOUS
<1> USE SizeAssumption DEF AreaInv, TypeOK, Offsets
<1>1. ASSUME NEW h \in Handles, NEW s \in Strings, Insert(h, s) PROVE TypeOK'
  <2>1. offset[h] # 0 => EndOf(data, offset[h]) \in offset[h] .. Size
    <3>1. offset[h] # 0 => \E i \in offset[h] .. Size : data[i] = Nul
      BY DEF StringsEnd
    <3> QED BY <3>1, EndExists
  <2>2. room' \in Offsets
    BY <1>1, <2>1 DEF Insert
  <2> QED BY <1>1, <2>2 DEF Insert, fileVars
<1>2. CASE ClearCharacter
  <2>1. count + 1 \in Offsets
    BY <1>2 DEF ClearCharacter, WriterInv, Reserved, InPlace
  <2> QED BY <1>2, <2>1 DEF ClearCharacter, readerVars
<1>3. CASE Cleared
  BY <1>3 DEF Cleared, fileVars, readerVars
<1>4. CASE Add
  <2>1. last + 1 \in Offsets
    BY <1>4, TextChars DEF Add
  <2> QED BY <1>4, <2>1 DEF Add, fileVars, readerVars
<1>5. CASE AddRefused
  BY <1>5 DEF AddRefused, fileVars, readerVars
<1>6. CASE CopyCharacter
  <2>1. count + 1 \in Offsets
    BY <1>6, TextChars DEF CopyCharacter, WriterInv, Reserved, InPlace, Beyond
  <2>2. text[count + 1] \in Chars
    BY <1>6, TextChars DEF CopyCharacter
  <2> QED BY <1>6, <2>1, <2>2 DEF CopyCharacter, readerVars
<1>7. CASE CopyNul
  BY <1>7 DEF CopyNul, readerVars
<1>8. CASE SetLast
  <2>1. at + Len(text) \in Offsets
    BY <1>8, TextChars DEF SetLast, WriterInv, Beyond
  <2> QED BY <1>8, <2>1 DEF SetLast, readerVars
<1>9. CASE Publish
  BY <1>9 DEF Publish, readerVars
<1>10. CASE Crash
  BY <1>10 DEF Crash, fileVars, readerVars
<1>11. ASSUME NEW h \in Handles, Read(h) PROVE TypeOK'
  BY <1>11 DEF Read, fileVars, writerVars
<1>12. CASE ReadCharacter
  <2>1. data[start + Len(copy)] \in Chars
    BY <1>12 DEF ReadCharacter, StringsEnd
  <2> QED BY <1>12, <2>1 DEF ReadCharacter, fileVars, writerVars
<1>13. CASE ReadNul
  BY <1>13 DEF ReadNul, fileVars, writerVars
<1>14. CASE UNCHANGED vars
  BY <1>14 DEF vars, fileVars, writerVars, readerVars
<1> QED
  BY <1>1, <1>2, <1>3, <1>4, <1>5, <1>6, <1>7, <1>8, <1>9, <1>10, <1>11, <1>12,
     <1>13, <1>14 DEF Next, Writer, Reader

-----------------------------------------------------------------------------
(* Which cells a step writes. *)

\* A cell changes only if it is the next to clear, one of the string that is
\* overwritten, or beyond the last string.
LEMMA Writes ==
  ASSUME AreaInv, [Next]_vars, NEW i \in Offsets
  PROVE  \/ data'[i] = data[i]
         \/ pc = "clear" /\ i = at + count /\ data[i] # Nul /\ data'[i] = Nul
         \/ /\ pc = "overwrite" /\ i \in at .. at + Len(text)
            /\ i = at + Len(text) => data'[i] = Nul
         \/ pc = "append" /\ i > last
<1> USE SizeAssumption DEF AreaInv, TypeOK, Offsets
<1>1. CASE ClearCharacter
  BY <1>1 DEF ClearCharacter
<1>2. CASE CopyCharacter
  BY <1>2, TextChars DEF CopyCharacter, WriterInv, Beyond
<1>3. CASE CopyNul
  BY <1>3, TextChars DEF CopyNul, WriterInv, Beyond
<1>4. CASE UNCHANGED data
  BY <1>4
<1>5. CASE UNCHANGED vars
  BY <1>5 DEF vars, fileVars
<1> QED
  BY <1>1, <1>2, <1>3, <1>4, <1>5 DEF Next, Writer, Reader, Insert, Cleared, Add,
     AddRefused, SetLast, Publish, Crash, Read, ReadCharacter, ReadNul, fileVars

\* A NUL stays where it is, but in the string that is overwritten and beyond the
\* last string.
LEMMA NulKept ==
  ASSUME AreaInv, [Next]_vars, NEW i \in Offsets, data[i] = Nul
  PROVE  \/ data'[i] = Nul
         \/ pc = "overwrite" /\ i \in at .. at + Len(text) - 1
         \/ i > last
<1>1. \/ data'[i] = data[i]
      \/ pc = "overwrite" /\ i \in at .. at + Len(text) /\ (i = at + Len(text) => data'[i] = Nul)
      \/ pc = "append" /\ i > last
  BY Writes
<1>2. at \in Nat /\ Len(text) \in Nat /\ i \in Nat
  BY TextChars, SizeAssumption DEF AreaInv, TypeOK, Offsets
<1> QED BY <1>1, <1>2

\* The last string ends where it did, or further on.
LEMMA LastGrows == AreaInv /\ [Next]_vars => last <= last'
<1> SUFFICES ASSUME AreaInv, [Next]_vars PROVE last <= last'
  OBVIOUS
<1> USE DEF AreaInv, TypeOK, Offsets
<1>1. CASE SetLast
  BY <1>1, TextChars DEF SetLast, WriterInv, Beyond
<1>2. CASE UNCHANGED last
  BY <1>2
<1> QED
  BY <1>1, <1>2 DEF Next, Writer, Reader, Insert, ClearCharacter, Cleared, Add,
     AddRefused, CopyCharacter, CopyNul, Publish, Crash, Read, ReadCharacter,
     ReadNul, vars, fileVars

\* Where there is a NUL before a place outside the string that is overwritten,
\* there still is one after a step.
LEMMA NulBefore ==
  ASSUME AreaInv, [Next]_vars, NEW lo \in Nat, NEW hi \in Offsets, hi <= last + 1,
         \E i \in lo .. hi - 1 : data[i] = Nul,
         pc = "overwrite" /\ hi > at => \E i \in at + Len(text) .. hi - 1 : data[i] = Nul
  PROVE  \E i \in lo .. hi - 1 : data'[i] = Nul
<1> USE SizeAssumption, TextChars DEF AreaInv, TypeOK, Offsets
<1>1. PICK i \in lo .. hi - 1 : data[i] = Nul
  OBVIOUS
<1>2. i \in Offsets /\ i <= last
  OBVIOUS
<1>3. CASE data'[i] = Nul
  BY <1>3
<1>4. CASE pc = "overwrite" /\ i \in at .. at + Len(text) - 1
  <2>1. PICK j \in at + Len(text) .. hi - 1 : data[j] = Nul
    BY <1>2, <1>4
  <2>2. j \in lo .. hi - 1 /\ j \in Offsets /\ j <= last /\ j >= at + Len(text)
    BY <1>2, <1>4, <2>1
  <2>3. data'[j] = Nul
    BY <2>1, <2>2, NulKept
  <2> QED BY <2>2, <2>3
<1> QED BY <1>1, <1>2, <1>3, <1>4, NulKept

-----------------------------------------------------------------------------
\* Every step but the end of an insert leaves the offsets alone.
LEMMA OffsetsKept == [Next]_vars => Publish \/ UNCHANGED offset
  BY DEF Next, Writer, Reader, Insert, ClearCharacter, Cleared, Add, AddRefused,
     CopyCharacter, CopyNul, SetLast, Crash, Read, ReadCharacter, ReadNul, vars,
     fileVars

\* Every step keeps the strings apart.
LEMMA ApartStep == AreaInv /\ [Next]_vars => StringsApart'
<1> SUFFICES ASSUME AreaInv, [Next]_vars,
                    NEW g \in Handles, NEW h \in Handles,
                    g # h, 0 < offset'[g], offset'[g] <= offset'[h]
             PROVE  \E i \in offset'[g] .. offset'[h] - 1 : data'[i] = Nul
  BY DEF StringsApart
<1> USE SizeAssumption DEF AreaInv, TypeOK, Offsets
<1>1. CASE Publish
  <2>1. Separate /\ data' = data /\ offset' = [offset EXCEPT ![handle] = at]
    BY <1>1 DEF Publish, WriterInv
  <2>2. CASE g = handle
    BY <2>1, <2>2 DEF Separate
  <2>3. CASE h = handle
    BY <2>1, <2>3 DEF Separate
  <2>4. CASE g # handle /\ h # handle
    BY <2>1, <2>4 DEF StringsApart
  <2> QED BY <2>2, <2>3, <2>4
<1>2. CASE UNCHANGED offset
  <2>1. \E i \in offset[g] .. offset[h] - 1 : data[i] = Nul
    BY <1>2 DEF StringsApart
  <2>2. offset[g] \in Nat /\ offset[h] \in Offsets /\ offset[h] <= last + 1
    BY <1>2 DEF StringsEnd
  <2>3. pc = "overwrite" /\ offset[h] > at =>
          \E i \in at + Len(text) .. offset[h] - 1 : data[i] = Nul
    BY DEF WriterInv, Reserved
  <2>4. \E i \in offset[g] .. offset[h] - 1 : data'[i] = Nul
    BY <2>1, <2>2, <2>3, NulBefore
  <2> QED BY <1>2, <2>4
<1> QED BY <1>1, <1>2, OffsetsKept

\* A place with a NUL from it on, up to the last string, still has one after a
\* step.
LEMMA EndKept ==
  ASSUME AreaInv, [Next]_vars, NEW o \in Nat, \E i \in o .. last : data[i] = Nul
  PROVE  \E i \in o .. last' : data'[i] = Nul
<1> USE SizeAssumption DEF AreaInv, TypeOK, Offsets
<1>1. last <= last' /\ last' \in Offsets
  BY LastGrows, TypeStep
<1>2. PICK i \in o .. last : data[i] = Nul
  OBVIOUS
<1>3. CASE data'[i] = Nul
  BY <1>1, <1>2, <1>3
<1>4. CASE pc = "overwrite" /\ i \in at .. at + Len(text) - 1
  <2>1. PICK j \in at + Len(text) .. last : data[j] = Nul
    BY <1>4 DEF WriterInv, Reserved
  <2>2. Len(text) \in Nat /\ j \in Offsets /\ j <= last /\ j >= at + Len(text)
    BY <2>1, TextChars
  <2>3. data'[j] = Nul
    BY <2>1, <2>2, NulKept
  <2> QED BY <1>1, <1>2, <1>4, <2>2, <2>3
<1>5. i \in Offsets /\ i <= last
  BY <1>2
<1> QED BY <1>2, <1>3, <1>4, <1>5, NulKept

\* Every step keeps the ends of the strings.
LEMMA EndStep == AreaInv /\ [Next]_vars => StringsEnd'
<1> SUFFICES ASSUME AreaInv, [Next]_vars PROVE StringsEnd'
  OBVIOUS
<1> USE SizeAssumption DEF AreaInv, TypeOK, Offsets
<1>1. ASSUME NEW h \in Handles, offset'[h] # 0
      PROVE  offset'[h] <= last' /\ \E i \in offset'[h] .. last' : data'[i] = Nul
  <2>1. CASE Publish
    <3>1. Separate /\ data' = data /\ last' = last
             /\ offset' = [offset EXCEPT ![handle] = at]
      BY <2>1 DEF Publish, WriterInv
    <3> QED BY <1>1, <3>1 DEF Separate, StringsEnd
  <2>2. CASE UNCHANGED offset
    <3>1. \E i \in offset[h] .. last : data[i] = Nul
      BY <1>1, <2>2 DEF StringsEnd
    <3>2. \E i \in offset[h] .. last' : data'[i] = Nul
      <4>1. offset[h] \in Nat
        OBVIOUS
      <4> QED BY <3>1, <4>1, EndKept
    <3>3. last' \in Offsets
      BY TypeStep
    <3> QED BY <2>2, <3>2, <3>3
  <2> QED BY <2>1, <2>2, OffsetsKept
<1>2. ASSUME reading'
      PROVE  \E i \in start' + Len(copy') .. last' : data'[i] = Nul
  <2>1. ASSUME NEW h \in Handles, Read(h)
        PROVE  \E i \in start' + Len(copy') .. last' : data'[i] = Nul
    BY <2>1 DEF Read, StringsEnd, fileVars
  <2>2. CASE ReadCharacter
    <3>1. start \in Nat /\ Len(copy) \in Nat /\ Len(copy') = Len(copy) + 1
      BY <2>2 DEF ReadCharacter
    <3>2. PICK i \in start + Len(copy) .. last : data[i] = Nul
      BY <2>2 DEF ReadCharacter, StringsEnd
    <3>3. i # start + Len(copy)
      BY <2>2, <3>2 DEF ReadCharacter
    <3>4. start' = start /\ last' = last /\ data' = data
      BY <2>2 DEF ReadCharacter, fileVars
    <3> QED BY <3>1, <3>2, <3>3, <3>4
  <2>3. CASE UNCHANGED <<reading, start, copy>>
    <3>1. start + Len(copy) \in Nat
      OBVIOUS
    <3>2. \E i \in start + Len(copy) .. last : data[i] = Nul
      BY <1>2, <2>3 DEF StringsEnd
    <3> QED BY <2>3, <3>1, <3>2, EndKept
  <2> QED
    BY <1>2, <2>1, <2>2, <2>3 DEF Next, Writer, Reader, Insert, ClearCharacter,
       Cleared, Add, AddRefused, CopyCharacter, CopyNul, SetLast, Publish, Crash,
       ReadNul, vars, readerVars
<1> QED BY <1>1, <1>2 DEF StringsEnd

\* Every step keeps what is known of the place where the writer is.
LEMMA WriterStep == AreaInv /\ [Next]_vars => WriterInv'
<1> SUFFICES ASSUME AreaInv, [Next]_vars PROVE WriterInv'
  OBVIOUS
<1>t. Len(text) \in Nat
  BY TextChars DEF AreaInv
<1> USE <1>t, SizeAssumption DEF AreaInv, TypeOK, Offsets
<1>1. ASSUME NEW h \in Handles, NEW s \in Strings, Insert(h, s) PROVE WriterInv'
  <2>1. /\ handle' = h /\ count' = 0 /\ at' = offset[h]
        /\ data' = data /\ last' = last /\ offset' = offset
        /\ \/ offset[h] = 0 /\ pc' = "add"
           \/ offset[h] # 0 /\ pc' = "clear"
    BY <1>1 DEF Insert, fileVars
  <2>2. CASE offset[h] # 0
    <3>1. Reserved(count)'
      BY <2>1, <2>2 DEF Reserved, StringsEnd, StringsApart
    <3> QED BY <2>1, <2>2, <3>1 DEF WriterInv, InPlace
  <2> QED BY <2>1, <2>2 DEF WriterInv
<1>2. CASE ClearCharacter
  <2>1. /\ handle' = handle /\ count' = count + 1 /\ at' = at /\ pc' = "clear"
        /\ data' = [data EXCEPT ![at + count] = Nul] /\ last' = last
        /\ offset' = offset /\ data[at + count] # Nul
    BY <1>2 DEF ClearCharacter
  <2>2. InPlace /\ Reserved(count)
    BY <1>2 DEF ClearCharacter, WriterInv
  <2>3. \E i \in at' + count' .. last' : data'[i] = Nul
    BY <2>1, <2>2 DEF Reserved
  <2>4. ASSUME NEW g \in Handles, offset'[g] > at'
        PROVE  \E i \in at' + count' .. offset'[g] - 1 : data'[i] = Nul
    <3>1. PICK i \in at + count .. offset[g] - 1 : data[i] = Nul
      BY <2>1, <2>2, <2>4 DEF Reserved
    <3>2. i # at + count /\ i \in Offsets
      BY <2>1, <3>1
    <3> QED BY <2>1, <3>1, <3>2
  <2>5. Reserved(count)'
    BY <2>3, <2>4 DEF Reserved
  <2> QED BY <2>1, <2>2, <2>5 DEF WriterInv, InPlace
<1>3. CASE Cleared
  <2>1. /\ handle' = handle /\ count' = 0 /\ at' = at /\ text' = text
        /\ data' = data /\ last' = last /\ offset' = offset
        /\ \/ pc' = "add"
           \/ pc' = "overwrite" /\ Len(text) <= count
    BY <1>3 DEF Cleared, fileVars
  <2>2. InPlace /\ Reserved(count)
    BY <1>3 DEF Cleared, WriterInv
  <2>3. Len(text) <= count => Reserved(Len(text))'
    BY <2>1, <2>2 DEF Reserved
  <2> QED BY <2>1, <2>2, <2>3 DEF WriterInv, InPlace
<1>4. CASE Add
  BY <1>4 DEF Add, fileVars, WriterInv, Beyond
<1>5. CASE AddRefused
  BY <1>5 DEF AddRefused, WriterInv
<1>6. CASE CopyCharacter
  <2>1. /\ handle' = handle /\ count' = count + 1 /\ at' = at /\ pc' = pc
        /\ data' = [data EXCEPT ![at + count] = text[count + 1]] /\ last' = last
        /\ offset' = offset /\ text' = text /\ count < Len(text)
        /\ pc \in {"overwrite", "append"}
    BY <1>6 DEF CopyCharacter
  <2>2. pc = "overwrite" => InPlace /\ Reserved(Len(text))'
    BY <2>1 DEF Reserved, WriterInv
  <2> QED BY <2>1, <2>2 DEF WriterInv, InPlace, Beyond
<1>7. CASE CopyNul
  <2>1. /\ handle' = handle /\ at' = at /\ text' = text /\ last' = last
        /\ data' = [data EXCEPT ![at + Len(text)] = Nul] /\ offset' = offset
        /\ \/ pc = "overwrite" /\ pc' = "publish"
           \/ pc = "append" /\ pc' = "last"
    <3>1. count = Len(text)
      BY <1>7 DEF CopyNul
    <3>2. /\ handle' = handle /\ at' = at /\ text' = text /\ last' = last
          /\ data' = [data EXCEPT ![at + count] = Nul] /\ offset' = offset
      BY <1>7 DEF CopyNul
    <3>3. \/ pc = "overwrite" /\ pc' = "publish"
          \/ pc = "append" /\ pc' = "last"
      <4>1. pc \in {"overwrite", "append"}
        BY <1>7 DEF CopyNul
      <4>2. pc' = IF pc = "append" THEN "last" ELSE "publish"
        BY <1>7, Zenon DEF CopyNul
      <4>3. CASE pc = "append"
        BY <4>2, <4>3, Zenon
      <4>4. CASE pc = "overwrite"
        <5>1. pc # "append"
          BY <4>4
        <5>2. pc' = "publish"
          BY <4>2, <5>1, Zenon
        <5> QED BY <4>4, <5>2
      <4> QED BY <4>1, <4>3, <4>4
    <3> QED BY <3>1, <3>2, <3>3
  <2>2. CASE pc = "overwrite"
    <3>1. InPlace /\ Reserved(Len(text))
      BY <2>2 DEF WriterInv
    <3>2. at' > 0 /\ \E i \in at' .. last' : data'[i] = Nul
      BY <2>1, <3>1 DEF InPlace, Reserved
    <3>3. ASSUME NEW g \in Handles, g # handle, offset[g] # 0
          PROVE  /\ offset[g] <= at => \E i \in offset[g] .. at - 1 : data'[i] = Nul
                 /\ at <= offset[g] => \E i \in at .. offset[g] - 1 : data'[i] = Nul
      <4>1. offset[g] <= at => \E i \in offset[g] .. at - 1 : data'[i] = Nul
        BY <2>1, <3>1, <3>3 DEF InPlace, StringsApart
      <4>2. offset[g] # at
        BY <3>1, <3>3 DEF InPlace, StringsApart
      <4>3. offset[g] > at => \E i \in at .. offset[g] - 1 : data'[i] = Nul
        BY <2>1, <3>1 DEF Reserved
      <4> QED BY <4>1, <4>2, <4>3
    <3>4. Separate'
      BY <2>1, <3>2, <3>3 DEF Separate
    <3> QED BY <2>1, <2>2, <3>4 DEF WriterInv
  <2>3. CASE pc = "append"
    BY <2>1, <2>3 DEF WriterInv, Beyond
  <2> QED BY <2>1, <2>2, <2>3
<1>8. CASE SetLast
  <2>1. /\ handle' = handle /\ at' = at /\ last' = at + Len(text)
        /\ data' = data /\ offset' = offset /\ pc' = "publish"
    BY <1>8 DEF SetLast
  <2>2. Beyond /\ data[at + Len(text)] = Nul
    BY <1>8 DEF SetLast, WriterInv
  <2>3. \A g \in Handles : offset[g] # 0 =>
          offset[g] < at /\ \E i \in offset[g] .. at - 1 : data[i] = Nul
    BY <2>2 DEF StringsEnd, Beyond
  <2>4. Separate'
    BY <2>1, <2>2, <2>3 DEF Separate, Beyond
  <2> QED BY <2>1, <2>4 DEF WriterInv
<1>9. CASE Publish
  BY <1>9 DEF Publish, WriterInv
<1>10. CASE Crash
  BY <1>10 DEF Crash, WriterInv
<1>11. CASE UNCHANGED <<fileVars, writerVars>>
  BY <1>11 DEF fileVars, writerVars, WriterInv, InPlace, Beyond, Reserved, Separate
<1> QED
  BY <1>1, <1>2, <1>3, <1>4, <1>5, <1>6, <1>7, <1>8, <1>9, <1>10, <1>11
  DEF Next, Writer, Reader, Read, ReadCharacter, ReadNul, vars

\* What an undisturbed reader has copied stays in the area.
LEMMA CopiedKept ==
  ASSUME AreaInv, [Next]_vars, reading, ~disturbed, NEW k \in 1 .. Len(copy)
  PROVE  data'[start + k - 1] = data[start + k - 1]
<1> USE SizeAssumption DEF AreaInv, TypeOK, Offsets
<1>1. /\ start # 0 /\ start = offset[source] /\ (pc # "idle" => handle # source)
      /\ \A l \in 1 .. Len(copy) : data[start + l - 1] = copy[l]
  BY DEF ReaderInv
<1>2. \A l \in 1 .. Len(copy) : data[start + l - 1] # Nul
  <2>1. \A l \in 1 .. Len(copy) : copy[l] \in Chars
    OBVIOUS
  <2> QED BY <1>1, <2>1, NulAssumption
<1>3. Len(copy) \in Nat /\ Len(text) \in Nat
  BY TextChars
<1>4. start + Len(copy) <= last
  BY <1>3 DEF StringsEnd
<1> DEFINE i == start + k - 1
<1>5. i \in Offsets /\ i <= last /\ start <= i
  BY <1>3, <1>4
<1>6. ASSUME NEW lo \in Nat, start <= lo, \E j \in start .. lo - 1 : data[j] = Nul
      PROVE  i < lo
  <2>1. PICK j \in start .. lo - 1 : data[j] = Nul
    BY <1>6
  <2>2. CASE j <= i
    <3>1. j - start + 1 \in 1 .. Len(copy) /\ start + (j - start + 1) - 1 = j
      BY <1>3, <2>1, <2>2
    <3> QED BY <1>2, <2>1, <3>1
  <2> QED BY <1>5, <2>1, <2>2
<1>7. CASE pc = "clear" \/ pc = "overwrite"
  <2>1. InPlace /\ offset[handle] = at /\ handle # source
    BY <1>1, <1>7 DEF WriterInv, InPlace
  <2>2. CASE start <= at
    <3>1. i < at
      BY <1>1, <1>6, <2>1, <2>2 DEF StringsApart
    <3> HIDE DEF i
    <3>2. data'[i] = data[i]
      BY <1>3, <1>5, <1>7, <3>1, Writes
    <3> QED BY <3>2 DEF i
  <2>3. CASE start > at
    <3>1. /\ pc = "clear" => at + count < start
          /\ pc = "overwrite" => at + Len(text) < start
      BY <1>1, <1>3, <2>1, <2>3 DEF WriterInv, Reserved
    <3> HIDE DEF i
    <3>2. data'[i] = data[i]
      BY <1>3, <1>5, <1>7, <3>1, Writes
    <3> QED BY <3>2 DEF i
  <2> QED BY <2>2, <2>3
<1>8. CASE pc # "clear" /\ pc # "overwrite"
  <2> HIDE DEF i
  <2>1. data'[i] = data[i]
    BY <1>5, <1>8, Writes
  <2> QED BY <2>1 DEF i
<1> QED BY <1>7, <1>8

\* Every step keeps what is known of the reader.
LEMMA ReaderStep == AreaInv /\ [Next]_vars => ReaderInv'
<1> SUFFICES ASSUME AreaInv, [Next]_vars PROVE ReaderInv'
  OBVIOUS
<1> USE SizeAssumption DEF AreaInv, TypeOK, Offsets
<1>1. ASSUME NEW h \in Handles, Read(h) PROVE ReaderInv'
  <2>1. /\ source' = h /\ start' = offset[h] /\ offset[h] # 0 /\ offset' = offset
        /\ copy' = <<>> /\ pc' = pc /\ handle' = handle
        /\ disturbed' = (pc # "idle" /\ handle = h)
    BY <1>1 DEF Read, writerVars, fileVars
  <2>2. 1 .. Len(copy') = {}
    BY <2>1
  <2> QED BY <2>1, <2>2 DEF ReaderInv
<1>2. CASE ReadCharacter
  BY <1>2 DEF ReadCharacter, ReaderInv, writerVars, fileVars
<1>3. CASE ReadNul
  BY <1>3 DEF ReadNul, ReaderInv
<1>4. ASSUME reading, ~disturbed, UNCHANGED <<reading, source, start, copy>>,
             offset'[source] = offset[source], pc' # "idle" => handle' # source
      PROVE  ReaderInv'
  <2>1. \A k \in 1 .. Len(copy) : data'[start + k - 1] = copy[k]
    BY <1>4, CopiedKept DEF ReaderInv
  <2> QED BY <1>4, <2>1 DEF ReaderInv
<1>5. ASSUME NEW h \in Handles, NEW s \in Strings, Insert(h, s) PROVE ReaderInv'
  <2>1. /\ UNCHANGED <<reading, source, start, copy, offset>>
        /\ handle' = h /\ disturbed' = (disturbed \/ h = source)
    BY <1>5 DEF Insert, fileVars
  <2>2. CASE reading /\ ~disturbed /\ h # source
    BY <1>4, <2>1, <2>2
  <2> QED BY <2>1, <2>2 DEF ReaderInv
<1>6. CASE Publish
  <2>1. /\ UNCHANGED readerVars /\ pc' = "idle" /\ pc # "idle"
        /\ offset' = [offset EXCEPT ![handle] = at]
    BY <1>6 DEF Publish
  <2>2. CASE reading /\ ~disturbed
    <3>1. handle # source
      BY <2>1, <2>2 DEF ReaderInv
    <3> QED BY <1>4, <2>1, <2>2, <3>1 DEF readerVars
  <2> QED BY <2>1, <2>2 DEF ReaderInv, readerVars
<1>7. CASE UNCHANGED <<offset, handle, readerVars>> /\ (pc' # "idle" => pc # "idle")
  <2>1. CASE reading /\ ~disturbed
    BY <1>4, <1>7, <2>1 DEF ReaderInv, readerVars
  <2> QED BY <1>7, <2>1 DEF ReaderInv, readerVars
<1> QED
  BY <1>1, <1>2, <1>3, <1>5, <1>6, <1>7 DEF Next, Writer, Reader, ClearCharacter,
     Cleared, Add, AddRefused, CopyCharacter, CopyNul, SetLast, Crash, vars,
     fileVars, writerVars, readerVars

\* The invariant is inductive.
LEMMA NextAreaInv == AreaInv /\ [Next]_vars => AreaInv'
  BY TypeStep, ApartStep, EndStep, WriterStep, ReaderStep DEF AreaInv

\* The invariant holds in every state of every area.
THEOREM AreaInvariance == Spec => []AreaInv
  BY InitAreaInv, NextAreaInv, PTL DEF Spec

-----------------------------------------------------------------------------
\* The variables have their types: no cell outside the area is ever needed.
THEOREM AreaTypeCorrect == Spec => []TypeOK
  BY AreaInvariance, PTL DEF AreaInv

\* The strings of two handles never overlap, whatever is inserted, refused or
\* interrupted.
THEOREM StringsStayApart == Spec => []StringsApart
  BY AreaInvariance, PTL DEF AreaInv

\* Every string ends inside the area, and so does every reader.
THEOREM StringsAlwaysEnd == Spec => []StringsEnd
  BY AreaInvariance, PTL DEF AreaInv

\* An undisturbed reader copies the string of its handle.
THEOREM UndisturbedReads == Spec => []ReadsUndisturbed
<1>1. AreaInv => ReadsUndisturbed
  <2> SUFFICES ASSUME AreaInv, reading, ~disturbed
               PROVE  /\ start = offset[source]
                      /\ Len(copy) <= Len(StringAt(data, start))
                      /\ copy = SubSeq(StringAt(data, start), 1, Len(copy))
    BY DEF ReadsUndisturbed
  <2> USE SizeAssumption DEF AreaInv, TypeOK, Offsets
  <2>1. /\ start # 0 /\ start = offset[source]
        /\ \A k \in 1 .. Len(copy) : data[start + k - 1] = copy[k]
    BY DEF ReaderInv
  <2>2. \A k \in 1 .. Len(copy) : data[start + k - 1] # Nul
    BY <2>1, NulAssumption
  <2> DEFINE e == EndOf(data, start)
  <2>3. e \in start .. Size /\ data[e] = Nul
    <3>1. \E i \in start .. Size : data[i] = Nul
      BY DEF StringsEnd
    <3> QED BY <3>1, EndExists DEF IsEnd
  <2> HIDE DEF e
  <2>4. e >= start + Len(copy)
    <3>1. SUFFICES ASSUME e < start + Len(copy) PROVE FALSE
      BY <2>3
    <3>2. e - start + 1 \in 1 .. Len(copy) /\ start + (e - start + 1) - 1 = e
      BY <2>3, <3>1
    <3> QED BY <2>2, <2>3, <3>2
  <2> DEFINE s == StringAt(data, start)
  <2>5. s = [k \in 1 .. e - start |-> data[start + k - 1]]
    BY <2>1 DEF StringAt, e
  <2>6. e - start \in Nat
    BY <2>3
  <2>7. s \in Seq(Chars \cup {Nul}) /\ Len(s) = e - start
    BY <2>3, <2>5, <2>6
  <2> HIDE DEF s
  <2>8. Len(copy) <= Len(s)
    BY <2>3, <2>4, <2>7
  <2>9. copy = SubSeq(s, 1, Len(copy))
    <3>1. \A k \in 1 .. Len(copy) : s[k] = copy[k]
      BY <2>1, <2>5, <2>6, <2>7, <2>8
    <3>2. SubSeq(s, 1, Len(copy)) = [k \in 1 .. Len(copy) |-> s[k]]
      BY <2>7, <2>8
    <3>3. copy = [k \in 1 .. Len(copy) |-> copy[k]]
      OBVIOUS
    <3>4. [k \in 1 .. Len(copy) |-> s[k]] = [k \in 1 .. Len(copy) |-> copy[k]]
      BY <3>1
    <3> QED BY <3>2, <3>3, <3>4
  <2> QED BY <2>1, <2>8, <2>9 DEF s
<1> QED BY <1>1, AreaInvariance, PTL

-----------------------------------------------------------------------------
(***************************************************************************)
(* The area implements StringStore: every step of the writer, of the       *)
(* reader or of a crash maps to a step of the abstract store, or changes   *)
(* nothing there.                                                          *)
(*                                                                         *)
(* To the invariant above, which says which cells may change, TextInv adds *)
(* what they hold at each point of insert.                                 *)
(***************************************************************************)

(* The first n characters of the text are in place. *)
Copied(n) == \A k \in 1 .. n : data[at + k - 1] = text[k]

(* What the cells of the string that is being inserted hold. *)
TextInv ==
    /\ pc = "clear" =>
          /\ \A i \in at .. at + count - 1 : data[i] = Nul
          /\ count <= room /\ at + room <= Size /\ data[at + room] = Nul
          /\ \A i \in at + count .. at + room - 1 : data[i] # Nul
    /\ pc = "add" /\ offset[handle] # 0 =>
          data[offset[handle]] = Nul /\ Len(text) > room
    /\ pc = "overwrite" =>
          /\ Copied(count)
          /\ \A i \in at + count .. at + Len(text) : data[i] = Nul
    /\ pc = "append" => Copied(count)
    /\ pc = "last" => Copied(Len(text))
    /\ pc = "publish" =>
          /\ Copied(Len(text))
          /\ at + Len(text) <= Size /\ data[at + Len(text)] = Nul

StoreInv == AreaInv /\ TextInv

-----------------------------------------------------------------------------
(* Reading strings. *)

\* Where the characters of s lie, followed by a NUL, s is read.
LEMMA StringIs ==
  ASSUME NEW d, NEW o \in Offsets, o # 0, NEW s \in Seq(Chars),
         o + Len(s) <= Size, d[o + Len(s)] = Nul,
         \A k \in 1 .. Len(s) : d[o + k - 1] = s[k]
  PROVE  StringAt(d, o) = s
<1> USE SizeAssumption DEF Offsets
<1> DEFINE e == o + Len(s)
<1>1. e \in o .. Size /\ Len(s) \in Nat
  OBVIOUS
<1>2. \A j \in o .. e - 1 : d[j] # Nul
  <2>1. TAKE j \in o .. e - 1
  <2>2. j - o + 1 \in 1 .. Len(s) /\ o + (j - o + 1) - 1 = j
    BY <1>1
  <2>3. d[j] = s[j - o + 1] /\ s[j - o + 1] \in Chars
    BY <2>2
  <2> QED BY <2>3, NulAssumption
<1>3. EndOf(d, o) = e
  <2>1. IsEnd(d, o, e)
    BY <1>2 DEF IsEnd
  <2> HIDE DEF e
  <2> QED BY <1>1, <2>1, EndIs
<1>4. StringAt(d, o) = [k \in 1 .. Len(s) |-> d[o + k - 1]]
  BY <1>1, <1>3 DEF StringAt
<1>5. [k \in 1 .. Len(s) |-> d[o + k - 1]] = [k \in 1 .. Len(s) |-> s[k]]
  OBVIOUS
<1>6. s = [k \in 1 .. Len(s) |-> s[k]]
  OBVIOUS
<1> QED BY <1>4, <1>5, <1>6

\* Where there is a NUL at once, the empty string is read.
LEMMA EmptyIs ==
  ASSUME NEW d, NEW o \in Offsets, o # 0, d[o] = Nul
  PROVE  StringAt(d, o) = <<>>
<1> DEFINE s == <<>>
<1>1. s \in Seq(Chars) /\ Len(s) = 0
  OBVIOUS
<1> HIDE DEF s
<1>2. o + Len(s) <= Size /\ o + Len(s) = o /\ 1 .. Len(s) = {}
  BY <1>1, SizeAssumption DEF Offsets
<1>3. StringAt(d, o) = s
  BY <1>1, <1>2, StringIs
<1> QED BY <1>3 DEF s

\* The string of a handle is a sequence of characters, up to its end.
LEMMA StringType ==
  ASSUME AreaInv, NEW h \in Handles, offset[h] # 0
  PROVE  LET e == EndOf(data, offset[h])
         IN  /\ e \in offset[h] .. last /\ IsEnd(data, offset[h], e)
             /\ StringAt(data, offset[h]) \in Seq(Chars)
             /\ Len(StringAt(data, offset[h])) = e - offset[h]
<1> USE SizeAssumption DEF AreaInv, TypeOK, Offsets
<1> DEFINE o == offset[h]
           e == EndOf(data, o)
<1>1. PICK i \in o .. last : data[i] = Nul
  BY DEF StringsEnd
<1>2. e \in o .. Size /\ IsEnd(data, o, e)
  BY <1>1, EndExists
<1>3. StringAt(data, o) = [k \in 1 .. e - o |-> data[o + k - 1]]
  BY DEF StringAt
<1> HIDE DEF e
<1>4. e <= i
  BY <1>1, <1>2 DEF IsEnd
<1>5. e - o \in Nat /\ \A k \in 1 .. e - o : data[o + k - 1] \in Chars
  BY <1>2 DEF IsEnd
<1>6. [k \in 1 .. e - o |-> data[o + k - 1]] \in Seq(Chars)
  BY <1>5
<1>7. Len([k \in 1 .. e - o |-> data[o + k - 1]]) = e - o
  BY <1>5
<1> QED BY <1>1, <1>2, <1>3, <1>4, <1>6, <1>7 DEF e

\* A step of the writer leaves the strings of the other handles alone, and that
\* of its own handle too unless it clears or overwrites it.
LEMMA StringsKept ==
  ASSUME AreaInv, [Next]_vars, NEW g \in Handles, offset[g] # 0,
         g = handle => pc \notin {"clear", "overwrite"}
  PROVE  StringAt(data', offset[g]) = StringAt(data, offset[g])
<1> USE SizeAssumption DEF AreaInv, TypeOK, Offsets
<1> DEFINE o == offset[g]
           e == EndOf(data, o)
<1>1. e \in o .. last /\ IsEnd(data, o, e)
  BY StringType
<1> HIDE DEF e
<1>2. ASSUME NEW i \in o .. e PROVE data'[i] = data[i]
  <2>1. i \in Offsets /\ i <= last /\ Len(text) \in Nat
    BY <1>1, TextChars
  <2>2. CASE pc = "clear" \/ pc = "overwrite"
    <3>1. at = offset[handle] /\ at # 0 /\ g # handle
      BY <2>2 DEF WriterInv, InPlace
    <3>2. CASE o <= at
      <4>1. PICK j \in o .. at - 1 : data[j] = Nul
        BY <3>1, <3>2 DEF StringsApart
      <4>2. e <= j
        BY <1>1, <4>1 DEF IsEnd
      <4>3. i < at
        BY <1>1, <1>2, <4>1, <4>2
      <4> QED BY <2>1, <2>2, <4>3, Writes
    <3>3. CASE o > at
      <4>1. /\ pc = "clear" => at + count < o
            /\ pc = "overwrite" => at + Len(text) < o
        BY <2>1, <3>3 DEF WriterInv, Reserved
      <4> QED BY <1>2, <2>1, <2>2, <4>1, Writes
    <3> QED BY <3>2, <3>3
  <2>3. CASE pc # "clear" /\ pc # "overwrite"
    BY <2>1, <2>3, Writes
  <2> QED BY <2>2, <2>3
<1>3. EndOf(data', o) = e
  <2>1. IsEnd(data', o, e)
    BY <1>1, <1>2 DEF IsEnd
  <2> QED BY <1>1, <2>1, EndIs
<1>4. \A k \in 1 .. e - o : data'[o + k - 1] = data[o + k - 1]
  BY <1>1, <1>2
<1> QED BY <1>3, <1>4 DEF StringAt, e

-----------------------------------------------------------------------------
\* A new file is in the invariant.
LEMMA InitStoreInv == Init => StoreInv
  BY InitAreaInv DEF StoreInv, TextInv, Init

\* Every step keeps what the cells hold.
LEMMA TextStep == StoreInv /\ [Next]_vars => TextInv'
<1> SUFFICES ASSUME StoreInv, [Next]_vars PROVE TextInv'
  OBVIOUS
<1>t. text \in Seq(Chars) /\ Len(text) \in Nat
  BY TextChars DEF StoreInv, AreaInv
<1> USE <1>t, SizeAssumption DEF StoreInv, AreaInv, TypeOK, Offsets
<1>1. ASSUME NEW h \in Handles, NEW s \in Strings, Insert(h, s) PROVE TextInv'
  <2>1. /\ handle' = h /\ count' = 0 /\ at' = offset[h] /\ data' = data
        /\ offset' = offset
    BY <1>1 DEF Insert, fileVars
  <2>p. pc' = IF offset[h] = 0 THEN "add" ELSE "clear"
    BY <1>1, Zenon DEF Insert
  <2>r. room' = IF offset[h] = 0 THEN 0 ELSE EndOf(data, offset[h]) - offset[h]
    BY <1>1, Zenon DEF Insert
  <2>2. CASE offset[h] # 0
    <3> DEFINE e == EndOf(data, offset[h])
    <3>1. e \in offset[h] .. last /\ IsEnd(data, offset[h], e)
      BY <2>2, StringType
    <3>2. room' = e - offset[h]
      BY <2>r, <2>2
    <3> HIDE DEF e
    <3>3. pc' = "clear"
      BY <2>2, <2>p
    <3> QED BY <2>1, <2>2, <3>1, <3>2, <3>3 DEF TextInv, IsEnd
  <2>3. CASE offset[h] = 0
    <3>1. pc' = "add" /\ offset'[handle'] = 0
      BY <2>1, <2>3, <2>p
    <3> QED BY <3>1 DEF TextInv
  <2> QED BY <2>2, <2>3
<1>2. CASE ClearCharacter
  <2>1. /\ count' = count + 1 /\ at' = at /\ pc' = "clear" /\ pc = "clear"
        /\ data' = [data EXCEPT ![at + count] = Nul] /\ room' = room
        /\ data[at + count] # Nul
    BY <1>2 DEF ClearCharacter
  <2>2. count # room
    BY <2>1 DEF TextInv
  <2> QED BY <2>1, <2>2 DEF TextInv
<1>3. CASE Cleared
  <2>1. /\ handle' = handle /\ count' = 0 /\ at' = at /\ text' = text
        /\ data' = data /\ offset' = offset /\ room' = room /\ pc = "clear"
        /\ data[at + count] = Nul
        /\ \/ pc' = "add" /\ Len(text) > count
           \/ pc' = "overwrite" /\ Len(text) <= count
    BY <1>3 DEF Cleared, fileVars
  <2>2. count = room /\ InPlace
    BY <2>1 DEF TextInv, WriterInv
  <2>3. \A i \in at .. at + count : data[i] = Nul
    BY <2>1 DEF TextInv
  <2> QED BY <2>1, <2>2, <2>3 DEF TextInv, InPlace, Copied
<1>4. CASE Add
  <2>1. pc' = "append" /\ count' = 0
    BY <1>4 DEF Add, WriterInv
  <2> QED BY <2>1 DEF TextInv, Copied
<1>5. CASE AddRefused
  BY <1>5 DEF AddRefused, TextInv
<1>6. CASE CopyCharacter
  <2>1. /\ handle' = handle /\ count' = count + 1 /\ at' = at /\ pc' = pc
        /\ data' = [data EXCEPT ![at + count] = text[count + 1]]
        /\ text' = text /\ count < Len(text) /\ pc \in {"overwrite", "append"}
    BY <1>6 DEF CopyCharacter
  <2>2. at + count \in Offsets
    BY <2>1 DEF WriterInv, Beyond, Reserved, InPlace
  <2>3. Copied(count)
    BY <2>1 DEF TextInv
  <2>4. Copied(count)'
    <3>1. ASSUME NEW k \in 1 .. count + 1 PROVE data'[at + k - 1] = text[k]
      <4>1. CASE k = count + 1
        BY <2>1, <2>2, <4>1
      <4>2. CASE k \in 1 .. count
        <5>1. data[at + k - 1] = text[k] /\ at + k - 1 # at + count
          BY <2>3, <4>2 DEF Copied
        <5> QED BY <2>1, <5>1
      <4> QED BY <3>1, <4>1, <4>2
    <3> QED BY <2>1, <3>1 DEF Copied
  <2>5. pc = "overwrite" =>
          \A i \in at + count + 1 .. at + Len(text) : data'[i] = Nul
    <3>1. ASSUME pc = "overwrite", NEW i \in at + count + 1 .. at + Len(text)
          PROVE  data'[i] = Nul
      <4>1. data[i] = Nul /\ i # at + count /\ i \in Offsets
        BY <2>1, <3>1 DEF TextInv, WriterInv, Reserved
      <4> QED BY <2>1, <4>1
    <3> QED BY <3>1
  <2> QED BY <2>1, <2>4, <2>5 DEF TextInv
<1>7. CASE CopyNul
  <2>1. /\ at' = at /\ text' = text /\ count = Len(text)
        /\ data' = [data EXCEPT ![at + count] = Nul]
        /\ pc \in {"overwrite", "append"} /\ pc' \in {"last", "publish"}
        /\ pc = "append" => pc' = "last"
    BY <1>7 DEF CopyNul
  <2>2. Copied(Len(text)) /\ at + Len(text) \in Offsets
    BY <2>1 DEF TextInv, WriterInv, Beyond, Reserved, InPlace
  <2>3. data'[at + Len(text)] = Nul
    BY <2>1, <2>2
  <2>4. Copied(Len(text))'
    <3>1. ASSUME NEW k \in 1 .. Len(text) PROVE data'[at + k - 1] = text[k]
      <4>1. data[at + k - 1] = text[k] /\ at + k - 1 # at + count
        BY <2>1, <2>2 DEF Copied
      <4> QED BY <2>1, <4>1
    <3> QED BY <2>1, <3>1 DEF Copied
  <2> QED BY <2>1, <2>2, <2>3, <2>4 DEF TextInv
<1>8. CASE SetLast
  <2>1. pc = "last" /\ pc' = "publish" /\ at' = at /\ text' = text /\ data' = data
    BY <1>8 DEF SetLast
  <2> QED BY <2>1 DEF TextInv, WriterInv, Beyond, Copied
<1>9. CASE Publish
  BY <1>9 DEF Publish, TextInv
<1>10. CASE Crash
  BY <1>10 DEF Crash, TextInv
<1>11. CASE UNCHANGED <<fileVars, writerVars>>
  BY <1>11 DEF fileVars, writerVars, TextInv, Copied
<1> QED
  BY <1>1, <1>2, <1>3, <1>4, <1>5, <1>6, <1>7, <1>8, <1>9, <1>10, <1>11
  DEF Next, Writer, Reader, Read, ReadCharacter, ReadNul, vars

\* The invariant holds in every state of every area.
THEOREM StoreInvariance == Spec => []StoreInv
<1>1. StoreInv /\ [Next]_vars => StoreInv'
  BY NextAreaInv, TextStep DEF StoreInv
<1> QED BY <1>1, InitStoreInv, PTL DEF Spec

-----------------------------------------------------------------------------
(* The steps of the abstract store. *)

Value(d, o) == [h \in Handles |-> StringAt(d, o[h])]
Job == IF pc = "idle" THEN {}
       ELSE {[handle |-> handle, text |-> text, room |-> room]}

\* A step that leaves the offsets alone, and does not clear or overwrite a
\* string, leaves every string as it is.
LEMMA ValueKept ==
  ASSUME AreaInv, [Next]_vars, UNCHANGED offset, pc \notin {"clear", "overwrite"}
  PROVE  Value(data', offset') = Value(data, offset)
<1>1. ASSUME NEW h \in Handles
      PROVE  StringAt(data', offset'[h]) = StringAt(data, offset[h])
  <2>1. CASE offset[h] = 0
    BY <2>1 DEF StringAt
  <2>2. CASE offset[h] # 0
    BY <2>2, StringsKept
  <2> QED BY <2>1, <2>2
<1> QED BY <1>1 DEF Value

\* A step that leaves the offsets alone changes at most the string of the handle
\* the writer inserts for.
LEMMA ValueChanged ==
  ASSUME AreaInv, [Next]_vars, UNCHANGED offset
  PROVE  Value(data', offset') = [Value(data, offset) EXCEPT ![handle] =
                                    StringAt(data', offset[handle])]
<1>1. ASSUME NEW h \in Handles, h # handle
      PROVE  StringAt(data', offset'[h]) = StringAt(data, offset[h])
  <2>1. CASE offset[h] = 0
    BY <2>1 DEF StringAt
  <2>2. CASE offset[h] # 0
    BY <1>1, <2>2, StringsKept
  <2> QED BY <2>1, <2>2
<1> QED BY <1>1 DEF Value

\* The initial states map to the initial state of the store.
LEMMA InitStore == Init => Store!Init
<1> SUFFICES ASSUME Init PROVE Store!Init
  OBVIOUS
<1>1. \A h \in Handles : StringAt(data, offset[h]) = NoString
  BY DEF Init, StringAt
<1> QED BY <1>1 DEF Init, Store!Init

\* Every step maps to a step of the store, or changes nothing there.
LEMMA NextStore == StoreInv /\ [Next]_vars => [Store!Next]_(Store!vars)
<1> SUFFICES ASSUME StoreInv, [Next]_vars PROVE [Store!Next]_(Store!vars)
  OBVIOUS
<1>t. text \in Seq(Chars) /\ Len(text) \in Nat
  BY TextChars DEF StoreInv, AreaInv
<1>m. TypeOK /\ AreaInv
  BY DEF StoreInv, AreaInv
<1> DEFINE job == [handle |-> handle, text |-> text, room |-> room]
<1>s. ASSUME Value(data', offset') = Value(data, offset), Job' = Job,
             outcome' = outcome
      PROVE  [Store!Next]_(Store!vars)
  BY <1>s DEF Store!vars, Value, Job
<1>1. ASSUME NEW h \in Handles, NEW s \in Strings, Insert(h, s)
      PROVE  [Store!Next]_(Store!vars)
  <2>1. /\ pc = "idle" /\ handle' = h /\ text' = s /\ outcome' = "none"
        /\ data' = data /\ offset' = offset
    BY <1>1 DEF Insert, fileVars
  <2>2. pc' # "idle"
    BY <1>1 DEF Insert
  <2>r. room' = IF offset[h] = 0 THEN 0 ELSE EndOf(data, offset[h]) - offset[h]
    BY <1>1, Zenon DEF Insert
  <2>3. room' = Store!LengthOf(StringAt(data, offset[h]))
    <3>1. CASE offset[h] = 0
      BY <2>r, <3>1 DEF StringAt, Store!LengthOf
    <3>2. CASE offset[h] # 0
      <4>1. /\ StringAt(data, offset[h]) \in Seq(Chars)
            /\ Len(StringAt(data, offset[h])) = EndOf(data, offset[h]) - offset[h]
        BY <1>m, <3>2, StringType
      <4> QED BY <2>r, <3>2, <4>1, NoStringAssumption DEF Store!LengthOf
    <3> QED BY <3>1, <3>2
  <2>4. Store!Insert(h, s)
    BY <2>1, <2>2, <2>3 DEF Store!Insert
  <2> QED BY <2>4 DEF Store!Next
<1>2. CASE ClearCharacter
  <2>1. /\ pc = "clear" /\ pc' = "clear" /\ handle' = handle /\ text' = text
        /\ room' = room /\ outcome' = outcome /\ offset' = offset
        /\ data' = [data EXCEPT ![at + count] = Nul] /\ data[at + count] # Nul
    BY <1>2 DEF ClearCharacter
  <2>2. at = offset[handle] /\ at > 0 /\ at \in Offsets /\ handle \in Handles
    BY <1>m, <2>1 DEF AreaInv, WriterInv, InPlace, TypeOK
  <2>3. data'[at] = Nul
    BY <1>m, <2>1, <2>2 DEF StoreInv, TextInv, TypeOK, Offsets
  <2>4. StringAt(data', at) = <<>>
    BY <2>2, <2>3, EmptyIs
  <2>5. Value(data', offset') = [Value(data, offset) EXCEPT ![handle] = <<>>]
    BY <1>m, <2>1, <2>2, <2>4, ValueChanged
  <2>6. StringAt(data, offset[handle]) # NoString
    BY <1>m, <2>2, StringType, NoStringAssumption
  <2>7. Store!Erase(job)
    BY <2>1, <2>2, <2>5, <2>6 DEF Store!Erase, Value
  <2> QED BY <2>1, <2>7 DEF Store!Next
<1>3. CASE Cleared
  BY <1>3, <1>s DEF Cleared, fileVars, Job, Value
<1>4. CASE Add
  BY <1>4, <1>s DEF Add, fileVars, Job, Value
<1>5. CASE AddRefused
  <2>1. /\ pc = "add" /\ pc' = "idle" /\ outcome' = "refused"
        /\ data' = data /\ offset' = offset
    BY <1>5 DEF AddRefused, fileVars
  <2>2. handle \in Handles /\ offset[handle] \in Offsets
    BY <1>m DEF TypeOK
  <2>3. CASE offset[handle] = 0
    <3>1. StringAt(data, offset[handle]) = NoString
      BY <2>3 DEF StringAt
    <3>2. Store!Refuse(job)
      BY <2>1, <2>2, <3>1 DEF Store!Refuse
    <3> QED BY <2>1, <3>2 DEF Store!Next
  <2>4. CASE offset[handle] # 0
    <3>1. data[offset[handle]] = Nul /\ Len(text) > room
      BY <2>1, <2>4 DEF StoreInv, TextInv
    <3>2. StringAt(data, offset[handle]) = <<>>
      BY <2>2, <2>4, <3>1, EmptyIs
    <3>3. Store!Refuse(job)
      BY <2>1, <2>2, <3>1, <3>2 DEF Store!Refuse
    <3> QED BY <2>1, <3>3 DEF Store!Next
  <2> QED BY <2>3, <2>4
<1>6. CASE CopyCharacter
  <2>1. /\ handle' = handle /\ count' = count + 1 /\ at' = at /\ pc' = pc
        /\ data' = [data EXCEPT ![at + count] = text[count + 1]]
        /\ text' = text /\ count < Len(text) /\ pc \in {"overwrite", "append"}
        /\ offset' = offset /\ room' = room /\ outcome' = outcome
    BY <1>6 DEF CopyCharacter
  <2>2. CASE pc = "append"
    BY <1>m, <1>s, <2>1, <2>2, ValueKept DEF Job
  <2>3. CASE pc = "overwrite"
    <3>1. /\ at = offset[handle] /\ at # 0 /\ at \in Offsets /\ handle \in Handles
          /\ count \in Nat /\ count + 1 <= Len(text) /\ at + Len(text) <= Size
      BY <1>m, <1>t, <2>1, <2>3, SizeAssumption
      DEF AreaInv, WriterInv, InPlace, Reserved, TypeOK, Offsets
    <3>2. ASSUME NEW d, NEW n \in 0 .. Len(text), d[at + n] = Nul,
                 \A k \in 1 .. n : d[at + k - 1] = text[k]
          PROVE  StringAt(d, at) = SubSeq(text, 1, n)
      <4> DEFINE s == SubSeq(text, 1, n)
      <4>1. s \in Seq(Chars) /\ Len(s) = n /\ \A k \in 1 .. n : s[k] = text[k]
        BY <1>t
      <4> HIDE DEF s
      <4>2. at + Len(s) <= Size /\ d[at + Len(s)] = Nul
        BY <1>t, <3>1, <3>2, <4>1, SizeAssumption DEF Offsets
      <4>3. \A k \in 1 .. Len(s) : d[at + k - 1] = s[k]
        BY <3>2, <4>1
      <4>4. StringAt(d, at) = s
        BY <3>1, <4>1, <4>2, <4>3, StringIs
      <4> QED BY <4>4 DEF s
    <3>3. StringAt(data, at) = SubSeq(text, 1, count)
      <4>1. data[at + count] = Nul /\ \A k \in 1 .. count : data[at + k - 1] = text[k]
        <5>1. at + count \in at + count .. at + Len(text)
          BY <1>t, <3>1, SizeAssumption DEF Offsets
        <5> QED BY <2>3, <5>1 DEF StoreInv, TextInv, Copied
      <4>2. count \in 0 .. Len(text)
        BY <1>t, <3>1
      <4> QED BY <3>2, <4>1, <4>2
    <3>4. StringAt(data', at) = SubSeq(text, 1, count + 1)
      <4>1. data'[at + (count + 1)] = Nul
        <5>1. TextInv'
          BY TextStep
        <5>2. at + (count + 1) \in at + (count + 1) .. at + Len(text)
          BY <1>t, <3>1, SizeAssumption DEF Offsets
        <5> QED BY <2>1, <2>3, <5>1, <5>2 DEF TextInv
      <4>2. \A k \in 1 .. count + 1 : data'[at + k - 1] = text[k]
        <5>1. TextInv'
          BY TextStep
        <5> QED BY <2>1, <2>3, <5>1 DEF TextInv, Copied
      <4>3. count + 1 \in 0 .. Len(text)
        BY <1>t, <3>1
      <4> QED BY <3>2, <4>1, <4>2, <4>3
    <3>5. Value(data', offset') =
            [Value(data, offset) EXCEPT ![handle] = SubSeq(text, 1, count + 1)]
      BY <1>m, <2>1, <3>1, <3>4, ValueChanged
    <3>6. StringAt(data, offset[handle]) # NoString
      BY <1>m, <3>1, StringType, NoStringAssumption
    <3>7. count \in 0 .. Len(text) - 1
      BY <1>t, <3>1
    <3>8. Store!Advance(job)
      BY <2>1, <2>3, <3>1, <3>3, <3>5, <3>6, <3>7 DEF Store!Advance, Value
    <3> QED BY <2>3, <3>8 DEF Store!Next
  <2> QED BY <2>1, <2>2, <2>3
<1>7. CASE CopyNul
  <2>1. /\ handle' = handle /\ text' = text /\ count = Len(text)
        /\ data' = [data EXCEPT ![at + count] = Nul]
        /\ pc \in {"overwrite", "append"} /\ pc' \in {"last", "publish"}
        /\ offset' = offset /\ room' = room /\ outcome' = outcome
    BY <1>7 DEF CopyNul
  <2>2. CASE pc = "append"
    BY <1>m, <1>s, <2>1, <2>2, ValueKept DEF Job
  <2>3. CASE pc = "overwrite"
    <3>1. at + count \in Offsets /\ data[at + count] = Nul
      BY <1>m, <1>t, <2>1, <2>3, SizeAssumption
      DEF StoreInv, TextInv, AreaInv, WriterInv, InPlace, Reserved, TypeOK, Offsets
    <3>2. data' = data
      BY <1>m, <2>1, <3>1 DEF TypeOK
    <3> QED BY <1>s, <2>1, <3>2 DEF Job
  <2> QED BY <2>1, <2>2, <2>3
<1>8. CASE SetLast
  BY <1>8, <1>s DEF SetLast, Job, Value
<1>9. CASE Publish
  <2>1. /\ pc = "publish" /\ pc' = "idle" /\ outcome' = "stored" /\ data' = data
        /\ offset' = [offset EXCEPT ![handle] = at]
    BY <1>9 DEF Publish
  <2>2. at > 0 /\ at \in Offsets /\ handle \in Handles
    BY <1>m, <2>1 DEF AreaInv, WriterInv, Separate, TypeOK
  <2>3. StringAt(data, at) = text
    BY <1>t, <2>1, <2>2, StringIs, SizeAssumption DEF StoreInv, TextInv, Copied, Offsets
  <2>4. [h \in Handles |-> StringAt(data', offset'[h])] =
          [[h \in Handles |-> StringAt(data, offset[h])] EXCEPT ![handle] = text]
    BY <1>m, <2>1, <2>2, <2>3 DEF TypeOK
  <2>5. Store!Done(job)
    BY <2>1, <2>4 DEF Store!Done
  <2> QED BY <2>1, <2>5 DEF Store!Next
<1>10. CASE Crash
  <2>1. pc # "idle" /\ pc' = "idle" /\ outcome' = outcome /\ data' = data
        /\ offset' = offset
    BY <1>10 DEF Crash, fileVars
  <2>2. Store!Crash
    BY <2>1 DEF Store!Crash
  <2> QED BY <2>2 DEF Store!Next
<1>11. CASE UNCHANGED <<fileVars, writerVars>>
  BY <1>11, <1>s DEF fileVars, writerVars, Job, Value
<1> QED
  BY <1>1, <1>2, <1>3, <1>4, <1>5, <1>6, <1>7, <1>8, <1>9, <1>10, <1>11
  DEF Next, Writer, Reader, Read, ReadCharacter, ReadNul, vars

\* The area implements the store: whatever the size, the strings and the moment
\* of a crash, each handle reads as its former string, nothing, or the beginning
\* of the new one.
THEOREM AreaImplementsStore == Spec => StoresStrings
  BY InitStore, NextStore, StoreInvariance, PTL DEF Spec, StoresStrings, Store!Spec

=============================================================================
