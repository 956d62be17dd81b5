------------------------------ MODULE MCTexts ------------------------------
(***************************************************************************)
(* Instances of StringCodec and FileText for TLC: an application builds a  *)
(* vector, a map, a path or a size, one at a time and step by step; each   *)
(* state is one input of the functions of those modules.                   *)
(***************************************************************************)
EXTENDS StringCodec, FileText, FiniteSets

CONSTANTS MaxVector, MaxMap, MaxPath, MaxSize   \* bounds of the inputs

VARIABLES vect, map, path, size

vars == <<vect, map, path, size>>

\* Strings of up to n characters, the separators among them.
Words(n) == UNION {[1 .. i -> {"a", ";", ":"}] : i \in 0 .. n}

\* What a directory may hold.
Entries == UNION {[1 .. i -> {"a", ":"}] : i \in 1 .. 2}

FileProtocol == <<"f", "i", "l", "e">>

\* What realpath makes of a name: one name here is a link to another directory.
RealPath(name) == IF name = <<"a", "a">> THEN <<"a">> ELSE name

Init ==
    /\ vect = <<>>
    /\ map  = <<>>
    /\ path = <<"/">>
    /\ size = 0

AddString ==
    /\ map = <<>> /\ path = <<"/">> /\ size = 0
    /\ Len(vect) < MaxVector
    /\ \E s \in Words(2) : vect' = Append(vect, s)
    /\ UNCHANGED <<map, path, size>>

AddEntry ==
    /\ vect = <<>> /\ path = <<"/">> /\ size = 0
    /\ Cardinality(DOMAIN map) < MaxMap
    /\ \E key \in Words(1), value \in Words(2) : map' = With(map, key, value)
    /\ UNCHANGED <<vect, path, size>>

Descend ==
    /\ vect = <<>> /\ map = <<>> /\ size = 0
    /\ depth(path) < MaxPath
    /\ \E e \in Entries :
        path' = (IF path = <<"/">> THEN path ELSE path \o <<"/">>) \o e
    /\ UNCHANGED <<vect, map, size>>

AddByte ==
    /\ vect = <<>> /\ map = <<>> /\ path = <<"/">>
    /\ size < MaxSize
    /\ size' = size + 1
    /\ UNCHANGED <<vect, map, path>>

Next == AddString \/ AddEntry \/ Descend \/ AddByte

Spec == Init /\ [][Next]_vars

-----------------------------------------------------------------------------
(* Properties *)

\* Every vector of strings without the separator, and every map whose keys and
\* values hold no character they must not, is read back as it was written, but for
\* empty strings of a vector; every list of names without the separator as the
\* directories they name, and so every list of directories as it was
\* (StringMemoryArea::get_vector and get_map, Path::parse_path_list); and parent,
\* short name and depth of every path fit together (File.cpp).
TextsReadBack ==
    VectorReadsBack(vect) /\ MapReadsBack(map) /\ NameComposes(path)

\* Of every size whose gigabytes fit an int all bytes are printed, but for one byte
\* above whole kilobytes (File::pretty_size).
SizesAddUp == SizeAddsUp(size)
=============================================================================
