------------------------- MODULE MCStringMemoryArea -------------------------
(* Instances of StringMemoryArea for TLC. *)
EXTENDS StringMemoryArea, TLC

\* The empty string, and strings of each length up to three.
ShortStrings == {<<>>, <<"a">>, <<"b", "a">>, <<"b", "b", "b">>}

Symmetry == Permutations(Handles)
=============================================================================
