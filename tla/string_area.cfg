\* Two handles, an area with room for a few strings of up to three characters.
SPECIFICATION Spec
CONSTANTS
    Size = 7
    Chars = {"a", "b"}
    Nul = Nul
    Handles = {h1, h2}
    NoString = NoString
    Strings <- ShortStrings
SYMMETRY Symmetry
INVARIANTS TypeOK StringsApart StringsEnd ReadsUndisturbed
PROPERTY StoresStrings
