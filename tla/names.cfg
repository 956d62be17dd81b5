SPECIFICATION Spec
CONSTANTS
    Threads = {t1, t2}
    Empty = Empty
    Unknown = Unknown
    Dotted = Dotted
    Given = Given
    Users = {u1, u2}
    MaxEntry = 2
    Hosts = {h1, h2}
    MaxName = 2
    Labels = {n1, n2}
SYMMETRY Symmetry
CHECK_DEADLOCK FALSE
INVARIANTS
    FieldsOfOneLookup
    EqualsForGood
    NameKept
