SPECIFICATION Spec
CONSTANTS
    Threads = {t1, t2}
    Processes = {p1, p2}
    Numbers = {n1, n2}
    None = None
    Anything = Anything
    Keys = {1, 2}
    Values = {v1, v2}
    Unset = Unset
    Usages <- TwoUsages
SYMMETRY Symmetry
CHECK_DEADLOCK FALSE
INVARIANTS
    TypeOK
    ActsOnTheMeant
    TerminateReaches
    ProgramsSeeTheirVariables
