SPECIFICATION Spec
CONSTANTS
    Files = {f1, f2, f3}
    Fds = {d1, d2}
    Addresses = {a1, a2, a3}
    Null = Null
    MAP_FAILED = MAP_FAILED
SYMMETRY Symmetry
INVARIANTS TypeOK MappedMeansMapped DescriptorsOwn DescriptorsClosed
CHECK_DEADLOCK FALSE
