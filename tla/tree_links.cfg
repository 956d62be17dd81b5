SPECIFICATION Spec
CONSTANTS
    root = root
    top = top
    sub = sub
    leaf = leaf
    back = back
    away = away
    other = other
    Procs = {p1}
    Nodes <- MCNodes
    Root = root
    Up <- MCUp
    Target <- MCTarget
    Trees <- MCTrees
    Calls <- MCCalls
    Umask = {"others"}
    MaxDepth = 4
    NoCall = NoCall
INVARIANT RemovesOnlyBelow
CHECK_DEADLOCK FALSE
