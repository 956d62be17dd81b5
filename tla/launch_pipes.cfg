SPECIFICATION FairSpec
CONSTANTS
    Threads = {t1, t2}
    Pids = {p1, p2}
    NoPid = NoPid
    NoThread = NoThread
    Methods = {"pipe_in"}
    Outputs <- MixedOutputs
    PipeCapacity = 1
    Interrupts = {t1}
CHECK_DEADLOCK FALSE
INVARIANTS
    LeaksOnlyOnFailure
PROPERTIES
    PipeInRunsCommand
    PipeInReturnsUnlessStuck
    TermEnds
