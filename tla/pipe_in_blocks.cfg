SPECIFICATION FairSpec
CONSTANTS
    Threads = {t1}
    Pids = {p1}
    NoPid = NoPid
    NoThread = NoThread
    Methods = {"pipe_in"}
    Outputs <- MixedOutputs
    PipeCapacity = 1
    Interrupts = {}
CHECK_DEADLOCK FALSE
PROPERTIES
    PipeInReturns
