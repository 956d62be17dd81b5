SPECIFICATION Spec
CONSTANTS
    Threads = {t1, t2}
    Pids = {p1, p2}
    NoPid = NoPid
    NoThread = NoThread
    Methods = {"start", "start_and_forget", "pipe_out"}
    Outputs <- OneOutput
    PipeCapacity = 1
    Interrupts = {}
SYMMETRY Symmetry
CHECK_DEADLOCK FALSE
INVARIANTS
    TypeOK
    OwnHandlersOnly
    MaskRestored
    ProgramsTakeSignals
    EndsAreTold
    ForgottenForGood
