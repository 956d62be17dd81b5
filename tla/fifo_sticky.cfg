SPECIFICATION Spec
CONSTANTS
    Connections = {c1, c2}
    MAX_MESSAGE_LEN = 3
    Lengths = {1, 3}
    PipeSize = 3
INVARIANT EmptyOnlyWithoutBlocking
CHECK_DEADLOCK FALSE
