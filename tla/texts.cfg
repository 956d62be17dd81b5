\* Vectors, maps, paths and sizes with every edge of their texts.
SPECIFICATION Spec
CONSTANTS
    STRING_SEPARATOR = ";"
    MAP_ENTRY_SEPARATOR = ":"
    PATH_SEPARATOR = ":"
    Canonical <- RealPath
    FILE_PROTOCOL <- FileProtocol
    KILOBYTE = 3
    INT_MAX = 27
    MaxVector = 3
    MaxMap = 2
    MaxPath = 2
    MaxSize = 800
INVARIANTS TextsReadBack SizesAddUp
CHECK_DEADLOCK FALSE
