CONSTANTS
    BUF_SIZE = 2
    FileSizes <- MCAllSizes
    Faults = {"lose_data", "dup_data", "dup_ack"}
    MaxFaults = 3
    MaxCopies = 2
SPECIFICATION Spec
INVARIANTS
    WrittenInOrder
CHECK_DEADLOCK FALSE
