CONSTANTS
    BUF_SIZE = 2
    FileSizes <- MCAllSizes
    Faults = {"lose_info", "lose_data", "lose_ack", "dup_data", "overtake", "early_alarm"}
    MaxFaults = 3
    MaxCopies = 2
SPECIFICATION FairSpec
INVARIANTS
    WrittenIsPrefix
    InStep
PROPERTIES
    ChunkTransferSpec
    EndsOrLoses
CHECK_DEADLOCK FALSE
