CONSTANTS
    FILE_COUNT = 2
    FileSizes = {0, 1, 2}
    BUFSIZE = 2
    MaxLeft = 1
    Clients = {c1, c2}
    Sleepers = {c2}
    Blocks = 3
    Capacity = 1
    MAX_CLNT = 3
    Nobody = Nobody
SPECIFICATION MCSpec
INVARIANTS
    FilesApart
    WholeFile
PROPERTIES
    PromptAgain
    Served
CHECK_DEADLOCK FALSE
