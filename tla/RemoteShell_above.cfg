CONSTANTS
    Clients = {c1, c2}
    Files = {"a"}
    Depth = 2
    StartLevel = 1
    Sizes = {0, 1, 2}
    BUFSIZE = 2
    EPOLL_SIZE = 2
    Disk0 <- MCDisk
    MaxCommands = 4
    None = None
SPECIFICATION Spec
INVARIANT
    NeverAboveStart
CHECK_DEADLOCK FALSE
