CONSTANTS
    Receivers = {1, 2, 3, 4}
    N = 3
    Port <- MCDistinctPorts
    MayCrash = {1, 2}
SPECIFICATION FairSpec
INVARIANTS
    NumbersAgree
    PairsConnectOnce
    MeshComplete
PROPERTY
    EveryoneSettles
CHECK_DEADLOCK FALSE
