CONSTANTS
    N = 3
    S = 2
    Capacity = 0
SPECIFICATION FairSpec
INVARIANTS
    WholeFile
    OwesNothing
    ReaderOutlivesWriter
    EachSegmentOnce
    SignalNotForgotten
PROPERTIES
    DisseminationSpec
    AllExit
CHECK_DEADLOCK FALSE
