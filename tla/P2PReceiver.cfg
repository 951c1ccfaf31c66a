CONSTANTS
    N = 3
    S = 4
    Me = 1
SPECIFICATION FairSpec
INVARIANTS
    ExactUntilMainWaits
    WokenWhenDone
    FloodsWhenMeshed
PROPERTY
    EndsOrLoses
CHECK_DEADLOCK FALSE
