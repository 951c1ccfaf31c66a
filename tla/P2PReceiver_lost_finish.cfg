CONSTANTS
    N = 2
    S = 2
    Me = 1
SPECIFICATION FairSpec
PROPERTY
    MainGoesOn
CHECK_DEADLOCK FALSE
