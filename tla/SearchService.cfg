CONSTANTS
    Clients = {c1, c2}
    MaxWord = 2
    MaxKeys = 3
    MAX_CLNT = 3
    None = None
SPECIFICATION FairSpec
INVARIANTS
    CountMatches
    OwnDescriptor
    AnswersToAsker
PROPERTY
    LastWordShown
CHECK_DEADLOCK FALSE
