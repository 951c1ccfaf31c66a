CONSTANTS
    N = 2
    DataWords <- MCWords
    Counts = {1, 2}
    Searches <- MCSearches
    MaxLines = 3
    Limit = 2
SPECIFICATION EngineSpec
INVARIANTS
    FindsEachMatchOnce
    SendsMostSearched
    PrefixesDisplayed
CHECK_DEADLOCK FALSE
