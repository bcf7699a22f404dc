SPECIFICATION RoundsSpec
CONSTANTS
    N = 4
    MaxBet = 2
    MaxRounds = 2
INVARIANTS
    BooksAreRight
    SidePotRules
    NothingUncalled
PROPERTIES
    Ends
CHECK_DEADLOCK FALSE
