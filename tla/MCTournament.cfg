SPECIFICATION FairSpec
CONSTANTS
    Players = {p1, p2, p3, p4, p5}
    NTables = 2
    PerTable = 3
    Starting = 1
    MaxOthers = 1
INVARIANTS NobodyIsWaitedFor WinnerHasAll
PROPERTIES PlacesStand TablesPlayOn
CHECK_DEADLOCK FALSE
