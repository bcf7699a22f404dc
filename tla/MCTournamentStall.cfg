SPECIFICATION FairSpec
CONSTANTS
    Players = {p1, p2, p3, p4}
    NTables = 2
    PerTable = 2
    Starting = 1
    MaxOthers = 0
PROPERTIES MergedOrWon
CHECK_DEADLOCK FALSE
