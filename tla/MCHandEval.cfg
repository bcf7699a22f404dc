SPECIFICATION Spec
CONSTANTS
    R = 6
    Sizes = {5, 7}
    Boards <- MCBoards
INVARIANTS
    DagIsBest
    MasksAreBest
    OmahaIsBest
CHECK_DEADLOCK FALSE
