SPECIFICATION Spec
CONSTANTS
    Users = {u1, u2}
    NSeats = 2
    Returning = {}
    MaxConns = 1
    MaxCalls = 2
    MaxWaiting = 0
    MaxBoots = 0
    Empty = Empty
    Free = Free
    Leaked = Leaked
INVARIANTS SeatedIsPresent OneSeatEach
PROPERTIES DeletedWithoutStacks
SYMMETRY Symmetry
CHECK_DEADLOCK FALSE
