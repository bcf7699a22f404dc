SPECIFICATION FairSpec
CONSTANTS
    Users = {u1, u2}
    NSeats = 1
    Returning = {u1}
    MaxConns = 2
    MaxCalls = 1
    MaxWaiting = 0
    MaxBoots = 0
    Empty = Empty
    Free = Free
    Leaked = Leaked
INVARIANTS AwayIsEjected
PROPERTIES AwayEnds
CHECK_DEADLOCK FALSE
