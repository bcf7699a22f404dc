SPECIFICATION FairSpec
CONSTANTS
    Users = {u1, u2}
    NSeats = 1
    Returning = {}
    MaxConns = 1
    MaxCalls = 1
    MaxWaiting = 2
    MaxBoots = 2
    Empty = Empty
    Free = Free
    Leaked = Leaked
INVARIANTS ReservedIsFree ReservationExpires
PROPERTIES NobodyIsSkipped WaiterAdvances
CHECK_DEADLOCK FALSE
