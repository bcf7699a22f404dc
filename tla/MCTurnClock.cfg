SPECIFICATION FairSpec
CONSTANTS
    Seats = {s1, s2, s3}
    NoSeat = NoSeat
    Streets = 2
    MaxQueue = 1
INVARIANTS
    ClockIsOfTheTurn
    TurnIsTimed
PROPERTIES
    ForcedInTurn
    TurnEnds
CHECK_DEADLOCK FALSE
