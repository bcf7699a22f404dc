SPECIFICATION FairSpec
CONSTANTS
    N = 3
    SmallBlind = 12
    BigBlind = 24
    Chip = 6
    MaxRake = 0
    Limit = "glNoLimit"
    Stacks = {24, 48}
    BetSizes = {}
    MaxHands = 1
    MaxAddOns = 0
    MaxLeavers = 1
INVARIANTS
    SomebodyToAct
    SidePotLaw
    EverybodyActs
    NoAssertionFails
    BookedIsPlayed
    PotsOfTheLiving
PROPERTIES
    Conserved
    AllInStaysIn
    HandEnds
CHECK_DEADLOCK FALSE
