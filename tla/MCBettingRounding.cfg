SPECIFICATION Spec
CONSTANTS
    N = 2
    SmallBlind = 2
    BigBlind = 4
    Chip = 2
    MaxRake = 1
    Limit = "glPotLimit"
    Stacks = {4, 10}
    BetSizes = {8}
    MaxHands = 2
    MaxAddOns = 1
    MaxLeavers = 0
PROPERTIES
    PayoutWithinRounding
CHECK_DEADLOCK FALSE
