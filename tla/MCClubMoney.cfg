SPECIFICATION Spec
CONSTANTS
    Tables = {t1, t2}
    BuyIns = {1, 2}
    Limit = 2
    Bets = {1}
    Gains = {0, 2}
    MaxBuyIns = 3
    MaxHands = 1
    MaxRestarts = 1
    MaxResets = 1
SYMMETRY TableSymmetry
CONSTRAINT FewSlips
INVARIANTS
    StakesAreCounted
    HandsAreBooked
    LimitHolds
CHECK_DEADLOCK FALSE
