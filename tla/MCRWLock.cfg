SPECIFICATION FairSpec
CONSTANTS
    r1 = r1
    r2 = r2
    w1 = w1
    w2 = w2
    Readers <- MCReaders
    Writers <- MCWriters
    Timed <- TimedBoth
INVARIANTS
    Exclusion
PROPERTIES
    ImplementsIdealLock
    EveryCallIsServed
CHECK_DEADLOCK FALSE
