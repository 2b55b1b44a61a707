\* Two trades, two failed writes, four passes at the least in the square-off.
CONSTANTS
    FlattenAfter = 2
    HaltAfter = 3
    LongPass = 2
    SqPasses = 4
    MaxTrades = 2
    MaxFaults = 2
SPECIFICATION FairSpec
INVARIANTS ExitOnce BlindIsBounded
PROPERTIES SessionEnds
CHECK_DEADLOCK FALSE
