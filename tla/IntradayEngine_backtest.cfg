\* Two indices of a day, five timestamps, prices below, at and between stop,
\* entry and targets, and a loss limit that one trade can reach.
CONSTANTS
    Indices = 2
    ExitModes = {"multi_lot", "single_lot"}
    Lots = 3
    SingleLotTarget = 3
    Trigger = 4
    AlertRange = 2
    PositionPct = 80
    FirstStop = 2
    StopDistance = 3
    MaxGap = 3
    Slip = 1
    LossLimit = 4
    Capitals = {30}
    LastEntry = 1
    SquareOff = 4
    LastBar = 4
    Prices = {1, 2, 3, 5, 6, 7, 9, 10}
SPECIFICATION ReplaySpec
INVARIANTS
    BooksBalance
    FillsPossible
CHECK_DEADLOCK FALSE
