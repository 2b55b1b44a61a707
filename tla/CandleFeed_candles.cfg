\* Five bars of two polls, a history of two bars, one restart: gaps of one to
\* three missing bars, and histories restored, filled and trimmed.
CONSTANTS
    Polls = 2
    LastBar = 4
    MaxBars = 2
    MaxRestarts = 1
SPECIFICATION Spec
INVARIANTS OwnBarsInOrder BreakerTracksGaps
CHECK_DEADLOCK FALSE
