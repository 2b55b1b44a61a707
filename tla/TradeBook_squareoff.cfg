SPECIFICATION Spec
CONSTANTS
    MaxEntries = 2
    MaxDays = 2
    MaxCrashes = 1
    MaxFaults = 1
    KeepDays = 0
INVARIANT SessionEndsFlat
CHECK_DEADLOCK FALSE
