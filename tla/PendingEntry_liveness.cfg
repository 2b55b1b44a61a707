CONSTANTS
    Qty = 2
    MaxEntries = 1
    CancelRetries = 3
    FaultModels = {
        {"status", "cancel", "reject", "sl"},
        {"partial", "race", "status", "cancel", "price"},
        {"partial", "race", "cancel", "reject", "fail", "sl", "exit", "disk"} }
SPECIFICATION FairSpec
PROPERTIES FilledGetsManaged EntryResolves
CHECK_DEADLOCK FALSE
