\* Three markets: whole fills with errors and rejections, partial fills with
\* cancels that race, and everything that may go wrong in the broker at once.
CONSTANTS
    Qty = 3
    MaxEntries = 2
    CancelRetries = 2
    FaultModels = {
        {"status", "cancel", "reject", "sl"},
        {"partial", "race", "status", "cancel", "price"},
        {"partial", "race", "cancel", "reject", "fail", "sl", "exit", "disk"} }
SPECIFICATION Spec
INVARIANTS TypeOK NeverOversold OneTradePerEntry LapsedIsSettled NoUnprotectedUnits
PROPERTIES ImplementsSlot
CHECK_DEADLOCK FALSE
