\* Four lots in three targets, or together at the third: everything but partial
\* fills going wrong, then refused orders, then partial fills.
CONSTANTS
    Qty = 4
    LotSize = 1
    Modes = {"multi_lot", "single_lot"}
    SingleTarget = 3
    MaxStops = 2
    MaxBooked = 5
    FaultModels = {
        {"status", "cancel", "modify", "dead", "replace"},
        {"replace", "exit", "target", "dead"},
        {"partial", "modify"} }
SPECIFICATION FairSpec
INVARIANTS RemainderCovered ClosedSoldAll BookedWasSold ClosedOrWarned
PROPERTIES StopOnlyRises FilledExitCloses
CHECK_DEADLOCK FALSE
