CONSTANTS
    Indices = {"NIFTY", "SENSEX", "BANKNIFTY"}
    OptTypes = {"CE", "PE"}
    Strikes = {1}
    MaxCorrelated = 1
    MaxPremium = 2
    MaxLosses = 2
SPECIFICATION Spec
INVARIANTS TypeOK OnePerIndex PendingWithinLimit SlotsByPriority BackedOrWarned
PROPERTY BreakerStops
CHECK_DEADLOCK FALSE
