\* Every day from 2022 to the end of 2026, with the holidays of the code.
CONSTANTS
    Holidays <- NseHolidays
    SpecialDays <- BudgetDays
    FirstDay <- MCFirstDay
    LastDay <- MCLastDay
SPECIFICATION WalkSpec
INVARIANTS ExpiryRecognised NearestExpiry TradesRealContracts
CHECK_DEADLOCK FALSE
