\* Two options of an index, three bars: alerts that expire, entries that
\* lapse and are followed by others, and two crashes at any point, also in a
\* startup.
CONSTANTS
    Symbols = {CE, PE}
    Validity = 1
    LastBar = 2
    MaxRestarts = 2
SYMMETRY Alike
SPECIFICATION Spec
INVARIANTS AlertLives
PROPERTIES BarUsedOnce 
CHECK_DEADLOCK FALSE
