SPECIFICATION Spec
CONSTANTS
    IBUFSIZE = 5
    CharSize = 4
    MaxRead = 2
INVARIANTS
    RingHoldsText
    OneCommandPerLine
    NoLineStuck
