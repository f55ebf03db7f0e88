SPECIFICATION Spec
CONSTANTS
    Missing = Missing
    Torn = Torn
    Life = 2
    RenewBefore = 1
    MaxGenerations = 3
    MaxTime = 4
INVARIANTS
    CAVouches
    CAStable
PROPERTIES
    FreshAtStart
CHECK_DEADLOCK TRUE
