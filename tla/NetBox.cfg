SPECIFICATION Spec
CONSTANTS
    Traffic <- SomeTraffic
    None = "none"
    Preferred = "none"
    Patience = 2
    Average = 2
    Fraction = 2
    Floor = 1
    MaxErrors = 2
    MaxUpdates = 5
    MaxEvents = 2
INVARIANT TypeOK
INVARIANT TotalsAdd
INVARIANT ScalesFollow
INVARIANT BoxOfOneInterface
CHECK_DEADLOCK FALSE
