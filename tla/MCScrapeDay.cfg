SPECIFICATION FairSpec
CONSTANTS
    Ids = {1, 2, 3, 4}
    DayEnd = 3
    NegWindow = 2
    Floor = 1
    NegFloor = 2
    Chunk = 2
    PageCap = 2
    RateRetries = 1
    Relays <- TrustedRelays
    Held <- FewHeld
    MaxUnits = 2
    MaxFaults = 1
CHECK_DEADLOCK FALSE
INVARIANTS
    DoneIsComplete
    CountedOnce
PROPERTIES
    UnitEnds
    DayIsFetched
