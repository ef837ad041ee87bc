SPECIFICATION Spec
CONSTANTS
    MaxTokenBytes = 3
    MinGeohash = 2
    MaxGeohash = 3
    TextKinds = {0, 1}
    MonthLen = 2
    HalfLife = 4
    FutureSkew = 0
    WotWeight = 1
    RecencyWeight = 1
    MaxLimit = 4
    Docs = {1, 2, 3, 4, 5, 6}
    Event <- MCEvent
    Months = {0, 1, 2}
    Genesis = 1
    Now = 4
    MaxOpen = 2
    s1 = s1
    s2 = s2
    w1 = w1
    w2 = w2
    w3 = w3
    g1 = g1
    Searchers = {s1, s2}
    WorkersOf <- MCWorkersOf
    FiltersOf <- MCFiltersOf
    Getters = {g1}
    Wanted = {1}
    Settled <- MCSettled
SYMMETRY WorkerSymmetry
CHECK_DEADLOCK FALSE
INVARIANTS
    SearchIsExact
    FutureDatedNeverWins
    CacheIsBounded
    GetFindsCommitted
PROPERTY WideScanEvictsNothing
