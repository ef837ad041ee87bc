SPECIFICATION HistorySpec
CONSTANTS
    f1 = f1  f2 = f2  f3 = f3
    a = a  b = b  c = c  d = d  e = e
    Deps <- MCDeps
    Wants <- MCWants
    CreatedAt <- MCCreatedAt
    Dump <- MCDump
    Analyses = {1, 2, 3}
    Events = {a, c, d, e}
    Files = {f1, f3}
    LiveEvents = {d, e}
    Now = 6
    Lag = 1
    Skew = 1
    MaxBoundary = 2
    RefreshEvery = 2
    Server = FALSE
    TornSaves = TRUE
    BusyResets = FALSE
    IoErrors = TRUE
    MaxStarts = 3
    MaxResets = 0
    MaxStops = 1
    MaxKills = 1
INVARIANTS
    BackfilledIsComplete
    DependentsSeeCompleteWorld
    RebuildCountsOnce
    FreshIsConsumed
