SPECIFICATION FairHistorySpec
CONSTANTS
    f1 = f1  f2 = f2  f3 = f3
    a = a  b = b  c = c  d = d  e = e
    Deps <- MCDeps
    Wants <- MCWants
    CreatedAt <- MCCreatedAt
    Dump <- MCDump
    Analyses = {1, 2, 3}
    Events = {a, b}
    Files = {f1}
    LiveEvents = {b}
    Now = 6
    Lag = 1
    Skew = 1
    MaxBoundary = 2
    RefreshEvery = 2
    Server = TRUE
    TornSaves = FALSE
    BusyResets = FALSE
    IoErrors = FALSE
    MaxStarts = 1
    MaxResets = 1
    MaxStops = 0
    MaxKills = 1
INVARIANTS
    DependenciesFirst
PROPERTIES
    IngestEnds
    ResetIsRefilled
