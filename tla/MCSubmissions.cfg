SPECIFICATION FairSpec
CONSTANTS
    j1 = j1  j2 = j2  e1 = e1  e2 = e2
    NoJob = NoJob  Bad = Bad
    Jobs = {j1, j2}
    Workers = {"w1"}
    Events = {e1, e2}
    Content <- MCContent
    Databases = {j2}
    NoPage = NoPage
    MaxDepth = 4
    MaxValue = 1
    MaxDicts = 2
    DbVersion = 3
    Undecodable = Bad
    TestTrees <- MCTestTrees
    BatchLines = 2
    MaxConcurrent = 1
    EarlyClaims = FALSE
    MaxErrors = 1
    MaxStops = 1
    MaxTimeouts = 1
    MaxKills = 1
INVARIANTS
    ResumeSkipsNothing
    CountsAddUp
    ArchivedIsHandedOver
    WalkIsExact
PROPERTIES
    AcceptedIsProcessed
