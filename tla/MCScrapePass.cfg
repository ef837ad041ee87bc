SPECIFICATION FairSpec
CONSTANTS
    Urls = {1, 2}
    Advertisers <- FewAdvertisers
    MinSources = 1
    Pins = {1, 2}
    Healthy = {1}
    Concurrency = 2
    BlockDays = 1
    PctMin = 80
    PctMax = 80
    BackoffUnit = 1
    BackoffLimit = 1
    DeadAfter = 1
    NeverFactor = 1
    DeadFor = 1
    Recheck = 1
    Old = {1}
    Today = 1
    MaxToday = 2
    MaxEvents = 1
CHECK_DEADLOCK FALSE
INVARIANTS
    OneUnitPerRelay
    SkippedIsDone
    RecentAnswerKeepsAlive
PROPERTIES
    Covered
    SetAsideIsRetried
