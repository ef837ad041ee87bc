SPECIFICATION FairWriterSpec
CONSTANTS
    e1 = e1  e2 = e2  e3 = e3
    Events = {e1, e2, e3}
    Streamed = {e1, e2}
    QueueSize = 2
    Backlog = 1
    MaxFails = 1
    MaxKills = 1
INVARIANTS
    ClaimedIsDurable
    DrainedIsDurable
PROPERTIES
    ArchivedIsClaimed
