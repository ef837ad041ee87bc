SPECIFICATION Spec
CONSTANTS
    r1 = r1  r2 = r2
    c1 = c1  c2 = c2
    a = a  b = b
    jan = jan  feb = feb
    None = None
    Batch <- MCBatch
    MonthOf <- MCMonthOf
    Events = {a, b}
    Months = {jan, feb}
    Readers = {r1, r2}
    Chunks = {c1, c2}
    Dedupe = TRUE
    Claimers = {"checkpoint", "sigterm"}
    IoErrors = TRUE
    MaxKills = 1
    MaxReruns = 1
SYMMETRY Symmetry
INVARIANTS
    ClaimedWasAccepted
    ClaimTrailsCommit
    CompletedIsSearchable
