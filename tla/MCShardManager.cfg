SPECIFICATION RacedSpec
CONSTANTS
    t1 = t1  t2 = t2
    e1 = e1  e2 = e2  e3 = e3  e4 = e4
    m1 = m1  m2 = m2
    i1 = i1  i2 = i2  i3 = i3
    None = None
    Threads = {t1, t2}
    Events = {e1, e2, e3, e4}
    Months = {m1, m2}
    Insts = {i1, i2}
    MonthOf <- MCMonthOf
    FutureEvents = {e4}
    Cap = 1
    CommitEveryDocs = 2
    Overlap = TRUE
    IoErrors = TRUE
SYMMETRY Symmetry
INVARIANTS
    TypeOK
    NoOrphanWriter
    CounterCoversQueue
    CommitAllCovers
    KeptUnlessRaced
