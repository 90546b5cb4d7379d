SPECIFICATION FairSpec
CONSTANTS
    m1 = m1
    m2 = m2
    m3 = m3
    t1 = t1
    t2 = t2
    t3 = t3
    NoThread = NoThread
    NoRecord = NoRecord
    Machines = {m1, m2, m3}
    Threads = {t1, t2, t3}
    Uses <- SomeUses
    MaxEntries = 2
INVARIANTS
    TypeOK
    LocalExclusion
    DisciplinedExclusion
    HolderHasRecord

    
CHECK_DEADLOCK FALSE
