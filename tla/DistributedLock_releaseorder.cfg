SPECIFICATION Spec
CONSTANTS
    m1 = m1
    m2 = m2
    m3 = m3
    t1 = t1
    t2 = t2
    t3 = t3
    NoThread = NoThread
    NoRecord = NoRecord
    Machines = {m1, m2, m3}
    Threads = {t1, t2, t3}
    Uses <- TwoThreads
    MaxEntries = 2
INVARIANTS
    FarmExclusion
CHECK_DEADLOCK FALSE
