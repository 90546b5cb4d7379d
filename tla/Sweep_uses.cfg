SPECIFICATION FairSpec
CONSTANTS
    t1 = t1
    t2 = t2
    t3 = t3
    Nobody = Nobody
    Threads = {t1, t2, t3}
    Tasks = 3
    Uses <- SomeUses
INVARIANTS
    TypeOK
    QuietAfterTermination
    WholeTasks
PROPERTIES
    TerminateReturns
    EveryTaskRuns
CHECK_DEADLOCK FALSE
