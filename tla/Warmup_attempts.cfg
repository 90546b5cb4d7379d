SPECIFICATION WarmupFairSpec
CONSTANTS
    r1 = r1
    r2 = r2
    r3 = r3
    t1 = t1
    t2 = t2
    t3 = t3
    NoList = NoList
    Requests = {r1, r2, r3}
    Static = {r1}
    Pool = {t1, t2, t3}
INVARIANTS
    WarmupTypeOK
    OneInitialization
PROPERTIES
    EveryoneGoesOn
CHECK_DEADLOCK FALSE
