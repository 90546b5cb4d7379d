SPECIFICATION Spec
CONSTANTS
    t1 = t1
    t2 = t2
    s1 = s1
    s2 = s2
    parent = parent
    NoThread = NoThread
    NoEntry = NoEntry
    Threads = {t1, t2}
    Sources = {s1, s2}
    Parent = parent
    Called = {parent, s1}
    Uses <- SomeUses
    MaxWrites = 1
    MaxAsync = 4
SYMMETRY Symmetry
INVARIANTS
    TypeOK
    SyncIsFresh
PROPERTIES
    GetIsFresh
