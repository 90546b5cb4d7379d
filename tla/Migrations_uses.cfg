SPECIFICATION FairSpec
CONSTANTS
    Scopes = {"s1", "s2"}
    Features = {"A", "B", "C", "D"}
    Classes = {"a1", "a2", "b", "c", "d"}
    Uses <- SomeUses
INVARIANTS
    TypeOK
    WholeMigrations
    DependenciesFirst
    LeavesUpToDate
PROPERTIES
    EveryScopeEnds
CHECK_DEADLOCK FALSE
