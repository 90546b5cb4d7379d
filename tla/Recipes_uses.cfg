SPECIFICATION FairSpec
CONSTANTS
    Executions = {1, 2}
    Names = {"a", "b", "c"}
    Uses <- SomeUses
INVARIANTS
    TypeOK
    RecordedAsDone
    NothingLeft
PROPERTIES
    RunsInOrder
    EveryExecutionEnds
CHECK_DEADLOCK FALSE
