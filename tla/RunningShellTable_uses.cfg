SPECIFICATION Spec
CONSTANTS
    Uses <- SomeUses
INVARIANTS
    TypeOK
    NeverMisrouted
    ClaimsAreMet
PROPERTIES
    AnswersDirectly
