SPECIFICATION Spec
CONSTANTS
    a = a
    b = b
    c = c
    r1 = r1
    r2 = r2
    Features = {a, b, c}
    Deps <- Chain
    Order <- ChainOrder
    Requests = {r1, r2}
    Uses <- SomeUses
SYMMETRY Symmetry
INVARIANTS
    TypeOK
    UpIsSupported
    SettledAtEnd
    HandlersLoaded
    DependenciesEnabled
CHECK_DEADLOCK FALSE
