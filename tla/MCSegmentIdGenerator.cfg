CONSTANTS
    Request = {r1, r2, r3, r4}
    Step = 2
    MaxRetries = 1
    None = None
SYMMETRY Symmetry
SPECIFICATION Spec
INVARIANTS
    UniqueIds
PROPERTIES
    IncreasingWhileIntact
