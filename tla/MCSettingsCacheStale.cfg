\* The cache-aside read against an update, with no fault at all: the claim of
\* the settings' README that stale data is removed from the cache is violated.
CONSTANTS
    Reader = {r1}
    Setter = {w1}
    Seeder = {}
    FaultSets <- NoFaults
    None = None
SPECIFICATION Spec
INVARIANT StaleIsRemoved
