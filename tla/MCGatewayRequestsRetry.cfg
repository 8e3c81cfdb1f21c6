CONSTANTS
    r1 = r1
    r2 = r2
    r3 = r3
    k1 = k1
    p1 = p1
    p2 = p2
    Request = {r1, r2, r3}
    Pod = {p1, p2}
    Key = {k1}
    None = None
    Batches <- MCBatches
    FaultSets <- MCFaults
SPECIFICATION Spec
INVARIANT ProcessedOnce
