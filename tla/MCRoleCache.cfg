CONSTANTS
    r1 = r1
    r2 = r2
    r3 = r3
    p1 = p1
    p2 = p2
    Reader = {r1, r2, r3}
    Pod = {p1, p2}
    PodOf <- TwoPods
    Writer = {w1}
    FaultSets <- Extremes
    None = None
    Empty = Empty
SPECIFICATION FairRolesSpec
INVARIANTS
    SingleFlight
    StaleOnlyByRace
PROPERTY EveryReadEnds
