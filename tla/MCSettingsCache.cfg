CONSTANTS
    Reader = {r1, r2}
    Setter = {w1}
    Seeder = {s1}
    FaultSets <- Extremes
    None = None
SPECIFICATION FairSpec
INVARIANTS
    TypeOK
    OutdatedHasCause
    NullIsFromSource
PROPERTY OutdatedGoes
