CONSTANTS
    Message = {n1, n2, c1, c2, c3}
    CriticalMessage = {c1, c2, c3}
    ConcurrencyLimit = 2
    MaxNormalQueue = 1
    MaxCriticalQueue = 2
SPECIFICATION FairPublisherSpec
INVARIANTS
    ConcurrencyBounded
    NoIdleSlot
    QuotaIsolation
PROPERTIES
    CriticalIsAnswered
