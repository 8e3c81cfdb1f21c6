CONSTANTS
    Room <- MCRoom
    None = None
    Call = {c1}
    Values <- MCValues
    Starts <- MCStarts
    Asks <- MCAsks
    ProviderSets <- MCProviders
    MaxChanges = 1
    MaxDepth = 4
SPECIFICATION FairSpec
INVARIANTS
    TypeOK
    AnswerIsExact
    GrantWasDue
PROPERTY ChecksEnd
