CONSTANTS
    Device = {d1}
    Request = {r1, r2, r3}
    None = None
    SlowHolders = TRUE
SPECIFICATION FairSpec
PROPERTIES
    LockReleasedByOwner
    LockFreed
