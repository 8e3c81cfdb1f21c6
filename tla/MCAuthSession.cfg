CONSTANTS
    Device = {d1, d2}
    Request = {r1, r2, r3, r4, r5}
    None = None
    SlowHolders = FALSE
SYMMETRY Symmetry
SPECIFICATION Spec
INVARIANTS
    TypeOK
    RefreshTokenSingleUse
    RotationRevokesOnlyDead
PROPERTIES
    ReplayedDeviceStaysOut
    RotationKept
    ImplementsRegistry
