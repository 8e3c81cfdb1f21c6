CONSTANTS
    Device = {d1}
    Request = {r1, r2, r3}
    None = None
    SlowHolders = TRUE
SYMMETRY Symmetry
SPECIFICATION Spec
INVARIANT
    RefreshTokenSingleUse
