CONSTANTS
    Device = {d1}
    Request = {r1, r2, r3}
    None = None
    SlowHolders = FALSE
SYMMETRY Symmetry
SPECIFICATION Spec
PROPERTY
    SessionKept
