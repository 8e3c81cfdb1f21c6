CONSTANTS
    Device = {d1, d2}
    Request = {r1, r2, r3, r4}
    None = None
    SlowHolders = FALSE
SYMMETRY Symmetry
SPECIFICATION Spec
PROPERTY
    RemovalIsFinal
