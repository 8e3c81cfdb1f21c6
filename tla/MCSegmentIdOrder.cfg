CONSTANTS
    Request = {r1, r2, r3}
    Step = 2
    MaxRetries = 2
    None = None
SYMMETRY Symmetry
SPECIFICATION Spec
PROPERTY
    StrictlyIncreasing
