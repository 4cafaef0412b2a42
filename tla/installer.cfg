SPECIFICATION Spec
CONSTANTS
    Versions = {v1, v2, v3}
    None = None
    MaxMishaps = 3
INVARIANTS
    FormerKept
    AllOrNothing
SYMMETRY Interchangeable
