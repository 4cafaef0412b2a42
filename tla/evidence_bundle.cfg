SPECIFICATION Spec
CONSTANTS
    Pubs = {p1, p2}
    MaxSeq = 2
    None = None
    MaxFaults = 3
    MaxCrashes = 1
    MaxLosses = 1
INVARIANTS
    TypeOK
    VisibleBundleIsWhole
    SuccessIsDurable
    FailureLeavesNoTrace
SYMMETRY Interchangeable
