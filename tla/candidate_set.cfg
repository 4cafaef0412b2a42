SPECIFICATION Spec
CONSTANTS
    Asms = {a1, a2}
    Other = Other
    None = None
    Archives = {"archive"}
    Plain = {"tool"}
    Sums = "sums"
    MaxEdits = 2
    MaxFaults = 1
    MaxCrashes = 1
INVARIANTS
    VerifiedAtOneMoment
    StageIsTransient
PROPERTIES
    OutputNeverReplaced
SYMMETRY Interchangeable
