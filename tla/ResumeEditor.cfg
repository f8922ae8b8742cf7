\* A tab whose user may do anything, answers that may fail, and other devices.
SPECIFICATION Spec
CONSTANTS
    Docs = {d1, d2}
    NoDoc = NoDoc
    MaxVersions = 2
    MaxEdited = 2
    MaxSummarized = 3
    Slots = {s1, s2}
    MaxWaiters = 2
    Circumstances =
        {"elsewhere", "failures", "trash", "summary", "restore", "proposal"}
SYMMETRY Symmetry
INVARIANT CleanMeansSaved
PROPERTY WritesAreLinear
CHECK_DEADLOCK FALSE
