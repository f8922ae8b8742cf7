\* Two runs of two resumes that share an account.
SPECIFICATION Spec
CONSTANTS
    MaxRuns = 2
    u1 = u1
    Users = {u1}
    MonthlyLimits = {2}
    Reservations = {1}
    Charges = {1, 2}
    Resumes = {r1, r2}
    OwnerOf <- OneOwner
    Workers = {w1}
    NoWorker = NoWorker
    MaxConcurrentRuns = 2
    MaxResolutions = 1
    Circumstances = {"slow", "database"}
SYMMETRY Symmetry
INVARIANTS RunsOnOpenReservation AdmissionLimits
PROPERTY ImplementsQuota
CHECK_DEADLOCK FALSE
