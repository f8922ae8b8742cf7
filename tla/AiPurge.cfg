\* Does a purge wait for the settlement?
SPECIFICATION Spec
CONSTANTS
    MaxRuns = 1
    u1 = u1
    Users = {u1}
    MonthlyLimits = {1}
    Reservations = {1}
    Charges = {1}
    Resumes = {r1}
    OwnerOf <- OneOwner
    Workers = {w1}
    NoWorker = NoWorker
    MaxConcurrentRuns = 1
    MaxResolutions = 1
    Circumstances = {"crash", "database", "trash"}
INVARIANT PurgeWaitsForSettlement
CHECK_DEADLOCK FALSE
