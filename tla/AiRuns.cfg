\* One run through everything that can happen to it.
SPECIFICATION FairSpec
CONSTANTS
    MaxRuns = 1
    u1 = u1
    Users = {u1}
    MonthlyLimits = {1, 2}
    Reservations = {1}
    Charges = {1, 2}
    Resumes = {r1}
    OwnerOf <- OneOwner
    Workers = {w1}
    NoWorker = NoWorker
    MaxConcurrentRuns = 1
    MaxResolutions = 2
    Circumstances = {"slow", "crash", "database", "trash", "quota"}
INVARIANTS TypeOK InterruptedIsUnused
PROPERTIES NeverRunTwice StoppedIsNotCharged ExpiredIsNotCompleted EveryRunEnds
CHECK_DEADLOCK FALSE
