\* Liveness: one merge with everything that can go wrong.
SPECIFICATION FairSpec
CONSTANTS
    Users = {u1, u2}
    NoUser = NoUser
    Executors = {e1, e2}
    MaxAttempts = 1
    Work = {w1}
    MaxRetries = 2
    Circumstances = {"slow", "crash", "database", "unlink"}
INVARIANTS TypeOK
PROPERTIES EveryMergeEnds
CHECK_DEADLOCK FALSE
