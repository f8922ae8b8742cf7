\* Three exports for two places and one or two slots, across two sessions.
SPECIFICATION Spec
CONSTANTS
    MaxJobs = 3
    Resumes = {r1}
    Users = {}
    Anonymous = Anonymous
    Sessions = {s1, s2}
    NoSession = NoSession
    QueueLimit = 2
    MaxActivePerUser = 1
    Limits = {1, 2}
    MaxAttempts = 2
    Circumstances = {"crash"}
SYMMETRY Symmetry
INVARIANT QueueCapacity
PROPERTIES FirstComeFirstServed ClaimRespectsLimit
CHECK_DEADLOCK FALSE
