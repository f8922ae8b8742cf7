\* One export through everything that can happen to it, to its end.
SPECIFICATION FairSpec
CONSTANTS
    MaxJobs = 1
    Resumes = {r1}
    Users = {}
    Anonymous = Anonymous
    Sessions = {s1, s2}
    NoSession = NoSession
    QueueLimit = 1
    MaxActivePerUser = 1
    Limits = {1}
    MaxAttempts = 2
    Circumstances = {"cancel", "trash", "slow", "crash", "database", "overdue"}
INVARIANTS TypeOK TrashedExportsAreStopped
PROPERTIES FlaggedIsNeverServed WithdrawnStaysWithdrawn CompletedByHolder
PROPERTY UnfinishedExportEnds
CHECK_DEADLOCK FALSE
