\* A worker, its restart, and two publications among drafts and rollbacks, with every failure of
\* the database connection and a worker that may be unable to decode a revision.
SPECIFICATION FairSpec
CONSTANTS
    MaxInstances = 1
    Web <- OnlyWorker
    Values = {"a", "b"}
    DefaultValue = "a"
    MaxRevisions = 4
    MaxSessions = 3
    MaxOperations = 1
    Circumstances = {"crash", "slow", "failed reads", "deafness", "unreadable"}
INVARIANTS TypeOK HealthIsTruthful HealthyTargetsRunDesired
PROPERTIES PublicationsAreLinear EveryProcessConverges
\* The bounds on sessions and revisions stop every behaviour.
CHECK_DEADLOCK FALSE
