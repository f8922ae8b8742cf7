\* A worker and a web process, restarted by one operation.
SPECIFICATION FairSpec
CONSTANTS
    MaxInstances = 2
    Web <- SecondIsWeb
    Values = {"a", "b"}
    DefaultValue = "a"
    MaxRevisions = 3
    MaxSessions = 3
    MaxOperations = 1
    Circumstances = {"crash", "failed writes", "late"}
INVARIANTS OneTargetAtATime
PROPERTIES ExitsWhenAwaited EveryOperationEnds
\* The bounds on sessions, revisions and operations stop every behaviour.
CHECK_DEADLOCK FALSE
