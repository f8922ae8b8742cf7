\* Is what is on the screen kept, and does it get saved, though requests fail and tabs
\* close and open again?
SPECIFICATION FairSpec
CONSTANTS
    Docs = {d1, d2}
    NoDoc = NoDoc
    MaxVersions = 2
    MaxEdited = 2
    MaxSummarized = 0
    Slots = {1, 2}
    MaxWaiters = 1
    Circumstances = {"elsewhere", "crash", "publish", "failures", "trash"}
INVARIANTS TypeOK UnsavedEditsAreDrafted
PROPERTY EveryEditIsSaved
CHECK_DEADLOCK FALSE
