\* Two tasks that make changes and sync, and commits that fail and are tried again.
SPECIFICATION FairSpec
CONSTANTS
    t1 = t1
    t2 = t2
    Tasks = {t1, t2}
    MaxDirty = 2
    MaxSyncs = 1
    MaxRetries = 1
INVARIANTS
    SyncCovers
    WriteExclusive
PROPERTIES
    WaitersReturn
