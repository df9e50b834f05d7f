\* One mount creates the file and may crash, the other opens and unlinks it; the server may fail.  A deleted file stays deleted.
SPECIFICATION FairSpec
CONSTANTS
    m1 = m1
    m2 = m2
    None = None
    Mount = {m1, m2}
    Creators = {m1}
    Unlinkers = {m2}
    Linkers = {m1}
    Scanners = {m2}
    Leavers = {m2}
    Crashers = {m1}
    Prompt = TRUE
    MaxFailovers = 1
INVARIANTS
    InUseNotDeleted
    OrphanTracked
    OneDeleter
PROPERTIES
    UnlinkedDeleted
ACTION_CONSTRAINT FailsCollecting
CHECK_DEADLOCK FALSE
