\* A server that fails, and a request between the two parts of a greeting.
SPECIFICATION Spec
CONSTANTS
    m1 = m1
    m2 = m2
    None = None
    Mount = {m1, m2}
    Creators = {m1}
    Unlinkers = {m2}
    Linkers = {}
    Scanners = {}
    Leavers = {}
    Crashers = {}
    Prompt = FALSE
    MaxFailovers = 1
INVARIANTS
    InUseNotDeleted
CHECK_DEADLOCK FALSE
