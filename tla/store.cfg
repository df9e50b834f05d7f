\* Cached items of two keys; two files of two blocks; two mounts and two names; two requests at once that commit.  Operations and commits are bounded.
SPECIFICATION Spec
CONSTANTS
    NKeys = 2
    Room = 2
    MaxItemSeq = 5
    Files = {"f", "g"}
    Archived = {"f"}
    NBlocks = 2
    NData = 3
    DataStart = 9
    Prealloc = 2
    ContigOnly = {TRUE, FALSE}
    LgThresh = 2
    FillLo = 1
    FillTarget = 2
    WholeFile = TRUE
    OrderLen = 2
    DataErrors = 1
    DataOps = 3
    m1 = m1
    m2 = m2
    NsMounts = {m1, m2}
    x = x
    y = y
    Names = {x, y}
    MaxIno = 3
    NsOps = 4
    NsFailures = {"orphan", "add", "del_new", "del_old"}
    NsErrors = 1
    NMeta = 104
    ListMax = 24
    Budget = 6
    Reserved = 12
    MaxCommits = 4
    MaxErrors = 1
    MaxFailovers = 1
INVARIANTS
    
    
    
    DirsExact
    DentriesCurrent
    AppliedIsStable
    MetaBlocksKept
    HoldsFindRoom
SYMMETRY Symmetry
CHECK_DEADLOCK FALSE
