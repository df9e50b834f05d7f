\* Two mounts whose log trees are merged, one of which can be lost; and a client that reconnects twice, once to another server.  The server's sequence numbers are bounded.
SPECIFICATION Spec
CONSTANTS
    NMounts = 2
    NKeys = 3
    Totl = {}
    KeySets = {{1, 2, 3}}
    Batch = 2
    MaxSeq = 8
    Victims = {2}
    MaxErrors = 1
    MaxRequests = 2
    MaxSocks = 3
    MaxFailovers = 1
INVARIANTS
    
    NothingLost
    ParentsDisjoint
    MergeNotStuck
    
PROPERTIES
    StableAdvances
CHECK_DEADLOCK FALSE
