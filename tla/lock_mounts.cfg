\* A mount that writes, and one that reads, keeps an inode, shrinks, unmounts and may be lost.
SPECIFICATION Spec
CONSTANTS
    m1 = m1
    m2 = m2
    Client = {m1, m2}
    Writer = m2
    MaxCallers = 1
    CallModes <- OneWriter
    Shrinkers = {m1}
    Touchers = {m1, m2}
    Keepers = {m1}
    Leavers = {m1}
    Victims = {m1}
INVARIANTS
    TypeOK
    Coherence
    
    InodeCoherence
    RefreshGenIncreases
