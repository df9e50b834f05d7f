\* Mounts that write without reading, one of which shrinks its lock and may be lost.
SPECIFICATION FairSpec
CONSTANTS
    m1 = m1
    m2 = m2
    Client = {m1, m2}
    Writer = m2
    MaxCallers = 1
    CallModes <- WriteOnly
    Shrinkers = {m1}
    Touchers = {}
    Keepers = {}
    Leavers = {}
    Victims = {m1}
INVARIANTS
    LockInv
PROPERTIES
    RequestAnswered
