\* The server fails while no client is invalidating; a client may fail to recover in time.
SPECIFICATION FailFairSpec
CONSTANTS
    m1 = m1
    m2 = m2
    Client = {m1, m2}
    Writer = m2
    MaxCallers = 1
    CallModes <- OneWriter
    Shrinkers = {}
    Touchers = {m2}
    Keepers = {m1}
    Leavers = {}
    Victims = {}
    MaxFailovers = 1
    FailsDuring = {"quiet"}
    TimesOut = {m1}
INVARIANTS
    Coherence
PROPERTIES
    ImplementsModes
    RequestAnswered
