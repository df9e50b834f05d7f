\* Two members that elect themselves in two terms and fence each other.  Both can end up fenced.
SPECIFICATION FairSpec
CONSTANTS
    m1 = m1
    m2 = m2
    None = None
    Slot = {m1, m2}
    Standers = {m1, m2}
    Leavers = {}
    Fault = {}
    MaxTerm = 2
    MaxRid = 2
    MaxFaults = 0
PROPERTIES
    OldServerStops
    StopIsRecorded
CHECK_DEADLOCK FALSE
