\* Three members, two of which stand for election in one term; one failure or unmount, and one mount after it.  All mounts can end up fenced.
SPECIFICATION Spec
CONSTANTS
    m1 = m1
    m2 = m2
    m3 = m3
    None = None
    Slot = {m1, m2, m3}
    Standers = {m1, m2}
    Leavers = {m1, m2}
    Fault = {"agent", "crash", "io", "server"}
    MaxTerm = 1
    MaxRid = 4
    MaxFaults = 1
INVARIANTS
    FencesWhatItReads
SYMMETRY Symmetry
CHECK_DEADLOCK FALSE
