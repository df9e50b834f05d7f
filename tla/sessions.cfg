\* A quorum member and another mount come and go, with one fault.  Nothing is left to do when both are gone.
SPECIFICATION FairSpec
CONSTANTS
    m1 = m1
    m2 = m2
    Mount = {m1, m2}
    QuorumMount = {m1}
    VotesNeeded = 1
    MaxBreaks = 1
    MaxFailovers = 1
    Crashers = {m2}
    MaxFaults = 1
INVARIANTS
    ReclaimedWhenGone
    ItemLast
    LeavesNothing
PROPERTIES
    
    OthersLeave
    DeadReclaimed
ACTION_CONSTRAINT Timing
CHECK_DEADLOCK FALSE
