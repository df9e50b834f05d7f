\* Two mounts that rename two directories of the root into each other.
SPECIFICATION Spec
CONSTANTS
    NsMounts = {"m1", "m2"}
    Names = {"x", "y"}
    MaxIno = 3
    NsOps = 4
    NsFailures = {}
    NsErrors = 0
INVARIANTS
    NoLoops
CHECK_DEADLOCK FALSE
