SPECIFICATION FairSpec
CONSTANTS
    Kernels = {k1, k2}
    Requests = {r1}
    LeaseTicks = 1
    None = None
PROPERTIES
    UnknownOutcomesMarked
CHECK_DEADLOCK FALSE
