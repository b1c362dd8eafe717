SPECIFICATION Spec
CHECK_DEADLOCK FALSE
CONSTANTS
    Promoters = {c1, c2}
    Proposals <- MCProposals
    MaxTime = 1
    MaxLosses = 1
    None = None
    m1 = m1
    m2 = m2
SYMMETRY MCSymmetry
INVARIANT
    ApprovalInForce
