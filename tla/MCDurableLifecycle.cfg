SPECIFICATION Spec
CONSTANTS
    Kernels = {k1, k2}
    Requests = {"q1", "q2"}
    Decision <- FirstNeedsApproval
    Approvers = {a1, a2}
    Damages = {"tamper", "delete"}
    None = None
SYMMETRY Symmetry
INVARIANTS
    TypeOK
    ProjectionFollowsLedger
    DispatchOnRecord
    OneAuthority
    CacheOnRecord
