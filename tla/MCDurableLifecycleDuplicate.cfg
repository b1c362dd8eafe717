SPECIFICATION Spec
CONSTANTS
    Kernels = {k1, k2}
    Requests = {q1}
    Decision <- NeedsApproval
    Approvers = {a1, a2}
    Damages = {}
    None = None
SYMMETRY Symmetry
INVARIANTS
    DuplicateAnswered
