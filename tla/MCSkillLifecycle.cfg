SPECIFICATION LifecycleSpec
CONSTANTS
    Callers = {c1, c2}
    Commands <- MCCommands
    MaxAppends = 1
    None = None
INVARIANTS
    LifecycleTypeOK
    ActiveFollowsHistory
    AppliedAsAuthorized
PROPERTIES
    ImplementsGovernedSkill
