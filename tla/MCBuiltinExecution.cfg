SPECIFICATION SystemSpec
CONSTANTS
    Callers = {c1}
    Commands <- MCCommands
    MaxAppends = 0
    Executors = {x1, x2}
    Executions <- MCExecutions
    GrantTicks = 2
    LeaseTicks = 1
    MaxLosses = 1
    Grants = {1}
    None = None
SYMMETRY MCSymmetry
INVARIANTS
    ExecutionTypeOK
    ConsumedOnActiveSkill
    RunsOnce
    OutcomeAgrees
    ChainIntact
    NobodyStuck
PROPERTIES
    HandlerImplementsEffectOnce
