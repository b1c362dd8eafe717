SPECIFICATION FairSpec
CONSTANTS
    Kernels = {k1, k2, k3}
    Requests = {r1}
    LeaseTicks = 2
    None = None
INVARIANTS
    TypeOK
    IntentBeforeEffect
    LedgerMatchesRow
    ToldIsDurable
PROPERTIES
    CompletedEffectKept
    ImplementsEffectOnce
    EventuallyResolved
CHECK_DEADLOCK FALSE
