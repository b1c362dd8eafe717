SPECIFICATION Spec
CONSTANTS
    Callers = {c1, c2}
    Submissions <- RacingSubmissions
    Rules <- PolicyRules
    Approvals <- TwoApprovals
    Enforceable = {"write"}
    ActorExpires = 3
    GrantTTL = 2
    ClockSkew = 1
    MaxTime = 3
    None = None
INVARIANTS
    TypeOK
    OneDecisionPerKey
    ReplayFaithful
    RecordMatchesLedger
    IntentAuthorised
    NoUnrecordedEffect
    DispatchInWindow
PROPERTIES
    AuthorityKept
    BrokerImplementsEffectOnce
