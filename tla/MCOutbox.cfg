SPECIFICATION FairSpec
CONSTANTS
    i1 = i1
    i2 = i2
    e1 = e1
    s1 = s1
    a1 = a1
    a2 = a2
    p1 = p1
    None = None
    Intents = {i1, i2}
    Effects = {e1}
    EquityEffects = {}
    Scopes = {s1}
    GrantScopes = {s1}
    ScopeOf <- MCScopeOf
    PackageOf <- MCPackageOf
    Deadline <- MCDeadline
    Approvals = {}
    ApprovedIntent <- MCApprovedIntent
    ApprovedEffect <- MCApprovedEffect
    Profiles = {p1}
    MaxOrders = 2
    MandateTTL = 3
    ApprovalTTL = 2
    PermitTTL = 2
    MaxStale = 0
    MaxClock = 3
    MaxEpoch = 2
    SettleDelay = 2
    SurfaceDelay = 1
CHECK_DEADLOCK FALSE
INVARIANTS
    TypeOK
PROPERTIES
    StopIsFinal
    ImplementsSlots
    EffectsEnd
