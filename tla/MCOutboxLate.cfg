SPECIFICATION Spec
CONSTANTS
    i1 = i1
    i2 = i2
    e1 = e1
    s1 = s1
    a1 = a1
    a2 = a2
    p1 = p1
    None = None
    Intents = {i1, i2}
    Effects = {e1}
    EquityEffects = {}
    Scopes = {s1}
    GrantScopes = {}
    ScopeOf <- MCScopeOf
    PackageOf <- MCPackageOf
    Deadline <- MCDeadline
    Approvals = {a1, a2}
    ApprovedIntent <- MCApprovedIntent
    ApprovedEffect <- MCApprovedEffect
    Profiles = {p1}
    MaxOrders = 2
    MandateTTL = 3
    ApprovalTTL = 2
    PermitTTL = 2
    MaxStale = 1
    MaxClock = 3
    MaxEpoch = 1
    SettleDelay = 2
    SurfaceDelay = 1
CHECK_DEADLOCK FALSE
PROPERTIES
    LapsedNeverSent
