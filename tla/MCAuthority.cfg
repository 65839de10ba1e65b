SPECIFICATION AuthSpec
CONSTANTS
    i1 = i1
    i2 = i2
    e1 = e1
    e2 = e2
    s1 = s1
    a1 = a1
    a2 = a2
    a3 = a3
    p1 = p1
    p2 = p2
    None = None
    Intents = {i1, i2}
    Effects = {e1, e2}
    EquityEffects = {e2}
    Scopes = {s1}
    GrantScopes = {s1}
    ScopeOf <- MCScopeOf
    Deadline <- MCDeadline
    Approvals = {a1, a2, a3}
    ApprovedIntent <- MCApprovedIntent
    ApprovedEffect <- MCApprovedEffect
    Profiles = {p1, p2}
    MaxOrders = 1
    MandateTTL = 2
    ApprovalTTL = 2
    PermitTTL = 2
    MaxStale = 1
    MaxClock = 3
    MaxEpoch = 2
CHECK_DEADLOCK FALSE
INVARIANTS
    AuthTypeOK
    BudgetHeld
    OneAuthorityPerIntent
