SPECIFICATION Spec
CONSTANTS
    k1 = k1
    k2 = k2
    k3 = k3
    c1 = c1
    c2 = c2
    c3 = c3
    c4 = c4
    c5 = c5
    p1 = p1
    p2 = p2
    i1 = i1
    None = None
    Commands = {c1, c2, c3}
    Keys = {k1, k2}
    KeyOf <- MCSharedKey
    Kind <- MCFlatten
    IssuedAt <- MCIssued
    ExpiresAt <- MCExpires
    Proposals = {p1}
    ProposalOf <- MCProposal
    Intents = {i1}
    IntentOf <- MCIntent
    MaxSkew = 1
    MaxPerPass = 1
    MaxClock = 2
    MaxCrashes = 1
    MaxForeign = 0
    Touchable = {}
    AuditFaults = FALSE
    ReadFaults = FALSE
    StartFaults = TRUE
    ApplyFaults = FALSE
CHECK_DEADLOCK FALSE
INVARIANTS
    StopsBeforeLoop
