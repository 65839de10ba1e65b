SPECIFICATION FairSpec
CONSTANTS
    q = q
    a = a
    b = b
    w1 = w1
    w2 = w2
    o1 = o1
    o2 = o2
    None = None
    Runs = {q, a, b}
    PilotRuns = {a, b}
    QuantRuns = {q}
    Workers = {w1, w2}
    Outcomes = {o1, o2}
    Budget = 2
    MaxControls = 2
    MaxFaults = 1
    MaxCrashes = 1
CHECK_DEADLOCK FALSE
INVARIANTS
    TypeOK
    ComputingIsActive
    WorkIsMetered
PROPERTIES
    StopIsHonoured
    EveryRunEnds
