SPECIFICATION Spec
CONSTANTS
    p1 = p1
    p2 = p2
    m1 = m1
    m2 = m2
    None = None
    Procs = {p1, p2}
    Manifests = {m1, m2}
    Targets <- MCTargets
    Starts <- MCStarts
    MaxPrograms = 3
    MaxCrashes = 1
SYMMETRY MCSymmetry
CHECK_DEADLOCK FALSE
INVARIANTS
    TypeOK
    HolderIsNamed
    NeverRolledBack
    ProjectionIsPast
    RunnerOnce
PROPERTIES
    ImplementsLog
