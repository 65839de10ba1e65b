SPECIFICATION Spec
CONSTANTS
    Sids = {"a", "b"}
    Contract <- MCContract
    Scenarios <- MCOptionOnly
    Quantity <- MCQuantity
    KillSets <- MCKillSets
INVARIANT NeverOverClosed
CHECK_DEADLOCK FALSE
