SPECIFICATION Spec
CONSTANTS
    Sids = {"a", "b"}
    Contract <- MCContract
    Scenarios <- MCScenarios
    Quantity <- MCQuantity
    KillSets <- MCKillSets
INVARIANTS TypeOK SavedNeverOverClosed OwnedUntilFlat BookIsTrue FlatIsClosed
PROPERTY ClosedIsFinal
CHECK_DEADLOCK FALSE
