SPECIFICATION ARSpec
CONSTANTS
    Nothing = Nothing
    Originals <- AllKinds
    Targets <- BypassTargets
    Leases <- TwoLeases
    Failing = {"reenable"}
INVARIANTS RestoredCompletely UndoIsPossible BypassLeavesAdapter
