CONSTANTS
    Routes = {"responses-messages"}
    MaxItems = 1
    MaxPieces = 2
    Usages <- MCAllCached
    Measured = 20
    CountedChars = 3
SPECIFICATION Spec
INVARIANT BilledOnce
CHECK_DEADLOCK FALSE
