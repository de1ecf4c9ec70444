CONSTANTS
    Routes = {"responses-messages"}
    MaxItems = 1
    MaxPieces = 2
    Usages <- MCUsages
    Measured = 20
    CountedChars = 3
SPECIFICATION Spec
INVARIANT RefusalReaches
CHECK_DEADLOCK FALSE
