\* An upstream cut off before its listeners are attached.
CONSTANTS
    MaxList = 1
    Cuts = {"unwired"}
SPECIFICATION FairSpec
PROPERTY StreamFailureSettles
CHECK_DEADLOCK FALSE
