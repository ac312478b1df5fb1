SPECIFICATION Spec
CONSTANTS
    Inventory <- MCTwo
    Configs   <- MCConfigs
    UserFiles <- MCNone
    MaxRuns   = 2
    Faults    <- MCHangs
INVARIANT
    GitIsNonFatal
CHECK_DEADLOCK FALSE
