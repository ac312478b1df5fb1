SPECIFICATION Spec
CONSTANTS
    Inventory <- MCTwo
    Configs   <- MCConfigs
    UserFiles <- MCUserFiles
    MaxRuns   = 2
    Faults    <- MCAllFaults
INVARIANTS
    TypeOK
    ExitTellsBackups
    SummaryTellsFiles
    CommitIsComplete
CHECK_DEADLOCK FALSE
