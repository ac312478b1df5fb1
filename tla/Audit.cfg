SPECIFICATION JobSpec
CONSTANTS
    Inventory <- MCTwo
    Tags      <- MCTags
    Golden    <- MCGolden
    Captures  <- MCCaptures
    Stamps    <- MCStamps
    Options   <- MCOptions
    Faults    <- MCFaults
    StepFaults <- MCSteps
INVARIANTS
    TypeOK
    NoFalsePass
    FinishedIsComplete
    AuditedWasLatest
    OutputsAgree
    JobTellsDrift
CHECK_DEADLOCK FALSE
