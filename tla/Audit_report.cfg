SPECIFICATION JobSpec
CONSTANTS
    Inventory <- MCTwo
    Tags      <- MCTags
    Golden    <- MCGolden
    Captures  <- MCCaptures
    Stamps    <- MCNone
    Options   <- MCMarkdown
    Faults    <- MCBadReport
    StepFaults <- MCNone
INVARIANT
    ResultNotDiscarded
CHECK_DEADLOCK FALSE
