SPECIFICATION FairSpec
CONSTANTS
    Inventory   <- MCThree
    Workers     = 2
    Retries     = 2
    RetryDelay  = 0
    NumCommands = 1
    WithSecret  <- MCSecret
    Hung        <- MCHung
    Replies     <- MCTwoReplies
    Exceptions  <- MCTwoExceptions
INVARIANTS
    TypeOK
    SessionsBounded
    NothingLeftBehind
PROPERTIES
    ImplementsCollection
    HealthyServed
    RunEnds
