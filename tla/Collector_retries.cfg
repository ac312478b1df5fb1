SPECIFICATION Spec
CONSTANTS
    Inventory   <- MCOne
    Workers     = 8
    Retries     = 3
    RetryDelay  = 0
    NumCommands = 2
    WithSecret  <- MCNone
    Hung        <- MCNone
    Replies     <- MCAllReplies
    Exceptions  <- ExceptionKinds
INVARIANTS
    RetryDiscipline
    OneSessionAnswers
