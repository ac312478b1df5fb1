SPECIFICATION Spec
CONSTANTS
    None       = None
    Runs       = {r1, r2, r3}
    Captures   <- MCThreeCaptures
    Forced      = FALSE
    MaxClock   = 2
    MaxOutages = 1
    Overlap    = FALSE
    SameSecond = TRUE
    Faults     <- MCKills
INVARIANTS
    TypeOK
    ReportsTrue
    LatestIsLast
PROPERTIES
    ImplementsHistory
SYMMETRY RunSymmetry
CHECK_DEADLOCK FALSE
