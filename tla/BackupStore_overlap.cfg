SPECIFICATION Spec
CONSTANTS
    None       = None
    Runs       = {r1, r2}
    Captures   <- MCShortOrNot
    Forced      = FALSE
    MaxClock   = 2
    MaxOutages = 1
    Overlap    = TRUE
    SameSecond = FALSE
    Faults     <- MCMishaps
INVARIANTS
    PublishedWhole
    NoTemporaryLeft
    ReportsTrue
PROPERTIES
    HistoryKept
SYMMETRY RunSymmetry
CHECK_DEADLOCK FALSE
