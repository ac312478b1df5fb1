SPECIFICATION Spec
CONSTANTS
    None       = None
    Runs       = {r1, r2, r3}
    Captures   <- MCTwoCaptures
    Forced      = FALSE
    MaxClock   = 3
    MaxOutages = 0
    Overlap    = FALSE
    SameSecond = FALSE
    Faults     <- MCUndecodable
INVARIANTS
    NeverRaises
SYMMETRY RunSymmetry
CHECK_DEADLOCK FALSE
