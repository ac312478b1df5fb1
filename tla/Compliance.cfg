SPECIFICATION Spec
CONSTANTS
    MaxLines = 5
    Lines    <- MCLines
    Rules    <- MCRules
INVARIANTS
    NormalizedAsDescribed
    ChangesAreTold
    RejectionsAreRefused
    MatchesAsDescribed
    StoredAuditIsCurrent
    RulesCanFail
