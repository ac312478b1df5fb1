SPECIFICATION Spec
CONSTANTS
    Inventories  <- MCInventories
    Goldens      <- MCGoldens
    Environments <- MCEnvironments
    KeyFiles     <- MCKeyFiles
    Requests     <- MCRequests
INVARIANTS
    SecretsFailFirst
    SecretsAreOwn
    OfflineIgnoresSecrets
    SelectionAsDescribed
    TypoIsRefused
    ListingTellsAuth
    ExitTellsResults
    
CHECK_DEADLOCK FALSE
