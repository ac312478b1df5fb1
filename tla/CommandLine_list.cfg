SPECIFICATION Spec
CONSTANTS
    Inventories  <- MCInventories
    Goldens      <- MCOneGolden
    Environments <- MCEnvironments
    KeyFiles     <- MCKeyFiles
    Requests     <- MCListing
INVARIANT
    ListingNeedsNoSecrets
CHECK_DEADLOCK FALSE
