SPECIFICATION Spec
CONSTANTS
    Layouts <- MCLayouts
    Keys <- MCKeys
    SigningKeys <- MCSigningKeys
    KeyLists <- MCKeyLists
    PublicKeys <- MCSigningKeys
    MaxHits = 0
    Regions <- MCRegions
CHECK_DEADLOCK FALSE
INVARIANTS UnalignedAlwaysFails
