SPECIFICATION Spec
CONSTANTS
    Layouts <- MCLayouts
    Keys <- MCKeys
    SigningKeys <- MCSigningKeys
    KeyLists <- MCKeyLists
    PublicKeys <- MCSigningKeys
    MaxHits = 2
    Regions <- MCRegions
INVARIANTS
    TypeOK
    ContentsIntact
    RightKeyOnly
    Verdicts
    NothingInClear
PROPERTIES
    TrialLeavesImage
    Delivered
    SystemIsSealedBox
CHECK_DEADLOCK FALSE
