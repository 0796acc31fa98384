SPECIFICATION WriterSpec
CONSTANTS
    Layouts <- MCLayouts
    Keys <- MCKeys
    SigningKeys <- MCSigningKeys
INVARIANTS
    SignedOnDisk
PROPERTIES
    TruncateLate
CHECK_DEADLOCK FALSE
