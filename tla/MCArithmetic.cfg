SPECIFICATION ToolsSpec
CONSTANTS
    Base = 4
    Bits = 2
    ne = 2
    Table <- MCTable
    Types = {1, 2, 64}
    Hashes = {0, 3, 15}
    Privs = {5, 16}
    Scalars = {1, 4, 7, 13}
    Halves = {0, 6, 15}
    W = 64
    Moduli <- MCModuli
    Factors <- MCFactors
    Block = 16
    Octet = 2
    Digest = 3
    Chunks = {0, 1, 2, 7, 8, 9, 16, 17}
    MaxLen = 36
INVARIANTS
    Product
    EcdsaIsTextbook
    Sha1IsStandard
CHECK_DEADLOCK FALSE
