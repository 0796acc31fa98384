SPECIFICATION ToolsSpec
CONSTANTS
    DatTexts = {0, 1, 3, 4, 5, 8}
    DatBlock = 4
    DatKeys = {"k1", "k2"}
    Packages <- MCPackages
    Unit = 2
    HeaderLen = 2
    Word = 8
    MaxName = 3
INVARIANTS
    InClear
    TreeIsTable
    OnlyTheText
PROPERTIES
    PackageComesOut
    Accepted
CHECK_DEADLOCK FALSE
