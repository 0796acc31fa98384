SPECIFICATION ToolsSpec
CONSTANTS
    Elfs <- MCElfs
    HeaderSize = 4
    Alignment = 2
    Word = 1024
    LoadElfs <- MCLoadElfs
    LoadHdrLen = 2
    LoadHeaderSize = 6
    LoadElfOffset = 1
    LoadAlignment = 2
    LoadExtra = {0, 1, 3}
    LoadSharing = {TRUE, FALSE}
    Areas <- MCAreas
    Seals = {"none", "free", "content", "other"}
    LayerWord = 8
    Memory = 4
INVARIANTS
    TypeOK
    SectionsDisjoint
    PiecesBounded
    SegmentsBack
    UnselfLoads
    NpdrmWalks
PROPERTIES
    UnselfTerminates
    NpdrmEnds
CHECK_DEADLOCK FALSE
