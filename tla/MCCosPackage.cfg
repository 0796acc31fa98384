SPECIFICATION ToolsSpec
CONSTANTS
    Directories <- MCDirectories
    MAX_FILES = 3
    COS_FILE_SIZE = 14
    PupNames <- MCNames
    PupInputs <- MCInputs
    PupKeys = {"K", "other"}
    PupNoKey = "none"
    PupMaxFiles = 3
    PupMaxDamage = 2
INVARIANTS
    TypeOK
    FilesDisjoint
    Unpacks
    PupVerdicts
    IntactComesOut
CHECK_DEADLOCK FALSE
