SPECIFICATION Spec
CONSTANTS
    Words <- MCWords
    Directories <- MCDirectories
    Types <- MCTypes
    Suffixes <- MCSuffixes
    KeyWords <- MCKeyWords
    Longer <- MCLonger
INVARIANTS
    Agreement
    OneKeyPerEntry
CHECK_DEADLOCK FALSE
