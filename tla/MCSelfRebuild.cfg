SPECIFICATION Spec
CONSTANTS
    Originals <- MCOriginals
    Inputs <- MCInputs
    HeaderSize = 4
    Alignment = 2
    NoFile = NoFile
INVARIANTS
    StaysInPlace
    ReaderGets
    AlwaysVerifies
    UnknownNeverFinishes
CHECK_DEADLOCK FALSE
