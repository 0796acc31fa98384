SPECIFICATION Spec
CONSTANTS
    Dumps <- MCDumps
    Base = 1
    Target = "out"
    Loader = "asecure_loader"
    Ros = {"ros0"}
    Names = {"f", "g"}
    MaxDepth = 3
INVARIANTS
    CwdIsStack
    ExactTree
PROPERTIES
    WholeComesOut
CHECK_DEADLOCK FALSE
