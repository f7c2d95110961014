SPECIFICATION Spec
CONSTANTS
    Server = {s1}
    Tool = {t1, t2}
    Worker = {w1}
    Request = {"register", "validate", "publish", "enable", "disable", "enableTool", "disableTool", "archive", "deregister"}
    Threshold = 2
    Faults = TRUE
    Crashes = TRUE
    MaxId = 2
    MaxKey = 4
    None = None
INVARIANTS TypeOK StopSticks GoneStays NoGhostTools UniqueTools
PROPERTY KeepsContract
SYMMETRY Symmetry
