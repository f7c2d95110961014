SPECIFICATION FairSpec
CONSTANTS
    Server = {s1}
    Tool = {t1}
    Worker = {w1, w2}
    Request = {"register", "validate", "deregister"}
    Threshold = 1
    Faults = TRUE
    Crashes = TRUE
    MaxId = 1
    MaxKey = 2
    None = None
INVARIANTS ToolsOwned ValidatingHeld
PROPERTY ValidationEnds
