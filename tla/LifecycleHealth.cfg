SPECIFICATION FairSpec
CONSTANTS
    Server = {s1}
    Tool = {t1}
    Worker = {w1}
    Request = {"register", "publish", "enable", "disable", "archive"}
    Threshold = 3
    Faults = TRUE
    Crashes = FALSE
    MaxId = 1
    MaxKey = 1
    None = None
PROPERTIES DeadServerLeaves LiveServerRecovers
