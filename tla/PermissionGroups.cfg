SPECIFICATION FairSpec
CONSTANTS
    Group = {g, h}
    User = {u}
    Server = {s}
    MaxActs = 3
    MaxHaste = 2
    MaxReqs = 2
    None = None
INVARIANTS TypeOK ShownOrTold
PROPERTIES DisabledForGood Settles
CHECK_DEADLOCK FALSE
