SPECIFICATION FairSpec
CONSTANTS
    Row = {a, b}
    MaxActs = 3
    MaxReqs = 2
    None = None
INVARIANTS TypeOK ShownOrTold
PROPERTY Settles
CHECK_DEADLOCK FALSE
