SPECIFICATION Spec
CONSTANTS
    Group = {g}
    User = {u}
    Server = {s}
    MaxActs = 2
    MaxHaste = 2
    MaxReqs = 2
    None = None
INVARIANT RemovalRevokes
CHECK_DEADLOCK FALSE
