SPECIFICATION Spec
CONSTANTS
    Server = {s}
    MaxToken = 3
    MaxActs = 4
    None = None
INVARIANTS TypeOK SecretSeenOrTold
PROPERTY RevokedForGood
CHECK_DEADLOCK FALSE
