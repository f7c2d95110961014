SPECIFICATION FairSpec
CONSTANTS
    Server = {s1, s2, s3}
    Stateful = {s1, s2}
    Untimed = {s1}
    Caller = {c1, c2}
    Client = {k1, k2}
    MaxReg = 2
    None = None
INVARIANTS TypeOK SessionsAlive ConnectionsOwned
PROPERTIES CallsEnd IdleSessionsClose
CHECK_DEADLOCK FALSE
