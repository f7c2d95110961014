SPECIFICATION Spec
CONSTANTS
    Account = {a1, a2}
    Name = {me, you}
    Server = {s}
    MaxCallers = 2
    MaxCalls = 3
    MaxDay = 2
    MaxVisits = 1
    Week = 1
    Month = 3
    None = None
INVARIANTS TypeOK CountsCalls ShownMade
SYMMETRY Symmetry
CHECK_DEADLOCK FALSE
