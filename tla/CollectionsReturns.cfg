SPECIFICATION Spec
CONSTANTS
    t1 = t1
    t2 = t2
    s1 = s1
    s2 = s2
    Collection = {g1, g2}
    Server = {s1, s2}
    Tool = {t1, t2}
    Owner <- TwoOwners
    Config <- Inclusions
    Worker = {w1}
    Request = {"create", "delete", "register", "deregister", "enable", "disable"}
    Faults = FALSE
    Crashes = FALSE
    MaxObj = 3
    None = None
INVARIANTS ReenabledReturns
SYMMETRY Symmetry
