SPECIFICATION Spec
CONSTANTS
    t1 = t1
    t2 = t2
    s1 = s1
    s2 = s2
    Collection = {g1, g2}
    Server = {s1}
    Tool = {t1, t2}
    Owner <- OneOwner
    Config <- Exclusions
    Worker = {w1}
    Request = {"create", "update", "delete", "register", "deregister", "enable", "disable"}
    Faults = TRUE
    Crashes = TRUE
    MaxObj = 3
    None = None
INVARIANTS TypeOK HidesDisabled EndpointsStored CollectionsExact
SYMMETRY Symmetry
