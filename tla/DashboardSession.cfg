SPECIFICATION FairSpec
CONSTANTS
    admin = admin
    member = member
    User = {admin, member}
    Role <- TwoRoles
    Session = {k1, k2}
    MaxActs = 4
    Nobody = Nobody
    None = None
INVARIANTS TypeOK OneBounce ActorShown LogoutHolds AdminsServed
PROPERTY TabSettles
CHECK_DEADLOCK FALSE
