SPECIFICATION CliSpec
CONSTANTS
    MaxTailnet = 2
    MaxId = 6
    Orgs = {o1, o2}
    Names = {n1, n2}
    Callers = {c1, c2}
    AdminRoles = {boss}
    o1 = o1
    o2 = o2
    n1 = n1
    n2 = n2
    email = email
    uname = uname
    boss = boss
    NoName = NoName
    NoCall = NoCall
    NoCommand = NoCommand
    Shells = {c1}
    Service = Service
    Loads <- MCLoads
CHECK_DEADLOCK FALSE
INVARIANTS
    OwnersExist
    RevokedUsersStayGone
    RolesFollowClaims
    
    ReadsStayInside
PROPERTIES
    CommandsHitTheirTarget
    UnforcedDeleteSparesMachines
