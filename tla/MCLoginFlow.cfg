CONSTANTS
    i1 = i1
    i2 = i2
    t1 = t1
    t2 = t2
    d1 = d1
    Identities = {i1, i2}
    SystemAdmins = {i2}
    TagOwners = {i1}
    Tailnets = {t1, t2}
    Devices = {d1}
    Handlers = {1, 2}
    MaxKey = 2
    MaxUser = 2
    MaxAdmin = 1
    Loads <- MCLoads
    NoRow = NoRow
    NoUser = NoUser
    NoTailnet = NoTailnet
    NoToken = NoToken
SPECIFICATION LoginSpec
CHECK_DEADLOCK FALSE
INVARIANTS
    LoginsAreGranted
    DoneMeansRegistered
    TokensReachTheirClient
    SSHNeedsItsOwner
PROPERTIES
    DecisionsAreDelivered
