SPECIFICATION FairStoreSpec
CONSTANTS
    i1 = i1  i2 = i2  d1 = d1  d2 = d2  u1 = u1  u2 = u2  n1 = n1  n2 = n2  a1 = a1  a2 = a2
    NoRow = NoRow  NoName = NoName  NoAddr = NoAddr  NoId = NoId
    Reqs = {r1, r2}
    Ids = {i1, i2}
    Devices = {d1, d2}
    Users = {u1, u2}
    Names = {n1, n2}
    Addrs = {a1, a2}
    Prefixes = {exit}
    ExitRoute = exit
    AutoRoutes = {exit}
    MaxIdx = 1
    Loads <- Situations
\* A server without requests is idle.
CHECK_DEADLOCK FALSE
INVARIANTS
    
    DisabledRoutesStay
PROPERTIES
    ExpiryKeptUnlessOverwritten
    EphemeralRemoved
