SPECIFICATION StoreSpec
CONSTANTS
    i1 = i1  i2 = i2  d1 = d1  d2 = d2  u1 = u1  u2 = u2  n1 = n1  n2 = n2  a1 = a1  a2 = a2
    NoRow = NoRow  NoName = NoName  NoAddr = NoAddr  NoId = NoId
    Reqs = {r1, r2}
    Ids = {i1}
    Devices = {d1}
    Users = {u1}
    Names = {n1}
    Addrs = {a1}
    Prefixes = {exit}
    ExitRoute = exit
    AutoRoutes = {}
    MaxIdx = 1
    Loads <- ReportAndExpire
\* A server without requests is idle.
CHECK_DEADLOCK FALSE
PROPERTIES
    ExpiryKept
