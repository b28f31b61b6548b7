CONSTANTS
    a = a
    b = b
    c = c
    Devices = {a, b, c}
    Admins = {a, b}
    Newcomers = {b, c}
    Ids = {1, 2, 3}
    MaxKey = 2
    Geneses = {1, 2}
    Updates = {1, 2}
    MaxChain = 3
    Loads <- MCLoads
    StartRows <- MCStartRows
    NoOne = NoOne
    NoAum = NoAum
    NoGenesis = NoGenesis
    NoSecret = NoSecret
    NoSig = NoSig
    NoRow = NoRow
    NoReg = NoReg
SPECIFICATION LockSpec
INVARIANTS
    OneAuthority
    HeadFollowsChain
    ClientsNotAhead
PROPERTIES
    SignedAtGoLive
    DisabledForGood
    RequestsAnswered
