SPECIFICATION NMFairSpec
CONSTANTS
    m1 = m1  m2 = m2  c1 = c1  c2 = c2  c3 = c3
    Machines = {m1, m2}
    Chans = {c1, c2}
    Procs = {p1, p2}
    BufCap = 1
    NoChan = NoChan
    NoProc = NoProc
    NoMachine = NoMachine
    PollerOf <- OnePollEach
    MaxClock = 2
    MaxChanges = 0
    MaxPolls = 2
    Starts <- OneLapses
    MayFail = TRUE
CHECK_DEADLOCK FALSE
PROPERTIES
    EveryClientCatchesUp
