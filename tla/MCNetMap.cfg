SPECIFICATION NMSpec
CONSTANTS
    m1 = m1  m2 = m2  c1 = c1  c2 = c2  c3 = c3
    Machines = {m1, m2}
    Chans = {c1, c2, c3}
    Procs = {p1, p2}
    BufCap = 1
    NoChan = NoChan
    NoProc = NoProc
    NoMachine = NoMachine
    PollerOf <- TwoPollsOfFirst
    MaxClock = 2
    MaxChanges = 2
    MaxPolls = 3
    Starts <- Situations
    MayFail = FALSE
SYMMETRY Symmetry
CHECK_DEADLOCK FALSE
INVARIANTS
    NoLostUpdate
