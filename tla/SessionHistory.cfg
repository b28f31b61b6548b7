SPECIFICATION HSpec
CONSTANTS
    Machines = {m1, m2}
    Chans = {c1, c2}
    Procs = {p1, p2}
    BufCap = 1
    NoChan = NoChan
    NoProc = NoProc
    NoMachine = NoMachine
INVARIANTS
    NoClosedChannelInUse
    NoOrphanPoll
PROPERTIES
    ImplementsSessionTable
    SessionChangeIsAnnounced
