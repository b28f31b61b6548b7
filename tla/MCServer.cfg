SPECIFICATION CredSpec
CONSTANTS
    s1 = s1
    s2 = s2
    a1 = a1
    a2 = a2
    Servers = {s1, s2}
    Accounts = {a1, a2}
    Requests = {1, 2}
    NULL = NULL
    WithComma = {"C,D"}
    NoServer = NoServer
    OwnRegion = 1000
    Loads <- MCLoads
    DNSConfigs <- MCDNSConfigs
    Machines <- MCMachines
    Atoms <- MCAtoms
    MaxTime = 3
    MaxSealed = 1
    Life = 1
    AdminKeys = {"own", "other"}
    Procs = {1, 2, 3, 4, 5, 6, 7}
CHECK_DEADLOCK FALSE
INVARIANTS
    KeysOutliveRestarts
    OrganizationsRecovered
    OnePluginProcess
    SchemaServesDomain
    TokensAreTheirOwn
    ServeMeansCertificates
PROPERTIES
    DnsRequestsAnswered
    UpgradeCompletes
