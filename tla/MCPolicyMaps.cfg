SPECIFICATION PolicySpec
CONSTANTS
    n1 = n1
    n2 = n2
    Peers = {n1, n2}
    DerpMaps = {d1, d2}
    Heads = {h1, h2}
    Nil = Nil
    Width = 3
    PortBits = 2
    NoUser = NoUser
    Id <- MCId
    Loads <- MCLoads
PROPERTIES
    MapBringsUpToDate
    QuarantineTakesEffect
    SourcesArePeers
    RoutesHaveOneRouter
