------------------------------ MODULE PolicyMaps -------------------------------
(***************************************************************************)
(* The maps of PollNetMapper composed with the ACL policies of AclPolicy:  *)
(* which peers a client is sent, with which routes, profiles, packet       *)
(* filters and SSH rules (CreateMapResponse and ToNode of                  *)
(* internal/mapping), while the policy, the machines' tags and their       *)
(* routes change.                                                          *)
(***************************************************************************)
EXTENDS PollNetMapper, AclPolicy

CONSTANTS
    Id,         \* peer -> its row id; peers are listed in this order
    Loads       \* what a behaviour is about: [fleet, policies, asks, keys,
                \* offers, does]; the tags a machine asks for, the tags of the
                \* keys it may register with, the routes it offers

Machines == Peers \cup {Self}

(* The machine with other tags, routes on offer and allowed routes; the    *)
(* tags it was registered with are kept apart.                             *)
Changed(m, registered, tags, routable, allow) ==
    [user |-> m.user, service |-> m.service, ip |-> m.ip, registered |-> registered,
     tags |-> tags, manual |-> m.manual, allow |-> allow, routable |-> routable]

(* Every machine has a row with an id, a user and an address of its own    *)
(* (SelectIP).                                                             *)
ASSUME FleetAssumption ==
    /\ Self \notin Peers
    /\ \A x \in Peers : Id[x] \in Nat
    /\ \A x, y \in Peers : Id[x] = Id[y] => x = y
    /\ \A l \in Loads :
        /\ l.fleet = [x \in Machines |-> l.fleet[x]]
        /\ \A x, y \in Machines : l.fleet[x].ip = l.fleet[y].ip => x = y
        /\ \A x \in Machines : l.fleet[x].user # NoUser

VARIABLES
    load,
    policy,     \* the tailnet's ACL policy
    fleet,      \* machine -> its row; allow holds manual and approved routes
    online,     \* peers that have a session
    sent        \* what the client holds: [nodes, users, rules, ssh]

policyVars == <<load, policy, fleet, online, sent>>
allVars == <<vars, policyVars>>

Does(x) == x \in load.does
UserOf(m) == [name |-> m.user, service |-> m.service]

----------------------------------------------------------------------------
(* What the policy makes of the machines *)

(* The condition of CreateMapResponse's loop. *)
ValidPeers(p, f) ==
    {x \in Peers : IsValidPeer(p, f[Self], f[x]) \/ IsValidPeer(p, f[x], f[Self])}

(* ToNode's connected: the poll's own machine is. *)
Connected(x) == x = Self \/ x \in online

Earlier(x, y) == x # y /\ (x = Self \/ (y # Self /\ Id[x] < Id[y]))

Subnets(x) == {q \in fleet[x].allow : q[2] # 0}

RoutesOfFirst(x, ps) == \* Mutant: a machine without a session claims its routes too
    IF Connected(x)
    THEN Subnets(x) \ UNION {Subnets(y) : y \in {z \in {Self} \cup ps : Earlier(z, x)}}
    ELSE {}

(* primaryRoutesCollector: the first connected machine with a route has it. *)
PrimaryRoutes(x, ps) ==
    IF Connected(x)
    THEN Subnets(x) \ UNION {Subnets(y) :
                               y \in {z \in {Self} \cup ps : Connected(z) /\ Earlier(z, x)}}
    ELSE {}

(* ToUserProfile and ToNode: tagged devices share the service user. *)
Profile(x) == IF HasTags(fleet[x]) THEN "tagged-devices" ELSE fleet[x].user

Node(x, ps) == [routes |-> PrimaryRoutes(x, ps), user |-> Profile(x),
                exit |-> IsExitNode(fleet[x]),
                caps |-> IF x = Self THEN NodeCapabilities(policy, fleet[x]) \ {"funnel"} ELSE {}]

RowsOf(ps) == {fleet[x] : x \in ps}

(* What a map holds: profiles are merged by the client, a nil SSH policy   *)
(* leaves the old one.                                                     *)
View(omit, old) ==
    LET ps == SyncedPeers(omit)
        cs == FilterPeers(omit)
    IN
    [nodes |-> [x \in {Self} \cup ps |-> Node(x, ps)],
     users |-> old.users \cup {Profile(x) : x \in {Self} \cup ps},
     rules |-> IF omit \/ Self \in cut THEN {} ELSE BuildFilterRules(policy, RowsOf(cs), fleet[Self]),
     ssh |-> IF SSHPolicy(omit) = {} THEN old.ssh
             ELSE BuildSSHPolicy(policy, RowsOf(cs), fleet[Self])]

NoView == [nodes |-> <<>>, users |-> {}, rules |-> {}, ssh |-> {}]

----------------------------------------------------------------------------
(* Changes *)

SetPolicy(p) ==
    /\ policy' = p
    /\ SetACLPolicy(ValidPeers(p, fleet))
    /\ UNCHANGED <<load, fleet, online, sent>>

SaveMachine(x, row) ==
    /\ fleet' = [fleet EXCEPT ![x] = row]
    /\ SetACLPolicy(ValidPeers(policy, fleet'))
    /\ UNCHANGED <<load, policy, online, sent>>

(* A registration with a key of tags key, none when a person logs in: the  *)
(* user must own all tags that the machine asks for; the key's own are     *)
(* added unchecked, they were checked when it was made.  The policy        *)
(* approves routes by all tags, in the browser only by the key's.          *)
Register(x, ts, key, browser) ==
    /\ x \in rows \cup {Self}
    /\ CheckTagOwners(policy, ts, UserOf(fleet[x]))
    /\ LET tags == key \cup ts
           auto == FindAutoApprovedIPs(policy, fleet[x].routable,
                       IF browser THEN key ELSE tags, UserOf(fleet[x]))
       IN
       SaveMachine(x, Changed(fleet[x], key, tags, fleet[x].routable,
                              fleet[x].manual \cup auto))

(* A machine that is known by its key registers again: the tags it asks    *)
(* for replace those it asked for before, and no route is looked at.       *)
RegisterAgain(x, ts) ==
    /\ x \in rows \cup {Self}
    /\ SaveMachine(x, Changed(fleet[x], fleet[x].registered, fleet[x].registered \cup ts,
                              fleet[x].routable, fleet[x].allow))

(* A poll whose host advertises other routes. *)
Advertise(x, rs) ==
    /\ x \in rows \cup {Self} /\ rs # fleet[x].routable
    /\ LET auto == FindAutoApprovedIPs(policy, rs, fleet[x].tags, UserOf(fleet[x])) IN
       SaveMachine(x, Changed(fleet[x], fleet[x].registered, fleet[x].tags, rs,
                              fleet[x].manual \cup auto))

ChangeSession(x) ==
    /\ Does("sessions") /\ x \in rows
    /\ online' = IF x \in online THEN online \ {x} ELSE online \cup {x}
    /\ UNCHANGED <<vars, load, policy, fleet, sent>>

Elsewhere == UNCHANGED policyVars

ConnectMap(omit) ==
    /\ Connect(omit)
    /\ sent' = View(omit, NoView)
    /\ UNCHANGED <<load, policy, fleet, online>>

PushMap ==
    /\ Push
    /\ sent' = View(mode = "omit", sent)
    /\ UNCHANGED <<load, policy, fleet, online>>

DisconnectMap ==
    /\ Disconnect
    /\ sent' = NoView
    /\ UNCHANGED <<load, policy, fleet, online>>

PolicyInit ==
    /\ load \in Loads
    /\ policy \in load.policies
    /\ fleet = load.fleet
    /\ online = {}
    /\ sent = NoView
    /\ Init
    /\ rows = Peers
    /\ valid = ValidPeers(policy, fleet)

PolicyNext ==
    \/ \E p \in load.policies : SetPolicy(p)
    \/ \E x \in Machines : \E ts \in load.asks[x], key \in load.keys[x], browser \in BOOLEAN :
          Register(x, ts, key, browser)
    \/ \E x \in Machines : \E ts \in load.asks[x] : RegisterAgain(x, ts)
    \/ \E x \in Machines : \E rs \in load.offers[x] : Advertise(x, rs)
    \/ \E x \in Peers : ChangeSession(x)
    \/ Elsewhere /\ Does("rows") /\ \E x \in Peers : AddOrRemoveMachine(x)
    \/ Elsewhere /\ Does("cut") /\ \E x \in Machines : ChangeQuarantine(x)
    \/ Elsewhere /\ Does("derp") /\ \E d \in DerpMaps : SetDERPMap(d)
    \/ Elsewhere /\ Does("tka") /\ \E h \in Heads \cup {"disabled"} : ChangeTKA(h)
    \/ Elsewhere /\ Does("ssh") /\ \E on \in BOOLEAN : SetSSH(on)
    \/ \E omit \in BOOLEAN : ConnectMap(omit)
    \/ PushMap
    \/ DisconnectMap

PolicySpec == PolicyInit /\ [][PolicyNext]_allVars

----------------------------------------------------------------------------
(* The composition takes only steps the mapper's own module allows, so     *)
(* what is proved of the mapper for arbitrary sets of valid peers holds    *)
(* for the sets the policies give.                                         *)
ImplementsMapper == Spec

(* A map has been sent, complete or delta: the steps that change nothing   *)
(* else.                                                                   *)
Mapped == mode' # "closed" /\ UNCHANGED <<repoVars, policy, fleet, online>>

(* Whatever machine the packet filter lets in is a peer the client was     *)
(* sent: a source without a node could never connect, and the rule would   *)
(* admit a machine the client cannot name (IsValidPeer and                 *)
(* BuildFilterRules are two walks over the policy that must agree).        *)
SourcesArePeers ==
    [][Mapped =>
         \A r \in sent'.rules, x \in Peers :
            <<"ip", fleet[x].ip>> \in r.srcs => x \in client'.peers]_allVars

(* A rule for autogroup:self admits machines of the same person only, and  *)
(* tagged machines are on neither side of it, in ACLs and in grants.       *)
SelfStaysHome ==
    \A e \in policy.acls \cup policy.grants, x, y \in Machines :
        LET self == IF e \in policy.acls THEN SelfPorts(policy, e.dst, fleet[y])
                    ELSE SelfIPs(policy, e.dst, fleet[y])
        IN
        self # {} /\ Selects(policy, e.src, fleet[x], fleet[y].user) =>
            /\ fleet[x].user = fleet[y].user
            /\ ~HasTags(fleet[x]) /\ ~HasTags(fleet[y])

(* An SSH session that has to be confirmed by a person never comes from a  *)
(* tagged machine, which has none (BuildSSHPolicy).                        *)
CheckNeedsPerson ==
    [][Mapped /\ SSHPolicy(mode' = "omit") # {} =>
         \A r \in sent'.ssh, x \in Peers :
            r.hold /\ <<"ip", fleet[x].ip>> \in r.who => ~HasTags(fleet[x])]_allVars

(* Every subnet route of a machine that is online and visible to the       *)
(* client is routed to exactly one machine, and that one is online.        *)
RoutesHaveOneRouter ==
    [][Mapped =>
         \A x \in DOMAIN sent'.nodes : Connected(x) =>
            \A q \in Subnets(x) :
                LET routers == {y \in DOMAIN sent'.nodes : q \in sent'.nodes[y].routes} IN
                \E y \in routers : routers = {y} /\ Connected(y)]_allVars
================================================================================
