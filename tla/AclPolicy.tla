------------------------------- MODULE AclPolicy -------------------------------
(***************************************************************************)
(* What an ACL policy means for a machine: internal/domain/acl.go,         *)
(* acl_filter_rules.go, acl_ssh_policy.go and the address helpers of       *)
(* machine.go.                                                             *)
(*                                                                         *)
(* An alias is a pair <<kind, value>>: <<"any", "*">>, <<"auto", a>>,      *)
(* <<"group", g>>, <<"tag", t>>, <<"name", n>> (a user or a declared       *)
(* host), <<"ip", a>>, <<"net", q>>.  A prefix q is <<address, bits>>.     *)
(* A machine is [user, tags, ip, allow, routable]; ip stands for its IPv4  *)
(* and IPv6 address, allow for AllowIPs and AutoAllowIPs together.         *)
(* A policy is [acls, grants, ssh, groups, hosts, tagOwners, approvers,    *)
(* attrs]; lists whose order does not matter are sets.                     *)
(***************************************************************************)
EXTENDS Integers, Sequences, FiniteSets

CONSTANTS
    Width,    \* bits of an address (32 and 128 in the code)
    PortBits, \* bits of a port (16 in the code)
    NoUser    \* no restriction to a user's machines (a nil user)

ASSUME WidthAssumption == Width \in Nat /\ PortBits \in Nat

Any == <<"any", "*">>
AutoSelf == <<"auto", "self">>
Member == <<"auto", "member">>
Tagged == <<"auto", "tagged">>
Internet == <<"auto", "internet">>
DangerAll == <<"auto", "danger-all">>
Everything == <<"net", <<0, 0>>>>

----------------------------------------------------------------------------
(* Addresses *)

Block(bits) == 2 ^ (Width - bits)
Masked(q) == (q[1] \div Block(q[2])) * Block(q[2])
Contains(q, a) == a \div Block(q[2]) = q[1] \div Block(q[2])
Overlaps(q, r) ==
    LET bits == IF q[2] < r[2] THEN q[2] ELSE r[2] IN
    q[1] \div Block(bits) = r[1] \div Block(bits)

HasTags(m) == m.tags # {}
HasUser(m, n) == m.user = n
HasIP(m, a) == a = m.ip
IPs(m) == {<<"ip", m.ip>>}
AllowedPrefixes(m) == {<<"net", q>> : q \in {r \in m.allow : r[2] # 0}}
IsExitNode(m) == \E q \in m.allow : q[2] = 0
IsAllowedIP(m, a) == HasIP(m, a) \/ \E q \in m.allow : Contains(q, a)
IsAllowedIPPrefix(m, r) == \E q \in m.allow : Overlaps(q, r)

----------------------------------------------------------------------------
(* Aliases *)

IsUserAlias(p, a) == a[1] = "name" /\ a[2] \notin DOMAIN p.hosts
MachineOwnedBy(p, a, m) == IsUserAlias(p, a) /\ ~HasTags(m) /\ HasUser(m, a[2])
IsGroupMember(p, g, m) == /\ ~HasTags(m) /\ g \in DOMAIN p.groups
                          /\ \E u \in p.groups[g] : HasUser(m, u)

Resolve(p, a) == IF a[1] = "name" /\ a[2] \in DOMAIN p.hosts THEN p.hosts[a[2]] ELSE a

(* translateAliasToMachineIPs; literal is what its callback makes of an    *)
(* address or a prefix.                                                    *)
TranslateAlias(p, a, m, literal) ==
    IF a \in {Member, AutoSelf} THEN IF HasTags(m) THEN {} ELSE IPs(m)
    ELSE IF a = Tagged THEN IF HasTags(m) THEN IPs(m) ELSE {}
    ELSE IF a = Internet THEN IF IsExitNode(m) THEN {Internet} ELSE {}
    ELSE IF \/ MachineOwnedBy(p, a, m)
            \/ a[1] = "group" /\ IsGroupMember(p, a[2], m)
            \/ a[1] = "tag" /\ a[2] \in m.tags
         THEN IPs(m)
         ELSE literal

SourceAddress(x, m) == IF x[1] = "ip" /\ HasIP(m, x[2]) THEN {x} ELSE {}

DestinationAddress(x, m) ==
    IF \/ x[1] = "ip" /\ IsAllowedIP(m, x[2])
       \/ x[1] = "net" /\ IsAllowedIPPrefix(m, x[2])
    THEN {x} ELSE {}

(* translateSourceAliasToMachineIPs: with a user, only untagged machines   *)
(* of that user.                                                           *)
TranslateSource(p, a, m, u) ==
    IF u # NoUser /\ (HasTags(m) \/ ~HasUser(m, u)) THEN {}
    ELSE IF a = Any THEN IPs(m) \cup AllowedPrefixes(m)
    ELSE IF a = DangerAll THEN {Everything}
    ELSE TranslateAlias(p, a, m, SourceAddress(Resolve(p, a), m))

TranslateDestination(p, a, m) ==
    IF a = Any THEN {Any}
    ELSE TranslateAlias(p, a, m, DestinationAddress(Resolve(p, a), m))

(* translateDestinationAliasesToMachineIPs: the half for autogroup:self    *)
(* and the half for everything else.                                       *)
SelfIPs(p, as, m) == UNION {TranslateDestination(p, a, m) : a \in as \cap {AutoSelf}}
OtherIPs(p, as, m) == UNION {TranslateDestination(p, a, m) : a \in as \ {AutoSelf}}

(* parsePortRanges: "*", or parts of one or two numbers; a number that     *)
(* does not fit makes the whole destination void.  A range may be empty.   *)
MaxPort == 2 ^ PortBits - 1

PortsParse(ports) ==
    \A part \in ports : /\ Len(part) \in {1, 2}
                        /\ \A i \in 1 .. Len(part) : part[i] =< MaxPort

ParsePortRanges(ports) ==
    IF ports = {} THEN {<<0, MaxPort>>} \* "*"
    ELSE IF ~PortsParse(ports) THEN {}
    ELSE {<<part[1], part[Len(part)]>> : part \in ports}

(* translateDestinationAliasesToMachineNetPortRanges; a destination of an  *)
(* ACL is [alias, ports].  What stands behind the last colon are the       *)
(* ports, so a destination without ports does not parse.                   *)
NetPorts(p, d, m) == TranslateDestination(p, d.alias, m) \X ParsePortRanges(d.ports)
SelfPorts(p, ds, m) == UNION {NetPorts(p, d, m) : d \in {e \in ds : e.alias = AutoSelf}}
OtherPorts(p, ds, m) == UNION {NetPorts(p, d, m) : d \in {e \in ds : e.alias # AutoSelf}}

----------------------------------------------------------------------------
(* Packet filters *)

(* Some source alias selects the machine. *)
Selects(p, as, m, u) == \E a \in as : TranslateSource(p, a, m, u) # {}

IsValidPeerNoGrants(p, src, dst) == \* Mutant: grants do not make peers
    \/ ~HasTags(src) /\ ~HasTags(dst) /\ HasUser(dst, src.user)
    \/ \E e \in p.acls :
        \/ SelfPorts(p, e.dst, dst) # {} /\ Selects(p, e.src, src, dst.user)
        \/ OtherPorts(p, e.dst, dst) # {} /\ Selects(p, e.src, src, NoUser)

(* IsValidPeer: src may open connections to dst, or dst records its SSH    *)
(* sessions, or both belong to one person.                                 *)
IsValidPeer(p, src, dst) ==
    \/ ~HasTags(src) /\ ~HasTags(dst) /\ HasUser(dst, src.user)
    \/ \E e \in p.acls :
        \/ SelfPorts(p, e.dst, dst) # {} /\ Selects(p, e.src, src, dst.user)
        \/ OtherPorts(p, e.dst, dst) # {} /\ Selects(p, e.src, src, NoUser)
    \/ \E g \in p.grants :
        \/ SelfIPs(p, g.dst, dst) # {} /\ Selects(p, g.src, src, dst.user)
        \/ OtherIPs(p, g.dst, dst) # {} /\ Selects(p, g.src, src, NoUser)
    \/ \E s \in p.ssh :
        \/ SelfIPs(p, s.recorder, dst) # {} /\ Selects(p, s.dst, src, dst.user)
        \/ OtherIPs(p, s.recorder, dst) # {} /\ Selects(p, s.dst, src, NoUser)

Rule(proto, ports, caps) == [proto |-> proto, ports |-> ports, caps |-> caps]

(* prepareFilterRulesFromACL, one half; parseProtocol gives the numbers.   *)
FromACL(proto, ports) == IF ports = {} THEN {} ELSE {Rule(proto, ports, {})}

(* appGrantDstIpsToPrefixes: addresses of the machine itself. *)
OwnPrefixes(m, ips) ==
    UNION {IF x = Any THEN IPs(m) ELSE SourceAddress(x, m) : x \in ips}

(* prepareFilterRulesFromGrant, one half: a rule for every ip of the       *)
(* grant, and one for its application capabilities.                        *)
FromGrant(g, m, ips) ==
    (IF ips = {} THEN {} ELSE {Rule(e.proto, ips \X {e.ports}, {}) : e \in g.ip})
      \cup (IF g.app /\ OwnPrefixes(m, ips) # {}
            THEN {Rule({}, {}, OwnPrefixes(m, ips))} ELSE {})

(* normalizeSSHRecordersToDestinationAliases, prepareFilterRulesFromSSH *)
FromSSH(p, s, m) ==
    FromACL({"tcp"}, OtherPorts(p, {[alias |-> a, ports |-> {<<80>>}] :
                                        a \in {b \in s.recorder : b[1] = "tag"}}, m))

(* matchSourceAndAppendRule: without a source there is no rule.            *)
WithSources(p, peers, as, u, prepared) ==
    LET srcs == UNION {UNION {TranslateSource(p, a, m, u) : a \in as} : m \in peers} IN
    IF srcs = {} THEN {} ELSE {[srcs |-> srcs, to |-> r] : r \in prepared}

(* BuildFilterRules: what dst accepts from its peers. *)
BuildFilterRules(p, peers, dst) ==
    (UNION {WithSources(p, peers, e.src, dst.user, FromACL(e.proto, SelfPorts(p, e.dst, dst)))
              \cup WithSources(p, peers, e.src, NoUser, FromACL(e.proto, OtherPorts(p, e.dst, dst)))
              : e \in p.acls})
      \cup
    (UNION {WithSources(p, peers, g.src, dst.user, FromGrant(g, dst, SelfIPs(p, g.dst, dst)))
              \cup WithSources(p, peers, g.src, NoUser, FromGrant(g, dst, OtherIPs(p, g.dst, dst)))
              : g \in p.grants})
      \cup
    (UNION {WithSources(p, peers, s.dst, NoUser, FromSSH(p, s, dst)) : s \in p.ssh})

----------------------------------------------------------------------------
(* SSH *)

(* expandSSHSrcAlias *)
ExpandSSHSource(p, a, m, u) ==
    IF \/ a = Member /\ ~HasTags(m)
       \/ MachineOwnedBy(p, a, m)
       \/ a[1] = "group" /\ IsGroupMember(p, a[2], m)
       \/ u = NoUser /\ a[1] = "tag" /\ a[2] \in m.tags
    THEN IF u # NoUser /\ (HasTags(m) \/ ~HasUser(m, u)) THEN {} ELSE IPs(m)
    ELSE {}

(* expandSrcAliases: nobody could confirm a check for a tagged source. *)
Principals(p, srcs, s, u) ==
    LET as == {a \in s.src : ~(a[1] = "tag" /\ s.action = "check")} IN
    UNION {UNION {ExpandSSHSource(p, a, m, u) : a \in as} : m \in srcs}

(* expandSSHDstToSSHUsers: which half of the rule the machine falls under. *)
IsSelfTarget(s, m) == \E d \in s.dst : d = AutoSelf \/ (d[1] = "name" /\ HasUser(m, d[2]))
IsTagTarget(s, m) == \E d \in s.dst : d[1] = "tag" /\ d[2] \in m.tags

(* buildSSHUsers: autogroup:nonroot excludes root unless it is named. *)
BuildSSHUsers(us) ==
    LET nonroot == "autogroup:nonroot" \in us
        named == us \ {"autogroup:nonroot"}
    IN
    [u \in named \cup (IF nonroot THEN {"*", "root"} ELSE {}) |->
        IF u \in named THEN u ELSE IF u = "*" THEN "=" ELSE ""]

(* expandRecorderAliases: the machines that carry a recorder's tag. *)
Recorders(s, srcs, dst) ==
    {m.ip : m \in {n \in srcs \cup {dst} : \E a \in s.recorder : a[1] = "tag" /\ a[2] \in n.tags}}

SSHRule(p, srcs, dst, s, u) ==
    LET who == Principals(p, srcs, s, u) IN
    IF who = {} \/ s.users = {} THEN {}
    ELSE {[who |-> who, users |-> BuildSSHUsers(s.users), hold |-> s.action = "check",
           recorders |-> Recorders(s, srcs, dst),
           enforce |-> s.enforce /\ s.recorder # {}]}

BuildSSHPolicy(p, srcs, dst) ==
    UNION {(IF IsSelfTarget(s, dst) THEN SSHRule(p, srcs, dst, s, dst.user) ELSE {})
             \cup (IF IsTagTarget(s, dst) THEN SSHRule(p, srcs, dst, s, NoUser) ELSE {})
             : s \in {t \in p.ssh : t.action \in {"accept", "check"}}}

----------------------------------------------------------------------------
(* Tags, routes and capabilities; a user is [name, service] *)

(* isTagOwner: the first group that exists decides, and ends the search.   *)
IsTagOwner(p, t, user) ==
    LET owners == IF t \in DOMAIN p.tagOwners THEN p.tagOwners[t] ELSE <<>>
        isGroup(i) == owners[i][1] = "group" /\ owners[i][2] \in DOMAIN p.groups
        decides(i) == isGroup(i) \/ owners[i] = <<"name", user.name>>
    IN
    \/ user.service
    \/ \E i \in DOMAIN owners :
        /\ decides(i) /\ \A j \in DOMAIN owners : j < i => ~decides(j)
        /\ isGroup(i) => user.name \in p.groups[owners[i][2]]

CheckTagOwners(p, tags, user) == \A t \in tags : IsTagOwner(p, t, user)

(* matches of FindAutoApprovedIPs *)
Approves(p, as, tags, user) ==
    \E a \in as : \/ a = <<"name", user.name>>
                  \/ a[1] = "group" /\ a[2] \in DOMAIN p.groups /\ user.name \in p.groups[a[2]]
                  \/ a[1] = "tag" /\ a[2] \in tags

(* isAutoApproved *)
IsAutoApproved(c, routes) ==
    \E q \in routes : c[2] >= q[2] /\ Contains(q, Masked(c))

(* FindAutoApprovedIPs; approvers is [routes, exit, parses], a route of    *)
(* the policy is [net, who].  One route that does not parse voids all.     *)
FindAutoApprovedIPs(p, routable, tags, user) ==
    LET ap == p.approvers
        routes == {r.net : r \in {x \in ap.routes : Approves(p, x.who, tags, user)}}
    IN
    IF ~ap.parses THEN {}
    ELSE {c \in routable : \/ c[2] = 0 /\ Approves(p, ap.exit, tags, user)
                           \/ IsAutoApproved(c, routes)}

(* NodeCapabilities *)
HasAttribute(p, as, m) ==
    \E a \in as : \/ a = Any
                  \/ MachineOwnedBy(p, a, m)
                  \/ a[1] = "tag" /\ a[2] \in m.tags
                  \/ a[1] = "group" /\ IsGroupMember(p, a[2], m)
                  \/ a = Member /\ ~HasTags(m)

NodeCapabilities(p, m) == UNION {n.attr : n \in {x \in p.attrs : HasAttribute(p, x.target, m)}}
================================================================================
