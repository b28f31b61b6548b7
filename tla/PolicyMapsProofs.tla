--------------------------- MODULE PolicyMapsProofs ----------------------------
(***************************************************************************)
(* Theorems about PollNetMapper, for any peers, DERP maps and TKA heads,   *)
(* and about PolicyMaps, for any policies, machines, tags and routes.      *)
(***************************************************************************)
EXTENDS PolicyMaps, WellFoundedInduction, TLAPS

----------------------------------------------------------------------------
(* The mapper *)

(* What is visible is a set of peers, whatever the repository says. *)
LEMMA CandidatesArePeers ==
    ASSUME rows \in SUBSET Peers, NEW omit \in BOOLEAN
    PROVE  /\ SyncedPeers(omit) \in SUBSET Peers
           /\ FilterPeers(omit) \in SUBSET Peers
           /\ SSHPolicy(omit) \in SUBSET SUBSET Peers
  BY Zenon DEF SyncedPeers, FilterPeers, SSHPolicy, CandidatePeers

(* A complete map gives the client exactly what the repository says. *)
LEMMA ReplaceInSync ==
    ASSUME MapperTypeOK, NEW omit \in BOOLEAN
    PROVE  /\ Replace(Response(FALSE, omit)) \in Clients
           /\ InSync(omit, Replace(Response(FALSE, omit)))
  BY MapperAssumption, CandidatesArePeers, Zenon
  DEF MapperTypeOK, Replace, Response, Clients, InSync, TKAInfo, TkaStates

(* A delta does so too if the mapper's memory is the client's state: what  *)
(* it does not mention has not changed.                                    *)
LEMMA MergeInSync ==
    ASSUME MapperTypeOK, MemoryIsClient, mode # "closed",
           tka = "off" => prevTKAChecksum = "off",
           mode = "omit" => prevSyncedPeerIDs = {}
    PROVE  /\ Merge(client, Response(TRUE, mode = "omit")) \in Clients
           /\ InSync(mode = "omit", Merge(client, Response(TRUE, mode = "omit")))
<1> DEFINE omit == mode = "omit"
           r == Response(TRUE, omit)
           new == Merge(client, r)
<1>1. omit \in BOOLEAN
  BY Zenon
<1>2. /\ SyncedPeers(omit) \in SUBSET Peers
      /\ FilterPeers(omit) \in SUBSET Peers
      /\ SSHPolicy(omit) \in SUBSET SUBSET Peers
  BY CandidatesArePeers, <1>1, Zenon DEF MapperTypeOK
<1>3. new.peers = SyncedPeers(omit)
  <2>1. new.peers = (prevSyncedPeerIDs \cup SyncedPeers(omit)) \ r.removed
    BY Zenon DEF MemoryIsClient, Merge, Response
  <2>2. r.removed = IF omit THEN {} ELSE prevSyncedPeerIDs \ SyncedPeers(omit)
    BY Zenon DEF Response
  <2> QED
    BY <2>1, <2>2, Zenon
<1>4. new.filter = FilterPeers(omit)
  BY Zenon DEF Merge, Response
<1>5. new.derp = derp
  BY MapperAssumption, Zenon DEF MapperTypeOK, MemoryIsClient, Merge, Response
<1>6. new.tka = tka
  BY MapperAssumption, Zenon
  DEF MapperTypeOK, MemoryIsClient, Merge, Response, TKAInfo, TkaStates
<1>7. /\ new.ssh \in SUBSET SUBSET Peers
      /\ SSHPolicy(omit) # {} => new.ssh = SSHPolicy(omit)
  BY <1>2, Zenon DEF MapperTypeOK, Clients, Merge, Response
<1>8. new = [peers |-> new.peers, filter |-> new.filter, derp |-> new.derp,
             tka |-> new.tka, ssh |-> new.ssh]
  BY Zenon DEF Merge
<1> HIDE DEF new, omit
<1>9. new \in Clients
  BY <1>2, <1>3, <1>4, <1>5, <1>6, <1>7, <1>8, Zenon DEF MapperTypeOK, Clients
<1>10. InSync(omit, new)
  BY <1>3, <1>4, <1>5, <1>6, <1>7, Zenon DEF InSync
<1> QED
  BY <1>9, <1>10, Zenon DEF new, omit

(* The inductive invariant.  A delta cannot say "off", so the memory needs *)
(* the fact that an authority that once was is never forgotten; and a      *)
(* delta without peers removes none, so there must be none to remove.      *)
MapperInv ==
    /\ MapperTypeOK
    /\ MemoryIsClient
    /\ tka = "off" => prevTKAChecksum = "off"
    /\ mode = "omit" => prevSyncedPeerIDs = {}

(* Every step keeps the inductive invariant. *)
LEMMA MapperStep == MapperInv /\ [Next]_vars => MapperInv'
<1> SUFFICES ASSUME MapperInv, [Next]_vars PROVE MapperInv'
  BY Zenon
<1> USE MapperAssumption DEF MapperInv, MapperTypeOK, MemoryIsClient, TkaStates
<1>1. CASE UNCHANGED <<mapperVars, client>> /\ Next
  <2>1. rows' \in SUBSET Peers /\ cut' \in SUBSET (Peers \cup {Self})
        /\ valid' \in SUBSET Peers /\ derp' \in DerpMaps /\ ssh' \in BOOLEAN
        /\ tka' \in TkaStates /\ (tka' = "off" => tka = "off")
    BY <1>1, Zenon
    DEF Next, AddOrRemoveMachine, ChangeQuarantine, SetACLPolicy, SetDERPMap,
        ChangeTKA, SetSSH, Connect, Push, Disconnect, repoVars
  <2> QED
    BY <1>1, <2>1, Zenon DEF mapperVars
<1>2. ASSUME NEW omit \in BOOLEAN, Connect(omit)
      PROVE  MapperInv'
  <2>1. InSync(omit, client') /\ client' \in Clients
    BY <1>2, ReplaceInSync, Zenon DEF Connect
  <2>2. /\ SyncedPeers(omit) \in SUBSET Peers
        /\ omit => SyncedPeers(omit) = {}
    BY CandidatesArePeers, Zenon DEF SyncedPeers
  <2> QED
    BY <1>2, <2>1, <2>2, Zenon DEF Connect, Remember, InSync, repoVars
<1>3. CASE Push
  <2>1. InSync(mode = "omit", client') /\ client' \in Clients
    BY <1>3, MergeInSync, Zenon DEF Push
  <2>2. /\ SyncedPeers(mode = "omit") \in SUBSET Peers
        /\ mode = "omit" => SyncedPeers(mode = "omit") = {}
    BY CandidatesArePeers, Zenon DEF SyncedPeers
  <2> QED
    BY <1>3, <2>1, <2>2, Zenon DEF Push, Remember, InSync, repoVars
<1>4. CASE Disconnect
  BY <1>4, Zenon DEF Disconnect, NoClient, Clients, repoVars
<1>5. CASE UNCHANGED vars
  BY <1>5, Zenon DEF vars, repoVars, mapperVars
<1>6. ASSUME Next
      PROVE  \/ UNCHANGED <<mapperVars, client>>
             \/ \E omit \in BOOLEAN : Connect(omit)
             \/ Push \/ Disconnect
  BY <1>6, Zenon
  DEF Next, AddOrRemoveMachine, ChangeQuarantine, SetACLPolicy, SetDERPMap,
      ChangeTKA, SetSSH
<1> QED
  BY <1>1, <1>2, <1>3, <1>4, <1>5, <1>6, Zenon

(* The inductive invariant holds throughout. *)
LEMMA MapperInductive == Spec => []MapperInv
<1>1. Init => MapperInv
  <2>1. NoClient \in Clients
    BY Zenon DEF NoClient, Clients, TkaStates
  <2> QED
    BY <2>1, Zenon DEF Init, MapperInv, MapperTypeOK, MemoryIsClient, TkaStates
<1> QED
  BY <1>1, MapperStep, PTL DEF Spec

(* The mapper always remembers exactly what its client has, whatever       *)
(* changes between the maps.                                               *)
THEOREM MemoryCorrect == Spec => []MemoryIsClient
  BY MapperInductive, PTL DEF MapperInv

(* Every complete map and every delta leaves the client with what the      *)
(* repository says at that moment.                                         *)
THEOREM MapsCorrect == Spec => MapBringsUpToDate
<1> DEFINE Correct == Push \/ (mode = "closed" /\ mode' # "closed") =>
                        InSync(mode' = "omit", client')
<1>1. MapperInv /\ [Next]_vars => [Correct]_vars
  <2> SUFFICES ASSUME MapperInv, Next,
                      Push \/ (mode = "closed" /\ mode' # "closed")
               PROVE  InSync(mode' = "omit", client')
    BY Zenon DEF Correct
  <2>1. CASE Push
    BY <2>1, MergeInSync, Zenon DEF Push, MapperInv
  <2>2. ASSUME NEW omit \in BOOLEAN, Connect(omit)
        PROVE  InSync(mode' = "omit", client')
    <3>1. (mode' = "omit") = omit
      BY <2>2, Zenon DEF Connect
    <3> QED
      BY <2>2, <3>1, ReplaceInSync, Zenon DEF Connect, MapperInv
  <2> QED
    BY <2>1, <2>2, Zenon
    DEF Next, AddOrRemoveMachine, ChangeQuarantine, SetACLPolicy, SetDERPMap,
        ChangeTKA, SetSSH, Disconnect, mapperVars
<1> QED
  BY <1>1, MapperInductive, PTL DEF Spec, MapBringsUpToDate

(* The next map cuts a quarantined machine off, on both sides. *)
THEOREM QuarantineEnforced == Spec => QuarantineTakesEffect
<1> DEFINE CutOff ==
      Push => /\ Self \in cut => client'.peers = {} /\ client'.filter = {}
              /\ (client'.peers \cup client'.filter) \cap cut = {}
<1>1. MapperInv /\ [Next]_vars => [CutOff]_vars
  <2> SUFFICES ASSUME MapperInv, Push
               PROVE  /\ Self \in cut => client'.peers = {} /\ client'.filter = {}
                      /\ (client'.peers \cup client'.filter) \cap cut = {}
    BY Zenon DEF CutOff
  <2>1. /\ client'.peers = SyncedPeers(mode = "omit")
        /\ client'.filter = FilterPeers(mode = "omit")
    BY MergeInSync, Zenon DEF Push, MapperInv, InSync
  <2> QED
    BY <2>1, Zenon DEF SyncedPeers, FilterPeers, CandidatePeers
<1> QED
  BY <1>1, MapperInductive, PTL DEF Spec, QuarantineTakesEffect

----------------------------------------------------------------------------
(* The maps that a policy makes *)

(* The inductive invariant: machines keep their user and their address,    *)
(* and the mapper's valid peers are the policy's.                          *)
PolicyInv ==
    /\ load \in Loads
    /\ fleet = [x \in Machines |-> fleet[x]]
    /\ \A x \in Machines : /\ fleet[x].user = load.fleet[x].user
                           /\ fleet[x].ip = load.fleet[x].ip
    /\ valid = ValidPeers(policy, fleet)

(* A row saved with its user and its address keeps the invariant. *)
LEMMA SaveKeepsRows ==
    ASSUME PolicyInv, NEW x \in Machines, NEW row, SaveMachine(x, row),
           row.user = fleet[x].user, row.ip = fleet[x].ip
    PROVE  PolicyInv'
<1>1. fleet' = [y \in Machines |-> IF y = x THEN row ELSE fleet[y]]
  BY Zenon DEF PolicyInv, SaveMachine
<1>2. fleet' = [y \in Machines |-> fleet'[y]]
  BY <1>1, Zenon
<1>5. \A y \in Machines : fleet'[y].user = fleet[y].user /\ fleet'[y].ip = fleet[y].ip
  BY <1>1, Zenon
<1>6. load' = load /\ policy' = policy /\ valid' = ValidPeers(policy, fleet')
  BY Zenon DEF SaveMachine, SetACLPolicy
<1> QED
  BY <1>2, <1>5, <1>6, Zenon DEF PolicyInv

(* Steps that change neither the machines nor the policy. *)
LEMMA KeepsPolicy ==
    ASSUME PolicyInv, UNCHANGED <<load, fleet, policy, valid>>
    PROVE  PolicyInv'
  BY Zenon DEF PolicyInv, ValidPeers

(* Every step keeps the inductive invariant. *)
LEMMA PolicyStep == PolicyInv /\ [PolicyNext]_allVars => PolicyInv'
<1> SUFFICES ASSUME PolicyInv, [PolicyNext]_allVars PROVE PolicyInv'
  BY Zenon
<1>1. ASSUME NEW p \in load.policies, SetPolicy(p) PROVE PolicyInv'
  BY <1>1, Zenon DEF SetPolicy, SetACLPolicy, PolicyInv
<1>2. ASSUME NEW x \in Machines, NEW key, NEW ts, NEW rs, NEW allow,
             SaveMachine(x, Changed(fleet[x], key, ts, rs, allow))
      PROVE  PolicyInv'
  BY <1>2, SaveKeepsRows, Zenon DEF Changed
<1>3. ASSUME NEW x \in Machines, NEW ts, NEW key, NEW browser \in BOOLEAN,
             Register(x, ts, key, browser) \/ RegisterAgain(x, ts) \/ Advertise(x, ts)
      PROVE  PolicyInv'
  BY <1>2, <1>3, Zenon DEF Register, RegisterAgain, Advertise
<1>4. ASSUME UNCHANGED <<load, fleet, policy, valid>> PROVE PolicyInv'
  BY <1>4, KeepsPolicy, Zenon
<1>5. ASSUME PolicyNext
      PROVE  \/ \E p \in load.policies : SetPolicy(p)
             \/ \E x \in Machines : \E ts \in load.asks[x], key \in load.keys[x],
                                      browser \in BOOLEAN : Register(x, ts, key, browser)
             \/ \E x \in Machines : \E ts \in load.asks[x] : RegisterAgain(x, ts)
             \/ \E x \in Machines : \E rs \in load.offers[x] : Advertise(x, rs)
             \/ UNCHANGED <<load, fleet, policy, valid>>
  BY <1>5, Zenon
  DEF PolicyNext, ChangeSession, ConnectMap, PushMap, DisconnectMap, Elsewhere, policyVars,
      Connect, Push, Disconnect, AddOrRemoveMachine, ChangeQuarantine, SetDERPMap, ChangeTKA,
      SetSSH, vars, repoVars
<1>6. CASE UNCHANGED allVars
  BY <1>6, KeepsPolicy, Zenon DEF allVars, policyVars, vars, repoVars
<1> QED
  BY <1>1, <1>3, <1>4, <1>5, <1>6, Zenon

(* The inductive invariant holds throughout. *)
LEMMA PolicyInductive == PolicySpec => []PolicyInv
<1>1. PolicyInit => PolicyInv
  BY FleetAssumption, Zenon DEF PolicyInit, PolicyInv
<1> QED
  BY <1>1, PolicyStep, PTL DEF PolicySpec

(* The policies' maps are maps of the mapper: its memory, its deltas and   *)
(* its quarantine are correct for whatever peers the policies connect.     *)
THEOREM MapsOfPolicies == PolicySpec => ImplementsMapper
<1>1. PolicyInit => Init
  BY Zenon DEF PolicyInit
<1>2. ASSUME PolicyNext PROVE Next \/ UNCHANGED vars
  <2>1. \A q, f : ValidPeers(q, f) \in SUBSET Peers
    BY Zenon DEF ValidPeers
  <2>2. ASSUME NEW q \in load.policies, SetPolicy(q) PROVE Next
    BY <2>1, <2>2, Zenon DEF SetPolicy, Next
  <2>3. ASSUME NEW x, NEW row, SaveMachine(x, row) PROVE Next
    BY <2>1, <2>3, Zenon DEF SaveMachine, Next
  <2>4. ASSUME NEW x \in Peers, ChangeSession(x) PROVE UNCHANGED vars
    BY <2>4, Zenon DEF ChangeSession
  <2> QED
    BY <1>2, <2>2, <2>3, <2>4, Zenon
    DEF PolicyNext, Register, RegisterAgain, Advertise, ConnectMap, PushMap, DisconnectMap, Next, Machines
<1>3. [PolicyNext]_allVars => [Next]_vars
  BY <1>2, Zenon DEF allVars
<1> QED
  BY <1>1, <1>3, PTL DEF PolicySpec, Spec, ImplementsMapper

(* What the mapper's invariant says holds of the policies' maps. *)
LEMMA PolicyMapperInv == PolicySpec => []MapperInv
  BY MapsOfPolicies, MapperInductive, PTL DEF ImplementsMapper

----------------------------------------------------------------------------
(* Sources and principals *)

(* An address among the translations of a source alias is the machine's.   *)
LEMMA SourceIsOwn ==
    ASSUME NEW p, NEW a, NEW m, NEW u, NEW addr,
           <<"ip", addr>> \in TranslateSource(p, a, m, u)
    PROVE  m.ip = addr
<1>1. CASE a = Any
  BY <1>1, Zenon DEF TranslateSource, IPs, AllowedPrefixes, Any
<1>2. CASE a = DangerAll
  BY <1>2, Zenon DEF TranslateSource, DangerAll, Any, Everything
<1>3. CASE a # Any /\ a # DangerAll
  <2>1. <<"ip", addr>> \in TranslateAlias(p, a, m, SourceAddress(Resolve(p, a), m))
    BY <1>3, Zenon DEF TranslateSource
  <2>2. \/ <<"ip", addr>> \in IPs(m)
        \/ <<"ip", addr>> \in {Internet}
        \/ <<"ip", addr>> \in SourceAddress(Resolve(p, a), m)
    BY <2>1, Zenon DEF TranslateAlias, Member, AutoSelf, Tagged, Internet
  <2> QED
    BY <2>2 DEF IPs, Internet, SourceAddress, HasIP
<1> QED
  BY <1>1, <1>2, <1>3, Zenon

(* A rule of the packet filter admits machines that are valid peers of     *)
(* its machine: the two walks over the policy agree.                       *)
LEMMA RulesMakePeers ==
    ASSUME NEW p, NEW ms, NEW dst, NEW r \in BuildFilterRules(p, ms, dst), NEW addr,
           <<"ip", addr>> \in r.srcs
    PROVE  \E m \in ms : m.ip = addr /\ IsValidPeer(p, m, dst)
<1>1. ASSUME NEW as, NEW u, NEW prepared, r \in WithSources(p, ms, as, u, prepared)
      PROVE  prepared # {} /\ \E m \in ms : m.ip = addr /\ Selects(p, as, m, u)
  <2> DEFINE Of(m) == UNION {TranslateSource(p, a, m, u) : a \in as}
             srcs == UNION {Of(m) : m \in ms}
  <2>1. r \in {[srcs |-> srcs, to |-> q] : q \in prepared}
    BY <1>1, Zenon DEF WithSources
  <2>2. r.srcs = srcs /\ prepared # {}
    <3> HIDE DEF srcs
    <3> QED
      BY <2>1
  <2>3. PICK m \in ms : <<"ip", addr>> \in Of(m)
    <3> HIDE DEF Of
    <3> QED
      BY <2>2, Zenon
  <2>4. PICK a \in as : <<"ip", addr>> \in TranslateSource(p, a, m, u)
    BY <2>3, Zenon
  <2> QED
    BY <2>2, <2>4, SourceIsOwn, Zenon DEF Selects
<1>2. ASSUME NEW g, NEW ips, FromGrant(g, dst, ips) # {} PROVE ips # {}
  BY <1>2, Zenon DEF FromGrant, OwnPrefixes
<1>3. ASSUME NEW t, FromSSH(p, t, dst) # {} PROVE OtherIPs(p, t.recorder, dst) # {}
  <2> DEFINE ds == {[alias |-> a, ports |-> {<<80>>}] : a \in {b \in t.recorder : b[1] = "tag"}}
  <2>1. OtherPorts(p, ds, dst) # {}
    BY <1>3, Zenon DEF FromSSH, FromACL
  <2>2. PICK d \in ds : d.alias # AutoSelf /\ NetPorts(p, d, dst) # {}
    BY <2>1, Zenon DEF OtherPorts
  <2>3. d.alias \in t.recorder \ {AutoSelf} /\ TranslateDestination(p, d.alias, dst) # {}
    BY <2>2 DEF NetPorts
  <2> QED
    BY <2>3, Zenon DEF OtherIPs
<1>4. ASSUME NEW ports, NEW proto, FromACL(proto, ports) # {} PROVE ports # {}
  BY <1>4, Zenon DEF FromACL
<1>5. CASE \E e \in p.acls :
             \/ r \in WithSources(p, ms, e.src, dst.user, FromACL(e.proto, SelfPorts(p, e.dst, dst)))
             \/ r \in WithSources(p, ms, e.src, NoUser, FromACL(e.proto, OtherPorts(p, e.dst, dst)))
  BY <1>1, <1>4, <1>5, Zenon DEF IsValidPeer
<1>6. CASE \E g \in p.grants :
             \/ r \in WithSources(p, ms, g.src, dst.user, FromGrant(g, dst, SelfIPs(p, g.dst, dst)))
             \/ r \in WithSources(p, ms, g.src, NoUser, FromGrant(g, dst, OtherIPs(p, g.dst, dst)))
  BY <1>1, <1>2, <1>6, Zenon DEF IsValidPeer
<1>7. CASE \E t \in p.ssh : r \in WithSources(p, ms, t.dst, NoUser, FromSSH(p, t, dst))
  BY <1>1, <1>3, <1>7, Zenon DEF IsValidPeer
<1> QED
  BY <1>5, <1>6, <1>7, Zenon DEF BuildFilterRules

(* A principal of an SSH rule that asks for a check is a machine without   *)
(* tags.                                                                   *)
LEMMA CheckedHaveNoTags ==
    ASSUME NEW p, NEW ms, NEW dst, NEW r \in BuildSSHPolicy(p, ms, dst), r.hold, NEW addr,
           <<"ip", addr>> \in r.who
    PROVE  \E m \in ms : m.ip = addr /\ ~HasTags(m)
<1>1. PICK t, u : t \in p.ssh /\ r \in SSHRule(p, ms, dst, t, u)
  BY Zenon DEF BuildSSHPolicy
<1>2. r.who = Principals(p, ms, t, u) /\ t.action = "check"
  <2> DEFINE who == Principals(p, ms, t, u)
             check == t.action = "check"
             users == BuildSSHUsers(t.users)
             recorders == Recorders(t, ms, dst)
             enforce == t.enforce /\ t.recorder # {}
  <2>1. r = [who |-> who, users |-> users, hold |-> check, recorders |-> recorders,
             enforce |-> enforce]
    BY <1>1, Zenon DEF SSHRule
  <2>2. r.who = who /\ r.hold = check
    <3> HIDE DEF who, check, users, recorders, enforce
    <3> QED
      BY <2>1, Zenon
  <2> QED
    BY <2>2, Zenon
<1> DEFINE as == {a \in t.src : ~(a[1] = "tag" /\ t.action = "check")}
           Of(m) == UNION {ExpandSSHSource(p, a, m, u) : a \in as}
<1>3. <<"ip", addr>> \in UNION {Of(m) : m \in ms}
  BY <1>2, Zenon DEF Principals
<1>4. PICK m \in ms : <<"ip", addr>> \in Of(m)
  <2> HIDE DEF Of
  <2> QED
    BY <1>3, Zenon
<1>5. PICK a \in as : <<"ip", addr>> \in ExpandSSHSource(p, a, m, u)
  BY <1>4, Zenon
<1>6. a[1] # "tag"
  BY <1>2, <1>5, Zenon
<1> QED
  BY <1>5, <1>6, Zenon DEF ExpandSSHSource, MachineOwnedBy, IsGroupMember, IPs

(* A map is sent by PushMap or by ConnectMap. *)
LEMMA MappedSteps ==
    ASSUME PolicyNext, Mapped, ~UNCHANGED allVars
    PROVE  \/ PushMap /\ mode' = mode
           \/ \E omit \in BOOLEAN : ConnectMap(omit) /\ (mode' = "omit" <=> omit)
<1>1. ASSUME NEW p, SetPolicy(p) PROVE UNCHANGED allVars
  BY <1>1, Zenon DEF SetPolicy, SetACLPolicy, Mapped, allVars, vars, repoVars, policyVars
<1>2. ASSUME NEW x, NEW row, SaveMachine(x, row) PROVE UNCHANGED allVars
  BY <1>2, Zenon DEF SaveMachine, SetACLPolicy, Mapped, allVars, vars, repoVars, policyVars
<1>3. ASSUME NEW x, ChangeSession(x) PROVE FALSE
  BY <1>3, Zenon DEF ChangeSession, Mapped
<1>4. ASSUME Elsewhere, UNCHANGED <<mapperVars, client>> PROVE UNCHANGED allVars
  BY <1>4, Zenon DEF Elsewhere, Mapped, allVars, vars, policyVars
<1>5. ASSUME DisconnectMap PROVE FALSE
  BY <1>5, Zenon DEF DisconnectMap, Disconnect, Mapped
<1>6. ASSUME NEW omit \in BOOLEAN, ConnectMap(omit) PROVE mode' = "omit" <=> omit
  BY <1>6, Zenon DEF ConnectMap, Connect
<1>7. ASSUME PushMap PROVE mode' = mode
  BY <1>7, Zenon DEF PushMap, Push
<1>8. ASSUME NEW x, AddOrRemoveMachine(x) PROVE UNCHANGED <<mapperVars, client>>
  BY <1>8, Zenon DEF AddOrRemoveMachine
<1>9. ASSUME NEW x, ChangeQuarantine(x) \/ SetDERPMap(x) \/ ChangeTKA(x) \/ SetSSH(x)
      PROVE  UNCHANGED <<mapperVars, client>>
  BY <1>9, Zenon DEF ChangeQuarantine, SetDERPMap, ChangeTKA, SetSSH
<1> QED
  BY <1>1, <1>2, <1>3, <1>4, <1>5, <1>6, <1>7, <1>8, <1>9, Zenon
  DEF PolicyNext, Register, RegisterAgain, Advertise

(* What a map leaves the client with, and what it was built from. *)
LEMMA MapContents ==
    ASSUME PolicyInv, MapperInv, PolicyNext, Mapped, ~UNCHANGED allVars
    PROVE  /\ client'.peers = SyncedPeers(mode' = "omit")
           /\ \E old : sent' = View(mode' = "omit", old)
<1>1. CASE PushMap /\ mode' = mode
  <2>1. client'.peers = SyncedPeers(mode' = "omit")
    BY <1>1, MergeInSync, Zenon DEF PushMap, Push, MapperInv, InSync
  <2> QED
    BY <1>1, <2>1, Zenon DEF PushMap
<1>2. ASSUME NEW omit \in BOOLEAN, ConnectMap(omit), mode' = "omit" <=> omit
      PROVE  /\ client'.peers = SyncedPeers(mode' = "omit")
             /\ \E old : sent' = View(mode' = "omit", old)
  <2>1. (mode' = "omit") = omit
    BY <1>2, Zenon
  <2>2. client'.peers = SyncedPeers(omit)
    BY <1>2, Zenon DEF ConnectMap, Connect, Replace, Response
  <2> QED
    BY <1>2, <2>1, <2>2, Zenon DEF ConnectMap
<1> QED
  BY <1>1, <1>2, MappedSteps, Zenon

(* A row among those a map is built from is the row of one peer. *)
LEMMA RowHasOnePeer ==
    ASSUME PolicyInv, NEW x \in Machines, NEW y \in Machines, fleet[x].ip = fleet[y].ip
    PROVE  x = y
<1>1. load \in Loads /\ load.fleet[x].ip = load.fleet[y].ip
  BY Zenon DEF PolicyInv
<1> QED
  BY <1>1, FleetAssumption, Zenon

(* Whatever machine the packet filter of a map lets in is a peer in that   *)
(* map, for every policy.                                                  *)
THEOREM SourcesAreSent == PolicySpec => SourcesArePeers
<1> DEFINE Agree == Mapped => \A r \in sent'.rules, x \in Peers :
                        <<"ip", fleet[x].ip>> \in r.srcs => x \in client'.peers
<1>1. PolicyInv /\ MapperInv /\ [PolicyNext]_allVars => [Agree]_allVars
  <2> SUFFICES ASSUME PolicyInv, MapperInv, PolicyNext, ~UNCHANGED allVars, Mapped,
                      NEW r \in sent'.rules, NEW x \in Peers, <<"ip", fleet[x].ip>> \in r.srcs
               PROVE  x \in client'.peers
    BY Zenon DEF Agree
  <2> DEFINE omit == mode' = "omit"
  <2>1. PICK old : sent' = View(omit, old)
    BY MapContents, Zenon
  <2>2. ~omit /\ r \in BuildFilterRules(policy, RowsOf(FilterPeers(omit)), fleet[Self])
    BY <2>1, Zenon DEF View
  <2>3. PICK m \in RowsOf(FilterPeers(omit)) : /\ m.ip = fleet[x].ip
                                              /\ IsValidPeer(policy, m, fleet[Self])
    BY <2>2, RulesMakePeers
  <2>4. PICK y \in FilterPeers(omit) : m = fleet[y]
    BY <2>3, Zenon DEF RowsOf
  <2>5. y \in Peers
    BY <2>2, <2>4, CandidatesArePeers, Zenon DEF FilterPeers, MapperInv, MapperTypeOK
  <2>6. x = y
    BY <2>3, <2>4, <2>5, RowHasOnePeer, Zenon DEF Machines
  <2>7. x \in valid
    BY <2>3, <2>4, <2>6, Zenon DEF PolicyInv, ValidPeers
  <2>8. x \in SyncedPeers(omit)
    BY <2>2, <2>4, <2>6, <2>7, Zenon DEF SyncedPeers, FilterPeers
  <2> QED
    BY <2>8, MapContents, Zenon
<1> QED
  BY <1>1, PolicyInductive, PolicyMapperInv, PTL DEF PolicySpec, SourcesArePeers

(* No SSH session that has to be confirmed comes from a tagged machine.    *)
THEOREM ChecksHavePeople == PolicySpec => CheckNeedsPerson
<1> DEFINE Untagged == Mapped /\ SSHPolicy(mode' = "omit") # {} =>
                         \A r \in sent'.ssh, x \in Peers :
                           r.hold /\ <<"ip", fleet[x].ip>> \in r.who => ~HasTags(fleet[x])
<1>1. PolicyInv /\ MapperInv /\ [PolicyNext]_allVars => [Untagged]_allVars
  <2> SUFFICES ASSUME PolicyInv, MapperInv, PolicyNext, ~UNCHANGED allVars, Mapped,
                      SSHPolicy(mode' = "omit") # {},
                      NEW r \in sent'.ssh, NEW x \in Peers, r.hold,
                      <<"ip", fleet[x].ip>> \in r.who
               PROVE  ~HasTags(fleet[x])
    BY Zenon DEF Untagged
  <2> DEFINE omit == mode' = "omit"
  <2>1. PICK old : sent' = View(omit, old)
    BY MapContents, Zenon
  <2>2. ~omit
    BY Zenon DEF SSHPolicy
  <2>3. r \in BuildSSHPolicy(policy, RowsOf(FilterPeers(omit)), fleet[Self])
    BY <2>1, Zenon DEF View
  <2>4. PICK m \in RowsOf(FilterPeers(omit)) : m.ip = fleet[x].ip /\ ~HasTags(m)
    BY <2>3, CheckedHaveNoTags
  <2>5. PICK y \in FilterPeers(omit) : m = fleet[y]
    BY <2>4, Zenon DEF RowsOf
  <2>6. y \in Peers
    BY <2>2, <2>5, CandidatesArePeers, Zenon DEF FilterPeers, MapperInv, MapperTypeOK
  <2>7. x = y
    BY <2>4, <2>5, <2>6, RowHasOnePeer, Zenon DEF Machines
  <2> QED
    BY <2>4, <2>5, <2>7, Zenon
<1> QED
  BY <1>1, PolicyInductive, PolicyMapperInv, PTL DEF PolicySpec, CheckNeedsPerson

(* autogroup:self never connects machines of two people, or a tagged one.  *)
THEOREM SelfIsHome == PolicySpec => []SelfStaysHome
<1>1. ASSUME NEW p, NEW m, TranslateDestination(p, AutoSelf, m) # {} PROVE ~HasTags(m)
  BY <1>1, Zenon DEF TranslateDestination, TranslateAlias, AutoSelf, Any
<1>2. ASSUME NEW p, NEW ds, NEW m, SelfPorts(p, ds, m) # {} PROVE ~HasTags(m)
  <2>1. PICK d \in ds : d.alias = AutoSelf /\ NetPorts(p, d, m) # {}
    BY <1>2, Zenon DEF SelfPorts
  <2>2. TranslateDestination(p, AutoSelf, m) # {}
    BY <2>1, Zenon DEF NetPorts
  <2> QED
    BY <2>2, <1>1, Zenon
<1>3. ASSUME NEW p, NEW as, NEW m, SelfIPs(p, as, m) # {} PROVE ~HasTags(m)
  BY <1>1, <1>3, Zenon DEF SelfIPs
<1>4. ASSUME NEW p, NEW as, NEW m, NEW u, u # NoUser, Selects(p, as, m, u)
      PROVE  m.user = u /\ ~HasTags(m)
  BY <1>4, Zenon DEF Selects, TranslateSource, HasUser
<1>5. ASSUME PolicyInv, NEW y \in Machines PROVE fleet[y].user # NoUser
  <2>1. load \in Loads /\ fleet[y].user = load.fleet[y].user
    BY <1>5, Zenon DEF PolicyInv
  <2> QED
    BY <2>1, FleetAssumption, Zenon
<1>6. PolicyInv => SelfStaysHome
  <2> SUFFICES ASSUME PolicyInv, NEW e \in policy.acls \cup policy.grants,
                      NEW x \in Machines, NEW y \in Machines,
                      \/ SelfPorts(policy, e.dst, fleet[y]) # {}
                      \/ SelfIPs(policy, e.dst, fleet[y]) # {},
                      Selects(policy, e.src, fleet[x], fleet[y].user)
               PROVE  /\ fleet[x].user = fleet[y].user
                      /\ ~HasTags(fleet[x]) /\ ~HasTags(fleet[y])
    BY Zenon DEF SelfStaysHome
  <2> QED
    BY <1>2, <1>3, <1>4, <1>5
<1> QED
  BY <1>6, PolicyInductive, PTL

(* Among machines there is a first one: the poll's own, or the peer with   *)
(* the smallest id.                                                        *)
LEMMA FirstMachine ==
    ASSUME NEW M, M \subseteq Machines, M # {}
    PROVE  \E x \in M : \A y \in M : y = x \/ (Earlier(x, y) /\ ~Earlier(y, x))
<1>1. CASE Self \in M
  <2>1. \A y \in M : y # Self => Earlier(Self, y) /\ ~Earlier(y, Self)
    BY Zenon DEF Earlier
  <2> QED
    BY <1>1, <2>1, Zenon
<1>2. CASE Self \notin M
  <2>1. M \subseteq Peers
    BY <1>2, Zenon DEF Machines
  <2>2. PICK ids : ids = {Id[x] : x \in M}
    BY Zenon
  <2>3. ids \subseteq Nat /\ ids # {}
    <3>1. \A x \in M : Id[x] \in Nat
      BY <2>1, FleetAssumption, Zenon
    <3>2. PICK x : x \in M
      BY Zenon
    <3> QED
      BY <2>2, <3>1, <3>2, Zenon
  <2>4. PICK n \in ids : \A m \in ids : <<m, n>> \notin OpToRel(<, Nat)
    BY <2>3, NatLessThanWellFounded, WFMin, Zenon
  <2>5. \A m \in ids : ~(m < n)
    BY <2>3, <2>4, Zenon DEF OpToRel
  <2>6. PICK x \in M : Id[x] = n
    BY <2>2, <2>4, Zenon
  <2>7. ASSUME NEW y \in M, y # x
        PROVE  Earlier(x, y) /\ ~Earlier(y, x)
    <3>1. PICK i, j : i = Id[x] /\ j = Id[y]
      BY Zenon
    <3>2. /\ i \in Nat /\ j \in Nat /\ i # j /\ ~(j < i)
          /\ x # Self /\ y # Self
      BY <1>2, <2>1, <2>2, <2>5, <2>6, <2>7, <3>1, FleetAssumption, Zenon
    <3>3. i < j
      BY <3>2
    <3> QED
      BY <2>7, <3>1, <3>2, <3>3, Zenon DEF Earlier
  <2> QED
    BY <2>7, Zenon
<1> QED
  BY <1>1, <1>2, Zenon

(* In every map a subnet route of a machine that is online and visible is  *)
(* routed to exactly one machine, which is online: the first of those that *)
(* have it (primaryRoutesCollector of mapping).                            *)
THEOREM RoutesAreRouted == PolicySpec => RoutesHaveOneRouter
<1> DEFINE Routed == Mapped =>
             \A x \in DOMAIN sent'.nodes : Connected(x) =>
                \A q \in Subnets(x) :
                    LET routers == {y \in DOMAIN sent'.nodes : q \in sent'.nodes[y].routes} IN
                    \E y \in routers : routers = {y} /\ Connected(y)
<1>1. PolicyInv /\ MapperInv /\ [PolicyNext]_allVars => [Routed]_allVars
  <2> SUFFICES ASSUME PolicyInv, MapperInv, PolicyNext, ~UNCHANGED allVars, Mapped,
                      NEW x \in DOMAIN sent'.nodes, Connected(x), NEW q \in Subnets(x)
               PROVE  \E y \in {z \in DOMAIN sent'.nodes : q \in sent'.nodes[z].routes} :
                         /\ {z \in DOMAIN sent'.nodes : q \in sent'.nodes[z].routes} = {y}
                         /\ Connected(y)
    BY Zenon
  <2>1. PICK omit, ps, old : /\ omit = (mode' = "omit") /\ ps = SyncedPeers(omit)
                             /\ sent' = View(omit, old) /\ ps \subseteq Peers
    <3>1. PICK old : sent' = View(mode' = "omit", old)
      BY MapContents, Zenon
    <3>2. rows \in SUBSET Peers /\ (mode' = "omit") \in BOOLEAN
      BY Zenon DEF MapperInv, MapperTypeOK
    <3>3. SyncedPeers(mode' = "omit") \subseteq Peers
      BY <3>2, CandidatesArePeers, Zenon
    <3> QED
      BY <3>1, <3>3, Zenon
  <2>2. sent'.nodes = [z \in {Self} \cup ps |-> Node(z, ps)]
    BY <2>1, Zenon DEF View
  <2>3. /\ DOMAIN sent'.nodes = {Self} \cup ps
        /\ \A z \in {Self} \cup ps : sent'.nodes[z].routes = PrimaryRoutes(z, ps)
    <3>1. \A z : Node(z, ps).routes = PrimaryRoutes(z, ps)
      BY Zenon DEF Node
    <3> QED
      BY <2>2, <3>1, Zenon
  <2>4. PICK M : M = {z \in {Self} \cup ps : Connected(z) /\ q \in Subnets(z)}
    BY Zenon
  <2>5. x \in M /\ M \subseteq Machines
    BY <2>1, <2>3, <2>4, Zenon DEF Machines
  <2>6. PICK y \in M : \A z \in M : z = y \/ (Earlier(y, z) /\ ~Earlier(z, y))
    BY <2>5, FirstMachine, Zenon
  <2>7. q \in PrimaryRoutes(y, ps)
    <3>1. ASSUME NEW z \in {Self} \cup ps, Connected(z), Earlier(z, y), q \in Subnets(z)
          PROVE  FALSE
      BY <2>4, <2>6, <3>1, Zenon DEF Earlier
    <3> QED
      BY <2>4, <3>1, Zenon DEF PrimaryRoutes
  <2>8. ASSUME NEW z \in {Self} \cup ps, q \in PrimaryRoutes(z, ps)
        PROVE  z = y
    <3>1. Connected(z) /\ q \in Subnets(z)
      BY <2>8, Zenon DEF PrimaryRoutes
    <3>2. ~Earlier(y, z)
      BY <2>4, <2>8, <3>1, Zenon DEF PrimaryRoutes
    <3> QED
      BY <2>4, <2>6, <2>8, <3>1, <3>2, Zenon
  <2>9. {z \in DOMAIN sent'.nodes : q \in sent'.nodes[z].routes} = {y}
    BY <2>3, <2>4, <2>7, <2>8, Zenon
  <2>10. y \in {z \in DOMAIN sent'.nodes : q \in sent'.nodes[z].routes} /\ Connected(y)
    BY <2>4, <2>9, Zenon
  <2> QED
    BY <2>9, <2>10, Zenon
<1> QED
  BY <1>1, PolicyInductive, PolicyMapperInv, PTL DEF PolicySpec, RoutesHaveOneRouter

(* The mapper's types, its memory, its maps and its quarantine, for the    *)
(* maps of every policy.                                                   *)
THEOREM PolicyMapsCorrect ==
    PolicySpec => /\ []MapperTypeOK /\ []MemoryIsClient
                  /\ MapBringsUpToDate /\ QuarantineTakesEffect
<1>1. MapperInv => MapperTypeOK /\ MemoryIsClient
  BY Zenon DEF MapperInv
<1> QED
  BY <1>1, MapsOfPolicies, PolicyMapperInv, MapsCorrect, QuarantineEnforced, PTL
  DEF ImplementsMapper
================================================================================
