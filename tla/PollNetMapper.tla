---------------------------- MODULE PollNetMapper ----------------------------
(***************************************************************************)
(* The maps one streaming poll sends and what its client makes of them:    *)
(* internal/mapping/poll_net_mapper.go.  The first map is complete, the    *)
(* following ones are deltas against what the mapper remembers of the      *)
(* previous map; the client merges them by the rules of                    *)
(* tailcfg.MapResponse, where a missing field means "no change".           *)
(*                                                                         *)
(* The repository changes freely between maps.  A read of it by            *)
(* CreateMapResponse is one step here; NetMap takes the reads apart.       *)
(***************************************************************************)
EXTENDS FiniteSets

CONSTANTS
    Peers,      \* the other machines of the tailnet
    DerpMaps,   \* DERP maps, told apart by their checksum
    Heads,      \* heads of the tailnet key authority
    Nil         \* a field missing from a response

ASSUME MapperAssumption ==
    /\ Nil \notin DerpMaps
    /\ Nil \notin Heads \cup {"off", "disabled"}
    /\ Heads \cap {"off", "disabled"} = {}

VARIABLES
    (* what the repository says *)
    rows,       \* peers that have a row
    cut,        \* the polling machine or a peer -> quarantined
    valid,      \* peers the ACL policy connects with the machine
    derp,       \* the DERP map in force
    tka,        \* state of the key authority: off, a head, or disabled
    ssh,        \* Tailscale SSH is on, in the tailnet and on the machine
    (* the mapper of the running poll *)
    mode,       \* "closed", or whether the poll asked to omit peers
    prevSyncedPeerIDs, prevDerpMapChecksum, prevTKAChecksum,
    (* the client *)
    client      \* its peers, packet filter, DERP map and TKA state

repoVars == <<rows, cut, valid, derp, tka, ssh>>
mapperVars == <<mode, prevSyncedPeerIDs, prevDerpMapChecksum, prevTKAChecksum>>
vars == <<repoVars, mapperVars, client>>

Self == "self"
TkaStates == {"off", "disabled"} \cup Heads
Clients == [peers : SUBSET Peers, filter : SUBSET Peers,
            derp : DerpMaps \cup {Nil}, tka : TkaStates,
            ssh : SUBSET SUBSET Peers]
NoClient == [peers |-> {}, filter |-> {}, derp |-> Nil, tka |-> "off",
             ssh |-> {}]

Init ==
    /\ rows \in SUBSET Peers
    /\ cut = {}
    /\ valid \in SUBSET Peers
    /\ derp \in DerpMaps
    /\ tka = "off"
    /\ ssh = FALSE
    /\ mode = "closed"
    /\ prevSyncedPeerIDs = {}
    /\ prevDerpMapChecksum = Nil
    /\ prevTKAChecksum = "off"
    /\ client = NoClient

----------------------------------------------------------------------------
(* Changes of the repository *)

AddOrRemoveMachine(p) ==
    /\ rows' = IF p \in rows THEN rows \ {p} ELSE rows \cup {p}
    /\ UNCHANGED <<cut, valid, derp, tka, ssh, mapperVars, client>>

(* A key lapses or is renewed, a machine is authorized, or the tailnet     *)
(* starts or stops to require authorization.                               *)
ChangeQuarantine(x) ==
    /\ cut' = IF x \in cut THEN cut \ {x} ELSE cut \cup {x}
    /\ UNCHANGED <<rows, valid, derp, tka, ssh, mapperVars, client>>

SetACLPolicy(v) ==
    /\ valid' = v
    /\ UNCHANGED <<rows, cut, derp, tka, ssh, mapperVars, client>>

SetDERPMap(d) ==
    /\ derp' = d
    /\ UNCHANGED <<rows, cut, valid, tka, ssh, mapperVars, client>>

(* The authority is initialised or advances to head h, or is disabled;     *)
(* once there has been one the state never says "off" again.               *)
ChangeTKA(h) ==
    /\ \/ h \in Heads
       \/ h = "disabled" /\ tka \in Heads
    /\ tka' = h
    /\ UNCHANGED <<rows, cut, valid, derp, ssh, mapperVars, client>>

SetSSH(on) ==
    /\ ssh' = on
    /\ UNCHANGED <<rows, cut, valid, derp, tka, mapperVars, client>>

----------------------------------------------------------------------------
(* CreateMapResponse *)

(* Mutant: only the polling machine's own quarantine is looked at. *)
CandidatesUnfiltered == IF Self \in cut THEN {} ELSE rows

(* filterQuarantined, and nobody at all for a quarantined machine. *)
CandidatePeers == IF Self \in cut THEN {} ELSE rows \ cut

SyncedPeers(omit) == IF omit THEN {} ELSE CandidatePeers \cap valid

(* The machines the packet filter is built from: every candidate. *)
FilterPeers(omit) == IF omit THEN {} ELSE CandidatePeers

(* The policy is built from every candidate.  An optional policy is a set: *)
(* empty when the field is nil.                                            *)
SSHPolicy(omit) ==
    IF ~omit /\ Self \notin cut /\ ssh THEN {CandidatePeers} ELSE {}

TKAInfo == IF tka = "off" THEN Nil ELSE tka

(* Mutant: the TKA information is left out when the lock was on before. *)
ResponseOnceTKA(delta, omit) ==
    [changed |-> SyncedPeers(omit),
     removed |-> IF delta /\ ~omit THEN prevSyncedPeerIDs \ SyncedPeers(omit)
                 ELSE {},
     filter  |-> FilterPeers(omit),
     derp    |-> IF delta /\ prevDerpMapChecksum = derp THEN Nil ELSE derp,
     tka     |-> IF delta /\ prevTKAChecksum # "off" THEN Nil ELSE TKAInfo,
     ssh     |-> SSHPolicy(omit)]

Response(delta, omit) ==
    [changed |-> SyncedPeers(omit),
     removed |-> IF delta /\ ~omit THEN prevSyncedPeerIDs \ SyncedPeers(omit)
                 ELSE {},
     filter  |-> FilterPeers(omit),
     derp    |-> IF delta /\ prevDerpMapChecksum = derp THEN Nil ELSE derp,
     tka     |-> IF delta /\ prevTKAChecksum = tka THEN Nil ELSE TKAInfo,
     ssh     |-> SSHPolicy(omit)]

(* What the mapper remembers of the response it has made. *)
Remember(omit) ==
    /\ prevSyncedPeerIDs' = SyncedPeers(omit)
    /\ prevDerpMapChecksum' = derp
    /\ prevTKAChecksum' = tka

(* The client's rules: a complete map replaces everything, and without TKA *)
(* information says that there is no lock.                                 *)
Replace(r) ==
    [peers |-> r.changed, filter |-> r.filter, derp |-> r.derp,
     tka |-> IF r.tka = Nil THEN "off" ELSE r.tka,
     ssh |-> r.ssh]

Merge(old, r) ==
    [peers |-> (old.peers \cup r.changed) \ r.removed,
     filter |-> r.filter,
     derp |-> IF r.derp = Nil THEN old.derp ELSE r.derp,
     tka |-> IF r.tka = Nil THEN old.tka ELSE r.tka,
     ssh |-> IF r.ssh = {} THEN old.ssh ELSE r.ssh]

(* A poll starts with a new mapper and sends the complete map. *)
Connect(omit) ==
    /\ mode = "closed"
    /\ mode' = IF omit THEN "omit" ELSE "peers"
    /\ client' = Replace(Response(FALSE, omit))
    /\ Remember(omit)
    /\ UNCHANGED repoVars

(* The sync ticker of a pinged handler sends a delta. *)
Push ==
    /\ mode # "closed"
    /\ client' = Merge(client, Response(TRUE, mode = "omit"))
    /\ Remember(mode = "omit")
    /\ UNCHANGED <<repoVars, mode>>

(* A map that cannot be written, or any other end of the poll: the mapper  *)
(* and the client's map are discarded.                                     *)
Disconnect ==
    /\ mode # "closed"
    /\ mode' = "closed"
    /\ prevSyncedPeerIDs' = {}
    /\ prevDerpMapChecksum' = Nil
    /\ prevTKAChecksum' = "off"
    /\ client' = NoClient
    /\ UNCHANGED repoVars

Next ==
    \/ \E p \in Peers : AddOrRemoveMachine(p)
    \/ \E x \in Peers \cup {Self} : ChangeQuarantine(x)
    \/ \E v \in SUBSET Peers : SetACLPolicy(v)
    \/ \E d \in DerpMaps : SetDERPMap(d)
    \/ \E h \in Heads \cup {"disabled"} : ChangeTKA(h)
    \/ \E on \in BOOLEAN : SetSSH(on)
    \/ \E omit \in BOOLEAN : Connect(omit)
    \/ Push
    \/ Disconnect

Spec == Init /\ [][Next]_vars

----------------------------------------------------------------------------
MapperTypeOK ==
    /\ rows \in SUBSET Peers
    /\ cut \in SUBSET (Peers \cup {Self})
    /\ valid \in SUBSET Peers
    /\ derp \in DerpMaps
    /\ tka \in TkaStates
    /\ ssh \in BOOLEAN
    /\ mode \in {"closed", "omit", "peers"}
    /\ prevSyncedPeerIDs \in SUBSET Peers
    /\ prevDerpMapChecksum \in DerpMaps \cup {Nil}
    /\ prevTKAChecksum \in TkaStates
    /\ client \in Clients

(* The mapper's memory is the client's state: whatever changed meanwhile,  *)
(* the deltas leave the client with exactly the peers, the DERP map and    *)
(* the TKA state the next delta is computed against.  One peer too many in *)
(* the memory or too few in PeersRemoved would stay with the client until  *)
(* it reconnects.                                                          *)
MemoryIsClient ==
    mode # "closed" =>
        /\ client.peers = prevSyncedPeerIDs
        /\ client.derp = prevDerpMapChecksum
        /\ client.tka = prevTKAChecksum

(* Every map, complete or delta, leaves the client with what the           *)
(* repository says at that moment: the visible peers and no others, a      *)
(* packet filter for them, the DERP map, the key authority's state and the *)
(* SSH policy if there is one.                                             *)
InSync(omit, cl) ==
    /\ cl.peers = SyncedPeers(omit)
    /\ cl.filter = FilterPeers(omit)
    /\ cl.derp = derp
    /\ cl.tka = tka
    /\ SSHPolicy(omit) # {} => cl.ssh = SSHPolicy(omit)

MapBringsUpToDate ==
    [][Push \/ (mode = "closed" /\ mode' # "closed") =>
         InSync(mode' = "omit", client')]_vars

(* A quarantined machine is cut off by its next map: it has no peers and a *)
(* closed packet filter, and no other client's map shows it.               *)
QuarantineTakesEffect ==
    [][Push =>
         /\ Self \in cut => client'.peers = {} /\ client'.filter = {}
         /\ (client'.peers \cup client'.filter) \cap cut = {}]_vars
=============================================================================
