------------------------------ MODULE NodeServices -----------------------------
(***************************************************************************)
(* What a running server tells the nodes of a tailnet besides their peers: *)
(* the DNS configuration (internal/service/dns.go, internal/mapping),      *)
(* whether "serve" can be used (internal/handlers/query_feature.go) and    *)
(* identity tokens (internal/handlers/id_token.go).  Server is the process *)
(* they run in, with its keys, its DNS provider and its restarts.          *)
(***************************************************************************)
EXTENDS Server

CONSTANTS
    DNSConfigs,   \* the configurations a request may bring
    Machines      \* a machine key -> "unknown", "tagged" or "user"

ASSUME NodeAssumption ==
    \A c \in DNSConfigs : DOMAIN c = {"magic", "certs", "override", "nameservers", "routes",
                                     "records"}

VARIABLES
    dnsConfig,    \* DNSConfig of the tailnet: [magic, certs, override, nameservers, routes,
                  \* records]; routes is the set of routed names, a record [name, type, value]
    unchecked,    \* history: dnsConfig was last written by UpdateTailnet
    issued        \* history: the tokens issued, [kid, of]

nodeVars == <<dnsConfig, unchecked, issued>>

----------------------------------------------------------------------------
ToUpper(type) == IF type = "a" THEN "A" ELSE type

validateDNSConfig(c) ==
    \A r \in c.records :
        /\ r.name \notin {"", "no name"}
        /\ r.value \in {"v4", "v6"}
        /\ ToUpper(r.type) \in {"", "A", "AAAA"}
        /\ ToUpper(r.type) = "A" => r.value = "v4"
        /\ r.type = "AAAA" => r.value = "v6"

apiRecordsToDomainRecords(records) == {[r EXCEPT !.type = ToUpper(r.type)] : r \in records}

apiDNSConfigToDomainDNSConfig(c) ==
    [c EXCEPT !.records = apiRecordsToDomainRecords(c.records)]

(* The routes are left out unless a route, a record or a certificate needs *)
(* them.  A name without resolvers is answered by MagicDNS.                *)
ToDNSConfig(c) ==
    LET certsEnabled == c.certs /\ DNSProviderConfigured
        ownNames == {r.name : r \in c.records} \cup (IF c.magic THEN {"tailnet"} ELSE {})
        needed == c.routes # {} \/ c.records # {} \/ certsEnabled
    IN [proxied |-> c.magic,
        domains |-> IF c.magic THEN {"tailnet"} ELSE {},
        certDomains |-> c.magic /\ certsEnabled,
        resolvers |-> IF c.override THEN c.nameservers ELSE {},
        fallback |-> IF c.override THEN {} ELSE c.nameservers,
        records |-> c.records,
        routes |-> IF ~needed THEN {}
                   ELSE [name : c.routes, magic : {FALSE}]
                          \cup [name : ownNames \ c.routes, magic : {TRUE}]]

(* The feature "serve", for a machine that exists *)
QueryFeature(s) == srv[s].provider # "none" /\ dnsConfig.certs

----------------------------------------------------------------------------
SetDNSConfigAnyway(s, c) == \* Mutant: certificates without MagicDNS are accepted
    /\ Does("nodes") /\ Listening(s)
    /\ validateDNSConfig(c)
    /\ c.certs => srv[s].provider # "none"
    /\ dnsConfig' = apiDNSConfigToDomainDNSConfig(c)
    /\ unchecked' = (unchecked /\ dnsConfig' = dnsConfig)
    /\ UNCHANGED <<vars, issued>>

SetDNSConfig(s, c) ==
    /\ Does("nodes") /\ Listening(s)
    /\ validateDNSConfig(c)
    /\ c.certs => c.magic
    /\ c.certs => srv[s].provider # "none"
    /\ dnsConfig' = apiDNSConfigToDomainDNSConfig(c)
    /\ unchecked' = (unchecked /\ dnsConfig' = dnsConfig)
    /\ UNCHANGED <<vars, issued>>

(* UpdateTailnet checks the records only. *)
UpdateTailnetDNS(s, c) ==
    /\ Does("nodes") /\ Listening(s)
    /\ validateDNSConfig(c)
    /\ dnsConfig' = apiDNSConfigToDomainDNSConfig(c)
    /\ unchecked' = TRUE
    /\ UNCHANGED <<vars, issued>>

(* The operator edits the DNS section while the server is down. *)
Reconfigure(dns) ==
    /\ Does("nodes") /\ ends > 0
    /\ \A s \in Servers : srv[s].pc = "off"
    /\ load' = [load EXCEPT !.dns = dns]
    /\ UNCHANGED <<dbVars, srv, pluginVars, req, seen, ends, nodeVars>>

(* The token names the machine's tags, or else its user, and the key of    *)
(* the stored key set.                                                     *)
FetchToken(s, m) ==
    /\ Does("tokens") /\ ServesNodes(s)
    /\ Machines[m] # "unknown"
    /\ issued' = issued \cup {[kid |-> db.jwks, of |-> m,
                               claim |-> IF Machines[m] = "tagged" THEN "tags" ELSE "user"]}
    /\ UNCHANGED <<vars, dnsConfig, unchecked>>

(* The keys a relying party is given *)
Jwks == {db.jwks}

NodeInit ==
    /\ ServerInit
    /\ dnsConfig = [magic |-> TRUE, certs |-> FALSE, override |-> FALSE, nameservers |-> {},
                    routes |-> {}, records |-> {}]
    /\ unchecked = FALSE
    /\ issued = {}

NodeNext ==
    \/ ServerNext /\ UNCHANGED nodeVars
    \/ \E s \in Servers :
        \/ \E c \in DNSConfigs : SetDNSConfig(s, c) \/ UpdateTailnetDNS(s, c)
        \/ \E m \in DOMAIN Machines : FetchToken(s, m)
    \/ \E dns \in {d.dns : d \in Loads} : NewProvider(dns) \in {"none", "builtin"} /\ Reconfigure(dns)

NodeSpec == NodeInit /\ [][NodeNext]_<<vars, nodeVars>> /\ ServerFairness

----------------------------------------------------------------------------
(* A node is offered "serve" exactly when it is also given a certificate   *)
(* domain and its set-dns requests are served, whatever the operator       *)
(* changed between two starts -- as long as the configuration was set with *)
(* SetDNSConfig, which insists on MagicDNS; UpdateTailnet does not.        *)
ServeMeansCertificates ==
    \A s \in Servers : ServesNodes(s) =>
        LET told == ToDNSConfig(dnsConfig).certDomains IN
        /\ told => QueryFeature(s) /\ srv[s].provider # "none"
        /\ QueryFeature(s) /\ ~unchecked => told

(* Clients pin the control key and relying parties the token key: whatever *)
(* crashed and restarted, every server that serves uses the keys the first *)
(* one served with, and the key of every identity token that was issued is *)
(* among those published.                                                  *)
KeysOutliveRestarts ==
    /\ \A s \in Servers :
          ServesNodes(s) => /\ srv[s].key = seen.keys
                            /\ db.jwks = seen.jwks /\ db.jwks # 0
    /\ \A t \in issued : t.kid \in Jwks
================================================================================
