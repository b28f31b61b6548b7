--------------------------- MODULE CredentialsProofs ---------------------------
(***************************************************************************)
(* Proofs about Server, NodeServices and Credentials, which the last one   *)
(* composes: for any number of servers, accounts, requests and keys, and   *)
(* for every workload.                                                     *)
(***************************************************************************)
EXTENDS Credentials, TLAPS

----------------------------------------------------------------------------
(* The inductive invariant *)

LoadFields == {"kind", "servers", "recorded", "orgs", "twins", "key", "config", "dns", "stun",
               "ends", "does"}
DbFields == {"recorded", "schema", "keys", "jwks", "org"}
SrvFields == {"pc", "key", "left", "provider", "derp"}
PmFields == {"proc", "exited", "inst", "writer"}
ReqFields == {"pc", "to", "acme"}
DnsFields == {"magic", "certs", "override", "nameservers", "routes", "records"}

Solo == \E s \in Servers : load.servers = {s}

(* The stages of a server: what needs the lock, what is ready to serve. *)
Migrating == {"alter", "record", "orgs"}
Critical == {"migrate", "keys", "setkeys", "jwks", "setjwks"} \cup Migrating
Ready == {"listen", "serving", "metrics", "drain", "stun"}
Up == {"setup"} \cup Ready
Early == {"off", "lock", "setup"} \cup Critical

Shapes ==
    /\ DOMAIN load = LoadFields /\ load.kind \in {"postgres", "sqlite"}
    /\ load.servers \subseteq Servers /\ load.recorded \in 0 .. Done
    /\ NewProvider(load.dns) = "plugin" => Solo
    /\ DOMAIN db = DbFields /\ DOMAIN db.org = Accounts /\ db.recorded \in load.recorded .. Done
    /\ DOMAIN srv = Servers
    /\ \A s \in Servers : /\ DOMAIN srv[s] = SrvFields /\ srv[s].pc \in Early \cup Ready
                          /\ srv[s].pc # "off" => s \in load.servers
    /\ DOMAIN pm = PmFields
    /\ DOMAIN req = Requests /\ \A r \in Requests : DOMAIN req[r] = ReqFields
    /\ drawn \in Nat /\ ends \in Nat

(* A database on which nothing is left to do. *)
UpToDate == db.recorded = Done /\ db.keys # 0 /\ db.jwks # 0

(* Who is in a critical stage of a Postgres database has the lock; SQLite  *)
(* has one server or needs none.                                           *)
Exclusion ==
    IF load.kind = "postgres"
    THEN \A s \in Servers : srv[s].pc \in Critical => advisory = s
    ELSE Solo \/ UpToDate

(* The schema without what the next migration drops, and with what it adds *)
Base == SchemaAt(db.recorded) \ Drops(Current)

(* What the stage of a server says of the database. *)
Stage(s) ==
    LET pc == srv[s].pc IN
    /\ pc \in Migrating => db.recorded < Done
    /\ pc = "alter" => Base \subseteq db.schema /\ db.schema \subseteq Base \cup Current.adds
    /\ pc \in {"record", "orgs"} => db.schema = Base \cup Current.adds
    /\ pc = "record" => Current.does # "orgs"
    /\ pc = "orgs" => /\ Current.does = "orgs"
                      /\ \A a \in Accounts \ srv[s].left : db.org[a] = RecoveredOrg(load.orgs[a])
    /\ pc \in {"keys", "setkeys", "jwks", "setjwks"} \cup Up => db.recorded = Done
    /\ pc = "setkeys" => db.keys = 0
    /\ pc = "setjwks" => db.jwks = 0
    /\ pc \in {"jwks", "setjwks"} \cup Up => db.keys # 0
    /\ pc \in Up => db.jwks # 0

(* The key a server uses: the configured one or the stored one. *)
TheKey == IF load.key # 0 THEN load.key ELSE db.keys

ReadyServer(s) ==
    srv[s].pc \in Ready => /\ srv[s].key = TheKey /\ srv[s].key # 0
                           /\ srv[s].provider # "none" <=> load.dns.zone
                           /\ srv[s].pc # "listen" => seen.keys # 0

Database ==
    /\ db.recorded < Done => /\ Base \subseteq db.schema
                             /\ db.schema \subseteq SchemaAt(db.recorded) \cup Current.adds
    /\ db.recorded = Done => db.schema = SchemaAt(Done)
    /\ \A a \in Accounts : db.org[a] \in {"", RecoveredOrg(load.orgs[a])}
    /\ load.recorded < Done /\ db.recorded = Done
          => \A a \in Accounts : db.org[a] = RecoveredOrg(load.orgs[a])
    /\ seen.keys # 0 => /\ seen.keys = TheKey /\ seen.jwks = db.jwks
                        /\ db.keys # 0 /\ db.jwks # 0

Idle == \A r \in Requests : req[r].pc = "idle"

(* Who restarts the plugin has the write lock until it is configured, and  *)
(* has killed the old process.                                             *)
Locked == \A r \in Requests :
             /\ req[r].pc \in {"starting", "configure"} => pm.writer = r
             /\ req[r].pc = "starting" => pm.proc = 0

Plugins ==
    /\ alive \ orphans \subseteq {pm.proc}
    /\ 0 \notin alive /\ pm.inst \notin orphans /\ Locked
    /\ pm.writer = 0 /\ pm.inst \in alive => pm.inst \in conf \cup failed
    /\ \A s \in Servers :
          load.servers = {s} /\ srv[s].pc \in Early => alive \subseteq orphans /\ Idle

Nodes ==
    /\ DOMAIN dnsConfig = DnsFields
    /\ unchecked \in BOOLEAN
    /\ ~unchecked => (dnsConfig.certs => dnsConfig.magic)
    /\ \A t \in issued : t.kid = db.jwks /\ db.jwks # 0

(* The value that is handed out with a row *)
Value(r) == IF r.kind = "system" THEN <<"sk", r.key, r.hash>> ELSE <<r.key, r.hash>>

(* What was handed out: its parts are drawn, and no two tokens have one    *)
(* value.                                                                  *)
Minted ==
    /\ \A m \in minted :
          /\ m.expires \in Int /\ m.created \in Int
          /\ \/ m.kind = "admin" /\ \E a \in Parts : m.value = <<"st", a>>
             \/ m.kind \in {"api", "auth"} /\ \E a, b \in Parts : m.value = <<a, b>>
             \/ m.kind = "system" /\ \E a, b \in Parts : m.value = <<"sk", a, b>>
    /\ \A m, n \in minted : m.value = n.value => m = n
    /\ \A v \in gone : \E a, b \in Parts : v = <<a, b>>

(* A row is there for as long as its token was not deleted, and says what  *)
(* was handed out; a sealed blob says what was sealed.                     *)
SameKey(r, m) == /\ r.kind = m.kind /\ Value(r) = m.value /\ r.of = m.of
                 /\ r.expires = m.expires
SameSeal(b, m) == <<"st", b.blob>> = m.value /\ b.by = m.by /\ b.created = m.created

Rows ==
    /\ \A r \in creds : /\ r.kind \in {"api", "auth", "system"} /\ r.key \in Parts
                        /\ Value(r) \notin gone
                        /\ \E m \in minted : SameKey(r, m)
    /\ \A r, q \in creds : r.key = q.key => r = q
    /\ \A m \in minted : m.kind # "admin" /\ m.value \notin gone => \E r \in creds : SameKey(r, m)
    /\ \A b \in sealed : \E m \in minted : m.kind = "admin" /\ SameSeal(b, m)
    /\ \A m \in minted : m.kind = "admin" => \E b \in sealed : SameSeal(b, m)

Tokens == now \in Nat /\ drawnAtoms \in 0 .. Len(Atoms) /\ Minted /\ Rows

ServerInv == /\ Shapes /\ Exclusion /\ Database /\ Plugins
             /\ \A s \in Servers : Stage(s) /\ ReadyServer(s)

----------------------------------------------------------------------------
(* The migrations *)

(* There are nineteen migrations and each has what it does and adds. *)
LEMMA Nineteen == Done = 19 /\ Migrations[19].does = "orgs"
  BY Zenon DEF Done, Migrations, m202609011200_account_organization, Migration

(* The schema after one more migration: what it drops goes, what it adds   *)
(* comes.                                                                  *)
LEMMA NextSchema ==
  ASSUME NEW n \in 0 .. Done - 1
  PROVE  SchemaAt(n + 1) = (SchemaAt(n) \ Drops(Migrations[n + 1])) \cup Migrations[n + 1].adds
<1> DEFINE In(x, m) == \E i \in 1 .. m : /\ x \in Migrations[i].adds
                                         /\ \A j \in i + 1 .. m : x \notin Drops(Migrations[j])
<1>0. n \in Nat
  BY Nineteen
<1>1. \A m \in Nat : \A x : x \in SchemaAt(m) <=> In(x, m)
  BY Zenon DEF SchemaAt
<1>2. ASSUME NEW x, In(x, n + 1), x \notin Migrations[n + 1].adds
      PROVE  In(x, n) /\ x \notin Drops(Migrations[n + 1])
  <2>1. PICK i \in 1 .. n + 1 : x \in Migrations[i].adds
                                /\ \A j \in i + 1 .. n + 1 : x \notin Drops(Migrations[j])
    BY <1>2, Zenon
  <2>2. i # n + 1
    BY <2>1, <1>2, Zenon
  <2>3. i \in 1 .. n /\ n + 1 \in i + 1 .. n + 1 /\ i + 1 .. n \subseteq i + 1 .. n + 1
    BY <1>0, <2>2
  <2> QED  BY <2>1, <2>3, Zenon
<1>3. ASSUME NEW x, In(x, n), x \notin Drops(Migrations[n + 1])
      PROVE  In(x, n + 1)
  <2>1. PICK i \in 1 .. n : x \in Migrations[i].adds
                            /\ \A j \in i + 1 .. n : x \notin Drops(Migrations[j])
    BY <1>3, Zenon
  <2>2. i \in 1 .. n + 1 /\ \A j \in i + 1 .. n + 1 : j \in i + 1 .. n \/ j = n + 1
    BY <1>0
  <2> QED  BY <2>1, <2>2, <1>3, Zenon
<1>4. ASSUME NEW x, x \in Migrations[n + 1].adds
      PROVE  In(x, n + 1)
  <2>1. n + 1 \in 1 .. n + 1 /\ (n + 1) + 1 .. n + 1 = {}
    BY <1>0
  <2> QED  BY <2>1, <1>4, Zenon
<1>5. n + 1 \in Nat
  BY <1>0
<1> HIDE DEF In
<1> QED  BY <1>0, <1>1, <1>2, <1>3, <1>4, <1>5, Zenon

(* What is not an index on names stays once a migration has added it. *)
LEMMA Added ==
  ASSUME NEW i \in 1 .. Done, NEW x \in Migrations[i].adds, x \notin NameIndexes
  PROVE  x \in SchemaAt(Done)
BY Nineteen, Zenon DEF SchemaAt, Drops

(* The schema after all migrations has what the domain types use. *)
LEMMA DomainServed == DomainSchema \subseteq SchemaAt(Done)
<1> SUFFICES ASSUME NEW x \in DomainSchema
             PROVE  x \notin NameIndexes /\ \E i \in 1 .. Done : x \in Migrations[i].adds
  BY Added, Zenon
<1>1. x \notin NameIndexes
  BY Zenon DEF DomainSchema, TailnetColumns, MachineColumns, AccountColumns, UserColumns,
         AuthKeyColumns, RegistrationRequestColumns, OtherTables, NameIndexes
<1>2. /\ Migrations[1] = m202209070900_initial_schema
      /\ Migrations[2] = m202209251530_add_autoallowips_column
      /\ Migrations[5] = m202210040828_add_derpmap_colum
      /\ Migrations[6] = m202210070814_add_filesharing_and_servicecollection_columns
      /\ Migrations[7] = m202210080700_ssh_action_request
      /\ Migrations[8] = m202211031100_add_authorized_column
      /\ Migrations[9] = m202212201300_add_user_id_column
      /\ Migrations[14] = m202402120800_user_last_authenticated
      /\ Migrations[15] = m202403130830_json_to_text
      /\ Migrations[16] = m202502150830_use_hostname
      /\ Migrations[17] = m202608311000_add_tailnet_organization
      /\ Migrations[18] = m202608312000_tailnet_lock
      /\ Migrations[19] = m202609011200_account_organization
  BY Zenon DEF Migrations
<1>3. \A i \in {1, 2, 5, 6, 7, 8, 9, 14, 15, 16, 17, 18, 19} : i \in 1 .. Done
  BY Nineteen
<1>4. x \in UNION {Migrations[i].adds : i \in {1, 2, 5, 6, 7, 8, 9, 14, 15, 16, 17, 18, 19}}
  <2>1. CASE x \in TailnetColumns
    BY <1>2, <2>1 DEF Migration, TailnetColumns, m202209070900_initial_schema,
      m202210040828_add_derpmap_colum, m202210080700_ssh_action_request,
      m202210070814_add_filesharing_and_servicecollection_columns,
      m202211031100_add_authorized_column, m202403130830_json_to_text,
      m202608311000_add_tailnet_organization, m202608312000_tailnet_lock
  <2>2. CASE x \in MachineColumns
    BY <1>2, <2>2 DEF Migration, MachineColumns, m202209070900_initial_schema,
      m202209251530_add_autoallowips_column, m202211031100_add_authorized_column,
      m202502150830_use_hostname, m202608312000_tailnet_lock
  <2>3. CASE x \in AccountColumns \cup UserColumns \cup AuthKeyColumns
    BY <1>2, <2>3 DEF Migration, AccountColumns, UserColumns, AuthKeyColumns,
      m202209070900_initial_schema, m202609011200_account_organization,
      m202402120800_user_last_authenticated, m202211031100_add_authorized_column
  <2>4. CASE x \in RegistrationRequestColumns \cup OtherTables
    BY <1>2, <2>4 DEF Migration, RegistrationRequestColumns, OtherTables,
      m202209070900_initial_schema, m202212201300_add_user_id_column,
      m202210080700_ssh_action_request, m202608312000_tailnet_lock
  <2> QED  BY <2>1, <2>2, <2>3, <2>4, Zenon DEF DomainSchema
<1> QED  BY <1>1, <1>3, <1>4, Zenon

(* Of the indexes on names the last one is left. *)
LEMMA OneNameIndex == SchemaAt(Done) \cap NameIndexes = {"idx_name_unique_in_tailnet"}
<1>1. /\ Migrations[13] = m202401061400_machine_indeces
      /\ Migrations[14] = m202402120800_user_last_authenticated
      /\ Migrations[15] = m202403130830_json_to_text
      /\ Migrations[16] = m202502150830_use_hostname
      /\ Migrations[17] = m202608311000_add_tailnet_organization
      /\ Migrations[18] = m202608312000_tailnet_lock
      /\ Migrations[19] = m202609011200_account_organization
  BY Zenon DEF Migrations
<1>2. Drops(Migrations[13]) = NameIndexes
      /\ Migrations[13].adds = {"idx_name_unique_in_tailnet"}
  <2>1. Migrations[13].does = "index" /\ Migrations[13].adds = {"idx_name_unique_in_tailnet"}
    BY <1>1 DEF Migration, m202401061400_machine_indeces
  <2> QED  BY <2>1, Zenon DEF Drops
<1>3. \A i \in 14 .. 19 : Migrations[i].adds \cap NameIndexes = {} /\ Drops(Migrations[i]) = {}
  <2>1. \A i \in 14 .. 19 : i = 14 \/ i = 15 \/ i = 16 \/ i = 17 \/ i = 18 \/ i = 19
    OBVIOUS
  <2>2. /\ Migrations[14].does = "auto" /\ Migrations[14].adds = {"User.LastAuthenticated"}
        /\ Migrations[15].does = "auto"
        /\ Migrations[15].adds = {"Tailnet.IAMPolicy_text", "Tailnet.ACLPolicy_text"}
    BY <1>1 DEF Migration, m202402120800_user_last_authenticated, m202403130830_json_to_text
  <2>3. /\ Migrations[16].does = "add" /\ Migrations[16].adds = {"Machine.UseOSHostname"}
        /\ Migrations[17].does = "auto" /\ Migrations[17].adds = {"Tailnet.Organization"}
    BY <1>1 DEF Migration, m202502150830_use_hostname, m202608311000_add_tailnet_organization
  <2>4. /\ Migrations[18].does = "auto"
        /\ Migrations[18].adds = {"Tailnet.TailnetLockEnabled", "Machine.NLKey",
                                  "Machine.KeySignature", "TKAAum", "TailnetTKAState"}
        /\ Migrations[19].does = "orgs" /\ Migrations[19].adds = {"Account.Organization"}
    BY <1>1 DEF Migration, m202608312000_tailnet_lock, m202609011200_account_organization
  <2>5. \A i \in {14, 15, 16, 17, 18, 19} : Migrations[i].does # "index"
    BY <2>2, <2>3, <2>4, Zenon
  <2>6. \A i \in {14, 15, 16, 17, 18, 19} : Migrations[i].adds \cap NameIndexes = {}
    BY <2>2, <2>3, <2>4 DEF NameIndexes
  <2> QED  BY <2>1, <2>5, <2>6, Zenon DEF Drops
<1>4. "idx_name_unique_in_tailnet" \in SchemaAt(19)
  <2>1. 13 \in 1 .. 19 /\ 13 + 1 .. 19 = 14 .. 19
    OBVIOUS
  <2> QED  BY <1>2, <1>3, <2>1, Zenon DEF SchemaAt
<1>5. ASSUME NEW x \in SchemaAt(19), x \in NameIndexes
      PROVE  x = "idx_name_unique_in_tailnet"
  <2>1. PICK i \in 1 .. 19 : x \in Migrations[i].adds
                             /\ \A j \in i + 1 .. 19 : x \notin Drops(Migrations[j])
    BY <1>5, Zenon DEF SchemaAt
  <2>2. ~(13 \in i + 1 .. 19)
    BY <2>1, <1>2, <1>5, Zenon
  <2>3. i = 13 \/ i \in 14 .. 19
    BY <2>2
  <2>4. CASE i = 13
    BY <2>1, <2>4, <1>2, Zenon
  <2>5. CASE i \in 14 .. 19
    BY <2>1, <2>5, <1>3, <1>5, Zenon
  <2> QED  BY <2>3, <2>4, <2>5, Zenon
<1> QED  BY <1>4, <1>5, Nineteen, Zenon DEF NameIndexes

(* What is recovered is the one organization of the account's tailnets. *)
LEMMA RecoveredIsIts ==
  ASSUME NEW orgs, RecoveredOrg(orgs) # ""
  PROVE  orgs \ {NULL} = {RecoveredOrg(orgs)}
<1>1. RecoveredOrg(orgs) = CHOOSE o \in orgs \ {NULL} : TRUE
  BY Zenon DEF RecoveredOrg
<1>2. PICK o : orgs \ {NULL} = {o}
  BY Zenon DEF RecoveredOrg
<1> QED  BY <1>1, <1>2, Zenon

(* One organization without a comma is recovered. *)
LEMMA OneIsRecovered ==
  ASSUME NEW orgs, NEW o, orgs \ {NULL} = {o}, o \notin WithComma
  PROVE  RecoveredOrg(orgs) = o
<1>1. (CHOOSE x \in orgs \ {NULL} : TRUE) = o
  BY Zenon
<1> QED  BY <1>1, Zenon DEF RecoveredOrg

----------------------------------------------------------------------------
(* The start of a server *)

(* Who changes the database finds no other server that has read it. *)
LEMMA OthersWait ==
  ASSUME Shapes, Exclusion, \A t \in Servers : Stage(t),
         NEW s \in Servers, srv[s].pc \in Critical, ~UpToDate
  PROVE  /\ \A t \in Servers \ {s} : srv[t].pc \in {"off", "lock"}
         /\ load.kind = "sqlite" => Solo
<1>1. ASSUME NEW t \in Servers, t # s, srv[t].pc \notin {"off", "lock"}
      PROVE  FALSE
  <2>1. srv[t].pc \notin Up
    BY Zenon DEF Stage, Up, UpToDate
  <2>2. srv[t].pc \in Critical
    BY <2>1, <1>1, Zenon DEF Shapes, Early, Up
  <2>3. CASE load.kind = "postgres"
    BY <1>1, <2>2, <2>3, Zenon DEF Exclusion
  <2>4. CASE load.kind # "postgres"
    <3>1. PICK u \in Servers : load.servers = {u}
      BY <2>4, Zenon DEF Exclusion, Solo
    <3>2. srv[s].pc # "off"
      BY Zenon DEF Critical, Migrating
    <3> QED  BY <1>1, <3>1, <3>2, Zenon DEF Shapes
  <2> QED  BY <2>3, <2>4, Zenon
<1>2. load.kind = "sqlite" => Solo
  BY Zenon DEF Exclusion
<1> QED  BY <1>1, <1>2, Zenon

(* A step of server s on the shared state: who else read the database is   *)
(* not disturbed.                                                          *)
SharedStep(s) ==
    /\ load' = load /\ (seen' = seen \/ seen'.keys # 0)
    /\ DOMAIN srv' = Servers /\ DOMAIN srv'[s] = SrvFields
    /\ srv'[s].pc \in Early \cup Ready
    /\ \A t \in Servers \ {s} : srv'[t] = srv[t]
    /\ db' = db \/ (srv[s].pc \in Critical /\ ~UpToDate)
    /\ \A t \in Servers \ {s} : advisory = t => advisory' = t
    /\ load.kind = "postgres" /\ srv'[s].pc \in Critical => advisory' = s

(* Such a step keeps the invariant when it does for the server itself. *)
LEMMA StepsApart ==
  ASSUME ServerInv, NEW s \in Servers, s \in load.servers, SharedStep(s), Shapes',
         Database', Plugins', Stage(s)', ReadyServer(s)'
  PROVE  ServerInv'
<1>1. db' = db \/ \A t \in Servers \ {s} : srv[t].pc \in {"off", "lock"}
  BY OthersWait, Zenon DEF ServerInv, SharedStep
<1>2. ASSUME NEW t \in Servers, t # s
      PROVE  Stage(t)' /\ ReadyServer(t)'
  <2>0. /\ srv'[t] = srv[t] /\ load' = load /\ (seen' = seen \/ seen'.keys # 0)
        /\ Stage(t) /\ ReadyServer(t)
    BY <1>2, Zenon DEF SharedStep, ServerInv
  <2>1. CASE db' = db
    <3>1. Stage(t)'
      BY <2>0, <2>1, Zenon DEF Stage, Base, Current
    <3>2. ReadyServer(t)'
      BY <2>0, <2>1, Zenon DEF ReadyServer, TheKey
    <3> QED  BY <3>1, <3>2, Zenon
  <2>2. CASE srv[t].pc \in {"off", "lock"}
    <3>1. srv'[t].pc \notin {"keys", "setkeys", "jwks", "setjwks"} \cup Up \cup Migrating
          /\ srv'[t].pc \notin Ready
      BY <2>0, <2>2, Zenon DEF Up, Ready, Migrating
    <3> QED  BY <3>1, Zenon DEF Stage, ReadyServer, Up, Migrating
  <2> QED  BY <1>1, <1>2, <2>1, <2>2, Zenon
<1>3. Exclusion'
  <2>1. CASE load.kind = "postgres"
    <3>1. ASSUME NEW t \in Servers, srv'[t].pc \in Critical  PROVE advisory' = t
      <4>1. CASE t = s
        BY <2>1, <3>1, <4>1, Zenon DEF SharedStep
      <4>2. CASE t # s
        BY <2>1, <3>1, <4>2, Zenon DEF SharedStep, ServerInv, Exclusion
      <4> QED  BY <4>1, <4>2, Zenon
    <3> QED  BY <2>1, <3>1, Zenon DEF Exclusion, SharedStep
  <2>2. CASE load.kind # "postgres"
    <3>1. CASE db' = db
      BY <2>2, <3>1, Zenon DEF SharedStep, ServerInv, Exclusion, Solo, UpToDate
    <3>2. CASE ~UpToDate
      <4>1. Solo
        BY <2>2, <3>2, Zenon DEF ServerInv, Exclusion
      <4> QED  BY <2>2, <4>1, Zenon DEF SharedStep, Exclusion, Solo
    <3> QED  BY <3>1, <3>2, Zenon DEF SharedStep
  <2> QED  BY <2>1, <2>2, Zenon
<1>4. \A t \in Servers : (Stage(t) /\ ReadyServer(t))'
  BY <1>2, Zenon
<1> QED  BY <1>3, <1>4, Zenon DEF ServerInv

(* A server that moves on before it has a plugin, or after, leaves the     *)
(* plugin alone.                                                           *)
LEMMA PluginsStay ==
  ASSUME Plugins, NEW s \in Servers, load' = load, UNCHANGED <<pluginVars, req>>,
         \A t \in Servers \ {s} : srv'[t] = srv[t],
         srv'[s].pc \in Early => srv[s].pc \in Early
  PROVE  Plugins'
<1>1. ASSUME NEW t \in Servers, load.servers = {t}
      PROVE  srv'[t].pc \in Early => alive \subseteq orphans /\ Idle
  <2>1. CASE t = s
    BY <1>1, <2>1, Zenon DEF Plugins
  <2>2. CASE t # s
    BY <1>1, <2>2, Zenon DEF Plugins
  <2> QED  BY <2>1, <2>2, Zenon
<1>2. Idle' = Idle /\ Locked' = Locked
  BY Zenon DEF Idle, Locked, pluginVars
<1> QED  BY <1>1, <1>2, Zenon DEF Plugins, pluginVars

(* A step that leaves the database as it is leaves it in order. *)
LEMMA DatabaseStays ==
  ASSUME Database, load' = load, db' = db, seen' = seen
  PROVE  Database'
BY Zenon DEF Database, Base, Current, TheKey

(* A server moves on. *)
Moved(s, pc) ==
    /\ DOMAIN srv' = Servers /\ DOMAIN srv'[s] = SrvFields /\ srv'[s].pc = pc
    /\ \A t \in Servers \ {s} : srv'[t] = srv[t]

(* Goto moves a server and leaves the rest of its state. *)
LEMMA GotoMoves ==
  ASSUME Shapes, NEW s \in Servers, NEW pc, Goto(s, pc)
  PROVE  /\ Moved(s, pc) /\ srv'[s].key = srv[s].key /\ srv'[s].left = srv[s].left
         /\ srv'[s].provider = srv[s].provider
<1>1. DOMAIN srv = Servers /\ DOMAIN srv[s] = SrvFields
  BY Zenon DEF Shapes
<1>2. srv'[s] = [srv[s] EXCEPT !.pc = pc]
  BY <1>1, Zenon DEF Goto
<1>3. DOMAIN srv'[s] = SrvFields /\ srv'[s].pc = pc /\ srv'[s].key = srv[s].key
      /\ srv'[s].left = srv[s].left /\ srv'[s].provider = srv[s].provider
  BY <1>1, <1>2, Zenon DEF SrvFields
<1>4. DOMAIN srv' = Servers /\ \A t \in Servers \ {s} : srv'[t] = srv[t]
  BY <1>1, Zenon DEF Goto
<1> QED  BY <1>3, <1>4, Zenon DEF Moved

(* It moves on without writing to the database. *)
LEMMA MovesOn ==
  ASSUME ServerInv, NEW s \in Servers, s \in load.servers, NEW pc \in Early \cup Ready,
         Moved(s, pc), UNCHANGED <<load, db, drawn, pluginVars, req, seen, ends>>,
         \A t \in Servers \ {s} : advisory = t => advisory' = t,
         load.kind = "postgres" /\ pc \in Critical => advisory' = s,
         pc \in Early => srv[s].pc \in Early,
         Stage(s)', ReadyServer(s)'
  PROVE  ServerInv'
<1>1. SharedStep(s)
  BY Zenon DEF SharedStep, Moved
<1>2. Database'
  BY DatabaseStays, Zenon DEF ServerInv
<1>3. Plugins'
  BY PluginsStay, Zenon DEF ServerInv, Moved
<1>4. Shapes'
  <2>1. ASSUME NEW t \in Servers
        PROVE  /\ DOMAIN srv'[t] = SrvFields /\ srv'[t].pc \in Early \cup Ready
               /\ srv'[t].pc # "off" => t \in load.servers
    BY Zenon DEF ServerInv, Shapes, Moved
  <2>2. DOMAIN srv' = Servers
    BY Zenon DEF Moved
  <2> QED  BY <2>1, <2>2, Zenon DEF ServerInv, Shapes, Solo, pluginVars
<1> QED  BY <1>1, <1>2, <1>3, <1>4, StepsApart, Zenon

(* It writes to the database and moves on. *)
LEMMA WritesOn ==
  ASSUME ServerInv, NEW s \in Servers, srv[s].pc \in Critical, ~UpToDate,
         NEW pc \in Critical \cup {"setup"},
         Moved(s, pc), UNCHANGED <<load, pluginVars, req, seen, ends>>,
         DOMAIN db' = DbFields, DOMAIN db'.org = Accounts, db'.recorded \in db.recorded .. Done,
         drawn' \in Nat,
         \/ advisory' = advisory
         \/ pc = "setup" /\ advisory' = (IF advisory = s THEN NoServer ELSE advisory),
         Database', Stage(s)'
  PROVE  ServerInv'
<1>0. s \in load.servers /\ pc \in Early /\ pc \notin Ready /\ srv[s].pc \in Early
  BY Zenon DEF ServerInv, Shapes, Critical, Migrating, Early, Ready
<1>1. SharedStep(s)
  <2>1. load.kind = "postgres" /\ pc \in Critical => advisory' = s
    <3>1. "setup" \notin Critical
      BY Zenon DEF Critical, Migrating
    <3> QED  BY <3>1, Zenon DEF ServerInv, Exclusion
  <2> QED  BY <1>0, <2>1, Zenon DEF SharedStep, Moved
<1>3. Plugins'
  BY <1>0, PluginsStay, Zenon DEF ServerInv, Moved
<1>4. Shapes'
  <2>1. ASSUME NEW t \in Servers
        PROVE  /\ DOMAIN srv'[t] = SrvFields /\ srv'[t].pc \in Early \cup Ready
               /\ srv'[t].pc # "off" => t \in load.servers
    BY <1>0, Zenon DEF ServerInv, Shapes, Moved
  <2>2. DOMAIN srv' = Servers
    BY Zenon DEF Moved
  <2>3. db'.recorded \in load.recorded .. Done
    BY Nineteen DEF ServerInv, Shapes
  <2> QED  BY <2>1, <2>2, <2>3, Zenon DEF ServerInv, Shapes, Solo, pluginVars
<1>5. ReadyServer(s)'
  BY <1>0, Zenon DEF Moved, ReadyServer
<1> QED  BY <1>0, <1>1, <1>3, <1>4, <1>5, StepsApart, Zenon

(* A server is gone, at whatever stage. *)
LEMMA GoneKeeps ==
  ASSUME ServerInv, NEW s \in Servers, srv[s].pc # "off", Gone(s), ends' \in Nat,
         UNCHANGED <<load, db, drawn, alive, conf, failed, seen>>
  PROVE  ServerInv'
<1>1. Moved(s, "off")
  <2>1. DOMAIN srv = Servers /\ DOMAIN srv[s] = SrvFields
    BY Zenon DEF ServerInv, Shapes
  <2>2. srv'[s] = [srv[s] EXCEPT !.pc = "off", !.left = {}]
    BY <2>1, Zenon DEF Gone
  <2>3. DOMAIN srv'[s] = SrvFields /\ srv'[s].pc = "off"
    BY <2>1, <2>2, Zenon DEF SrvFields
  <2>4. DOMAIN srv' = Servers /\ \A t \in Servers \ {s} : srv'[t] = srv[t]
    BY <2>1, Zenon DEF Gone
  <2> QED  BY <2>3, <2>4, Zenon DEF Moved
<1>2. SharedStep(s)
  <2>1. "off" \notin Critical /\ "off" \in Early
    BY Zenon DEF Critical, Migrating, Early
  <2> QED  BY <1>1, <2>1, Zenon DEF Moved, SharedStep, Gone
<1>3. Database'
  BY DatabaseStays, Zenon DEF ServerInv
<1>6. Plugins' /\ DOMAIN pm' = PmFields /\ DOMAIN req' = Requests
      /\ \A r \in Requests : DOMAIN req'[r] = ReqFields
  <2>1. CASE load.servers = {s}
    <3>1. PICK i : i = [pc |-> "idle", to |-> 0, acme |-> FALSE]
      BY Zenon
    <3>2. i.pc = "idle" /\ DOMAIN i = ReqFields
      BY <3>1, Zenon DEF ReqFields
    <3>3. req' = [r \in Requests |-> i]
      BY <2>1, <3>1, Zenon DEF Gone
    <3>4. PICK p : p = [proc |-> 0, exited |-> TRUE, inst |-> 0, writer |-> 0]
      BY Zenon
    <3>5. p.inst = 0 /\ p.writer = 0 /\ DOMAIN p = PmFields
      BY <3>4, Zenon DEF PmFields
    <3>6. pm' = p /\ orphans' = alive
      BY <2>1, <3>4, Zenon DEF Gone
    <3>7. Idle' /\ Locked'
      BY <3>2, <3>3, Zenon DEF Idle, Locked
    <3>8. Plugins'
      <4>1. \A t \in Servers : load.servers = {t} => t = s
        BY <2>1, Zenon
      <4> QED  BY <3>5, <3>6, <3>7, <4>1, Zenon DEF ServerInv, Plugins
    <3>9. DOMAIN req' = Requests /\ \A r \in Requests : DOMAIN req'[r] = ReqFields
      BY <3>2, <3>3, Zenon
    <3> QED  BY <3>5, <3>6, <3>8, <3>9, Zenon
  <2>2. CASE load.servers # {s}
    <3>1. UNCHANGED <<req, pm, orphans>>
      BY <2>2, Zenon DEF Gone
    <3>2. Plugins'
      <4>1. ASSUME NEW t \in Servers, load.servers = {t}
            PROVE  srv'[t] = srv[t]
        BY <1>1, <2>2, <4>1, Zenon DEF Moved
      <4>2. Idle' = Idle /\ Locked' = Locked
        BY <3>1, Zenon DEF Idle, Locked
      <4> QED  BY <3>1, <4>1, <4>2, Zenon DEF ServerInv, Plugins
    <3>3. DOMAIN pm' = PmFields /\ DOMAIN req' = Requests
          /\ \A r \in Requests : DOMAIN req'[r] = ReqFields
      BY <3>1, Zenon DEF ServerInv, Shapes
    <3> QED  BY <3>2, <3>3, Zenon
  <2> QED  BY <2>1, <2>2, Zenon
<1>7. Shapes'
  <2>1. ASSUME NEW t \in Servers
        PROVE  /\ DOMAIN srv'[t] = SrvFields /\ srv'[t].pc \in Early \cup Ready
               /\ srv'[t].pc # "off" => t \in load.servers
    BY <1>1, Zenon DEF ServerInv, Shapes, Moved, Early
  <2>2. DOMAIN srv' = Servers
    BY <1>1, Zenon DEF Moved
  <2> QED  BY <1>6, <2>1, <2>2, Zenon DEF ServerInv, Shapes, Solo
<1>8. Stage(s)' /\ ReadyServer(s)'
  BY <1>1, Zenon DEF Moved, Stage, ReadyServer, Migrating, Up, Ready
<1>9. s \in load.servers
  BY Zenon DEF ServerInv, Shapes
<1> QED  BY <1>2, <1>3, <1>6, <1>7, <1>8, <1>9, StepsApart, Zenon

(* A server that fails during its start is gone. *)
LEMMA FailKeeps ==
  ASSUME ServerInv, NEW s \in Servers, srv[s].pc # "off", Fail(s)
  PROVE  ServerInv'
<1>1. ends' \in Nat
  BY Zenon DEF Fail, ServerInv, Shapes
<1> QED  BY <1>1, GoneKeeps, Zenon DEF Fail

(* Start *)
LEMMA StartKeeps ==
  ASSUME ServerInv, NEW s \in Servers, Start(s)
  PROVE  ServerInv'
<1>1. DOMAIN srv = Servers /\ DOMAIN srv[s] = SrvFields
  BY Zenon DEF ServerInv, Shapes
<1>2. PICK d : srv' = [srv EXCEPT ![s] = [srv[s] EXCEPT !.pc = "lock", !.derp = d]]
  BY <1>1, Zenon DEF Start
<1>3. srv'[s] = [srv[s] EXCEPT !.pc = "lock", !.derp = d]
  BY <1>1, <1>2, Zenon
<1>4. DOMAIN srv'[s] = SrvFields /\ srv'[s].pc = "lock"
  BY <1>1, <1>3, Zenon DEF SrvFields
<1>5. Moved(s, "lock")
  BY <1>1, <1>2, <1>4, Zenon DEF Moved
<1>6. "lock" \in Early /\ "off" \in Early /\ "lock" \notin Critical
  BY Zenon DEF Early, Critical, Migrating
<1>7. Stage(s)' /\ ReadyServer(s)'
  BY <1>4, Zenon DEF Stage, ReadyServer, Migrating, Up, Ready
<1>8. /\ s \in load.servers /\ srv[s].pc = "off" /\ advisory' = advisory
      /\ UNCHANGED <<load, db, drawn, pluginVars, req, seen, ends>>
  BY Zenon DEF Start, dbVars
<1> QED  BY <1>5, <1>6, <1>7, <1>8, MovesOn, Zenon

(* Lock *)
LEMMA LockKeeps ==
  ASSUME ServerInv, NEW s \in Servers, Lock(s)
  PROVE  ServerInv'
<1>1. Moved(s, "migrate") /\ srv[s].pc = "lock"
  BY GotoMoves, Zenon DEF Lock, ServerInv
<1>2. "migrate" \in Early /\ "lock" \in Early
  BY Zenon DEF Early, Critical
<1>3. Stage(s)' /\ ReadyServer(s)'
  BY <1>1, Zenon DEF Moved, Stage, ReadyServer, Migrating, Up, Ready
<1>4. s \in load.servers
  BY <1>1, Zenon DEF ServerInv, Shapes
<1>5. \A t \in Servers \ {s} : advisory = t => advisory' = t
  BY ServerAssumption, Zenon DEF Lock
<1>6. load.kind = "postgres" => advisory' = s
  BY Zenon DEF Lock
<1>7. UNCHANGED <<load, db, drawn, pluginVars, req, seen, ends>>
  BY Zenon DEF Lock
<1> QED  BY <1>1, <1>2, <1>3, <1>4, <1>5, <1>6, <1>7, MovesOn, Zenon

(* A database that is written to in its schema, and nothing else of it. *)
LEMMA SchemaWritten ==
  ASSUME Shapes, NEW schema, db' = [db EXCEPT !.schema = schema]
  PROVE  /\ DOMAIN db' = DbFields /\ db'.schema = schema /\ db'.recorded = db.recorded
         /\ db'.keys = db.keys /\ db'.jwks = db.jwks /\ db'.org = db.org
<1>1. DOMAIN db = DbFields
  BY Zenon DEF Shapes
<1> QED  BY <1>1, Zenon DEF DbFields

(* Migrate *)
LEMMA MigrateKeeps ==
  ASSUME ServerInv, NEW s \in Servers, Migrate(s)
  PROVE  ServerInv'
<1>1. srv[s].pc = "migrate" /\ db.recorded < Done /\ srv[s].pc # "off"
  BY Zenon DEF Migrate
<1>2. CASE Fail(s)
  BY <1>1, <1>2, FailKeeps, Zenon
<1>3. CASE ~Fail(s)
  <2>1. /\ db' = [db EXCEPT !.schema = db.schema \ Drops(Current)] /\ Goto(s, "alter")
        /\ UNCHANGED <<load, advisory, drawn, pluginVars, req, seen, ends>>
    BY <1>3, Zenon DEF Migrate
  <2>2. /\ DOMAIN db' = DbFields /\ db'.schema = db.schema \ Drops(Current)
        /\ db'.recorded = db.recorded
        /\ db'.keys = db.keys /\ db'.jwks = db.jwks /\ db'.org = db.org
    BY <2>1, SchemaWritten, Zenon DEF ServerInv
  <2>3. /\ Moved(s, "alter") /\ srv[s].pc \in Critical /\ ~UpToDate
        /\ "alter" \in Critical
    BY <1>1, <2>1, GotoMoves, Nineteen DEF ServerInv, Critical, Migrating, UpToDate, Shapes
  <2>4. Current' = Current /\ Base' = Base
    BY <2>2, Zenon DEF Current, Base
  <2>5. /\ Base \subseteq db.schema \ Drops(Current)
        /\ db.schema \ Drops(Current) \subseteq Base \cup Current.adds
        /\ db.schema \ Drops(Current) \subseteq SchemaAt(db.recorded) \cup Current.adds
    BY <1>1, Zenon DEF ServerInv, Database, Base
  <2>6. Database'
    <3>1. db.recorded # Done
      BY <1>1, Nineteen DEF ServerInv, Shapes
    <3> QED  BY <2>1, <2>2, <2>4, <2>5, <3>1, Zenon DEF ServerInv, Database, TheKey
  <2>7. Stage(s)'
    BY <1>1, <2>2, <2>3, <2>4, <2>5, Zenon DEF Moved, Stage, Up, Ready
  <2>8. db'.recorded \in db.recorded .. Done /\ DOMAIN db'.org = Accounts /\ drawn' \in Nat
    BY <2>1, <2>2, Nineteen DEF ServerInv, Shapes
  <2> QED  BY <2>1, <2>2, <2>3, <2>6, <2>7, <2>8, WritesOn, Zenon
<1> QED  BY <1>2, <1>3, Zenon

(* Alter *)
LEMMA AlterKeeps ==
  ASSUME ServerInv, NEW s \in Servers, Alter(s)
  PROVE  ServerInv'
<1> DEFINE missing == Current.adds \ db.schema
<1>1. /\ srv[s].pc = "alter" /\ srv[s].pc # "off" /\ db.recorded < Done
      /\ Base \subseteq db.schema /\ db.schema \subseteq Base \cup Current.adds
      /\ s \in load.servers
  BY Zenon DEF Alter, ServerInv, Stage, Migrating, Shapes
<1>2. CASE Fail(s)
  BY <1>1, <1>2, FailKeeps, Zenon
<1>3. CASE /\ missing # {}
           /\ db' = [db EXCEPT !.schema = db.schema \cup {CHOOSE x \in missing : TRUE}]
           /\ UNCHANGED <<load, advisory, drawn, srv, pluginVars, req, seen, ends>>
  <2>1. PICK x \in missing : db' = [db EXCEPT !.schema = db.schema \cup {x}]
    BY <1>3, Zenon
  <2>2. /\ DOMAIN db' = DbFields /\ db'.schema = db.schema \cup {x}
        /\ db'.recorded = db.recorded
        /\ db'.keys = db.keys /\ db'.jwks = db.jwks /\ db'.org = db.org
    BY <2>1, SchemaWritten, Zenon DEF ServerInv
  <2>3. /\ Moved(s, "alter") /\ srv[s].pc \in Critical /\ ~UpToDate /\ "alter" \in Critical
    BY <1>1, <1>3, Nineteen DEF ServerInv, Critical, Migrating, UpToDate, Shapes, Moved
  <2>4. Current' = Current /\ Base' = Base
    BY <2>2, Zenon DEF Current, Base
  <2>5. /\ Base \subseteq db'.schema /\ db'.schema \subseteq Base \cup Current.adds
        /\ db'.schema \subseteq SchemaAt(db.recorded) \cup Current.adds
    BY <1>1, <2>2, Zenon DEF Base
  <2>6. Database'
    <3>1. db.recorded # Done
      BY <1>1, Nineteen DEF ServerInv, Shapes
    <3> QED  BY <1>3, <2>2, <2>4, <2>5, <3>1, Zenon DEF ServerInv, Database, TheKey
  <2>7. Stage(s)'
    BY <1>1, <2>2, <2>3, <2>4, <2>5, Zenon DEF Moved, Stage, Up, Ready
  <2>8. db'.recorded \in db.recorded .. Done /\ DOMAIN db'.org = Accounts /\ drawn' \in Nat
    BY <1>3, <2>2, Nineteen DEF ServerInv, Shapes
  <2> QED  BY <1>3, <2>2, <2>3, <2>6, <2>7, <2>8, WritesOn, Zenon
<1>4. CASE /\ missing = {}
           /\ srv' = [srv EXCEPT ![s] =
                IF Current.does = "orgs" THEN [@ EXCEPT !.pc = "orgs", !.left = Accounts]
                ELSE [@ EXCEPT !.pc = "record"]]
           /\ UNCHANGED <<load, dbVars, pluginVars, req, seen, ends>>
  <2>1. DOMAIN srv = Servers /\ DOMAIN srv[s] = SrvFields
    BY Zenon DEF ServerInv, Shapes
  <2>2. srv'[s] = IF Current.does = "orgs" THEN [srv[s] EXCEPT !.pc = "orgs", !.left = Accounts]
                  ELSE [srv[s] EXCEPT !.pc = "record"]
    BY <1>4, <2>1, Zenon
  <2>3. PICK pc \in {"orgs", "record"} :
           /\ DOMAIN srv'[s] = SrvFields /\ srv'[s].pc = pc
           /\ pc = "orgs" <=> Current.does = "orgs"
           /\ pc = "orgs" => srv'[s].left = Accounts
    <3>1. CASE Current.does = "orgs"
      BY <2>1, <2>2, <3>1, Zenon DEF SrvFields
    <3>2. CASE Current.does # "orgs"
      BY <2>1, <2>2, <3>2, Zenon DEF SrvFields
    <3> QED  BY <3>1, <3>2, Zenon
  <2>4. Moved(s, pc)
    BY <1>4, <2>1, <2>3, Zenon DEF Moved
  <2>5. /\ pc \in Early /\ pc \in Critical /\ srv[s].pc \in Early /\ srv[s].pc \in Critical
        /\ pc \notin Ready
    BY <1>1, <2>3, Zenon DEF Early, Critical, Migrating, Ready
  <2>6. db.schema = Base \cup Current.adds
    BY <1>1, <1>4, Zenon
  <2>7. Stage(s)'
    <3>1. Current' = Current /\ Base' = Base /\ db' = db /\ load' = load
      BY <1>4, Zenon DEF Current, Base, dbVars
    <3>2. pc = "orgs" => Accounts \ srv'[s].left = {}
      BY <2>3, Zenon
    <3> QED  BY <1>1, <2>3, <2>6, <3>1, <3>2, Zenon DEF Stage, Up, Ready
  <2>8. ReadyServer(s)'
    BY <2>3, <2>5, Zenon DEF ReadyServer
  <2>9. /\ \A t \in Servers \ {s} : advisory = t => advisory' = t
        /\ load.kind = "postgres" => advisory' = s
        /\ UNCHANGED <<load, db, drawn, pluginVars, req, seen, ends>>
    BY <1>4, <2>5, Zenon DEF dbVars, ServerInv, Exclusion
  <2> QED  BY <1>1, <2>4, <2>5, <2>7, <2>8, <2>9, MovesOn, Zenon
<1> QED  BY <1>2, <1>3, <1>4, Zenon DEF Alter

(* UpdateOrganization *)
LEMMA UpdateOrganizationKeeps ==
  ASSUME ServerInv, NEW s \in Servers, NEW a \in Accounts, UpdateOrganization(s, a)
  PROVE  ServerInv'
<1> DEFINE org == RecoveredOrg(load.orgs[a])
<1>1. /\ srv[s].pc = "orgs" /\ db.recorded < Done /\ db.schema = Base \cup Current.adds
      /\ Current.does = "orgs"
      /\ \A b \in Accounts \ srv[s].left : db.org[b] = RecoveredOrg(load.orgs[b])
  BY Zenon DEF UpdateOrganization, ServerInv, Stage, Migrating
<1>2. /\ DOMAIN db' = DbFields /\ db'.recorded = db.recorded /\ db'.schema = db.schema
      /\ db'.keys = db.keys /\ db'.jwks = db.jwks /\ DOMAIN db'.org = Accounts
      /\ db'.org[a] = org /\ \A b \in Accounts \ {a} : db'.org[b] = db.org[b]
  <2>0. DOMAIN db = DbFields /\ DOMAIN db.org = Accounts /\ db.org[a] \in {"", org}
    BY Zenon DEF ServerInv, Shapes, Database
  <2>1. CASE org = ""
    <3>1. db' = db
      BY <2>1, Zenon DEF UpdateOrganization
    <3> QED  BY <2>0, <2>1, <3>1, Zenon
  <2>2. CASE org # ""
    <3>1. db' = [db EXCEPT !.org = [db.org EXCEPT ![a] = org]]
      BY <2>0, <2>2, Zenon DEF UpdateOrganization
    <3>2. /\ DOMAIN db' = DbFields /\ db'.recorded = db.recorded /\ db'.schema = db.schema
          /\ db'.keys = db.keys /\ db'.jwks = db.jwks /\ db'.org = [db.org EXCEPT ![a] = org]
      BY <2>0, <3>1, Zenon DEF DbFields
    <3> QED  BY <2>0, <3>2, Zenon
  <2> QED  BY <2>1, <2>2, Zenon
<1>3. DOMAIN srv = Servers /\ DOMAIN srv[s] = SrvFields
  BY Zenon DEF ServerInv, Shapes
<1>4. srv'[s] = [srv[s] EXCEPT !.left = srv[s].left \ {a}]
  BY <1>3, Zenon DEF UpdateOrganization
<1>5. DOMAIN srv'[s] = SrvFields /\ srv'[s].pc = "orgs" /\ srv'[s].left = srv[s].left \ {a}
  BY <1>1, <1>3, <1>4, Zenon DEF SrvFields
<1>6. Moved(s, "orgs")
  BY <1>3, <1>5, Zenon DEF Moved, UpdateOrganization
<1>7. "orgs" \in Critical /\ ~UpToDate /\ db.recorded # Done
  BY <1>1, Nineteen DEF ServerInv, Critical, Migrating, UpToDate, Shapes
<1>8. Current' = Current /\ Base' = Base
  BY <1>2, Zenon DEF Current, Base
<1>9. UNCHANGED <<load, advisory, drawn, pluginVars, req, seen, ends>>
  BY Zenon DEF UpdateOrganization
<1>10. Database'
  <2>1. \A b \in Accounts : db'.org[b] \in {"", RecoveredOrg(load.orgs[b])}
    BY <1>2, Zenon DEF ServerInv, Database
  <2> QED  BY <1>2, <1>7, <1>8, <1>9, <2>1, Zenon DEF ServerInv, Database, TheKey
<1>11. Stage(s)'
  <2>1. \A b \in Accounts \ srv'[s].left : db'.org[b] = RecoveredOrg(load.orgs[b])
    BY <1>1, <1>2, <1>5, Zenon
  <2> QED  BY <1>1, <1>2, <1>5, <1>8, <1>9, <2>1, Zenon DEF Stage, Up, Ready
<1>12. db'.recorded \in db.recorded .. Done /\ drawn' \in Nat
  BY <1>2, <1>9, Nineteen DEF ServerInv, Shapes
<1> QED  BY <1>1, <1>2, <1>6, <1>7, <1>9, <1>10, <1>11, <1>12, WritesOn, Zenon

(* Record *)
LEMMA RecordKeeps ==
  ASSUME ServerInv, NEW s \in Servers, Record(s)
  PROVE  ServerInv'
<1>1. /\ srv[s].pc \in {"record", "orgs"} /\ db.recorded < Done
      /\ db.schema = Base \cup Current.adds
      /\ Current.does = "orgs" => /\ srv[s].pc = "orgs" /\ srv[s].left = {}
                                  /\ \A a \in Accounts : db.org[a] = RecoveredOrg(load.orgs[a])
  BY Zenon DEF Record, ServerInv, Stage, Migrating
<1>2. db.recorded \in 0 .. Done - 1 /\ db.recorded + 1 \in db.recorded .. Done
      /\ db.recorded + 1 # db.recorded
  BY <1>1, Nineteen DEF ServerInv, Shapes
<1>3. DOMAIN db = DbFields
  BY Zenon DEF ServerInv, Shapes
<1>4. /\ DOMAIN db' = DbFields /\ db'.recorded = db.recorded + 1 /\ db'.schema = db.schema
      /\ db'.keys = db.keys /\ db'.jwks = db.jwks /\ db'.org = db.org
  BY <1>3, Zenon DEF DbFields, Record
<1>5. /\ Moved(s, "migrate") /\ srv[s].pc \in Critical /\ "migrate" \in Critical /\ ~UpToDate
  BY <1>1, <1>2, GotoMoves, Nineteen DEF Record, ServerInv, Critical, Migrating, UpToDate
<1>6. UNCHANGED <<load, advisory, drawn, pluginVars, req, seen, ends>>
  BY Zenon DEF Record
<1>7. db'.schema = SchemaAt(db'.recorded)
  BY <1>1, <1>2, <1>4, NextSchema, Zenon DEF Base, Current
<1>8. Database'
  <2>1. db'.recorded = Done => Current.does = "orgs"
    BY <1>2, <1>4, Nineteen, Zenon DEF Current
  <2>2. Base' \subseteq db'.schema
    BY <1>7, Zenon DEF Base
  <2> QED  BY <1>1, <1>4, <1>6, <1>7, <2>1, <2>2, Zenon DEF ServerInv, Database, TheKey
<1>9. Stage(s)'
  BY <1>5, Zenon DEF Moved, Stage, Migrating, Up, Ready
<1>10. drawn' \in Nat /\ DOMAIN db'.org = Accounts
  BY <1>4, <1>6, Zenon DEF ServerInv, Shapes
<1> QED  BY <1>2, <1>4, <1>5, <1>6, <1>8, <1>9, <1>10, WritesOn, Zenon

(* Migrated *)
LEMMA MigratedKeeps ==
  ASSUME ServerInv, NEW s \in Servers, Migrated(s)
  PROVE  ServerInv'
<1>1. Moved(s, "keys") /\ srv[s].pc = "migrate" /\ db.recorded = Done
  BY GotoMoves, Zenon DEF Migrated, ServerInv
<1>2. {"keys", "migrate"} \subseteq Early \cap Critical
  BY Zenon DEF Early, Critical
<1>3. UNCHANGED <<load, db, drawn, pluginVars, req, seen, ends>> /\ advisory' = advisory
  BY Zenon DEF Migrated, dbVars
<1>4. Stage(s)' /\ ReadyServer(s)'
  BY <1>1, <1>3, Zenon DEF Moved, Stage, ReadyServer, Migrating, Up, Ready
<1>5. s \in load.servers /\ (load.kind = "postgres" => advisory' = s)
  BY <1>1, <1>2, <1>3, Zenon DEF ServerInv, Shapes, Exclusion
<1> QED  BY <1>1, <1>2, <1>3, <1>4, <1>5, MovesOn, Zenon

(* CreateServerKey *)
LEMMA CreateServerKeyKeeps ==
  ASSUME ServerInv, NEW s \in Servers, CreateServerKey(s)
  PROVE  ServerInv'
<1>0. PICK pc \in {"setkeys", "jwks"} : /\ Goto(s, pc)
                                        /\ pc = "setkeys" => db.keys = 0
                                        /\ pc = "jwks" => db.keys # 0
  BY Zenon DEF CreateServerKey
<1>1. Moved(s, pc) /\ srv[s].pc = "keys" /\ db.recorded = Done
  BY <1>0, GotoMoves, Zenon DEF CreateServerKey, ServerInv, Stage
<1>2. {"keys", "setkeys", "jwks"} \subseteq Early \cap Critical
  BY <1>0, Zenon DEF Early, Critical
<1>3. UNCHANGED <<load, db, drawn, pluginVars, req, seen, ends>> /\ advisory' = advisory
  BY Zenon DEF CreateServerKey, dbVars
<1>4. Stage(s)' /\ ReadyServer(s)'
  BY <1>0, <1>1, <1>3, Zenon DEF Moved, Stage, ReadyServer, Migrating, Up, Ready
<1>5. s \in load.servers /\ (load.kind = "postgres" => advisory' = s)
  BY <1>1, <1>2, <1>3, Zenon DEF ServerInv, Shapes, Exclusion
<1> QED  BY <1>1, <1>2, <1>3, <1>4, <1>5, MovesOn, Zenon

(* SetControlKeys: nobody has served yet, so no key was seen. *)
LEMMA SetControlKeysKeeps ==
  ASSUME ServerInv, NEW s \in Servers, SetControlKeys(s)
  PROVE  ServerInv'
<1>1. /\ Moved(s, "jwks") /\ srv[s].pc = "setkeys" /\ db.recorded = Done /\ db.keys = 0
  BY GotoMoves, Zenon DEF SetControlKeys, ServerInv, Stage
<1>2. DOMAIN db = DbFields /\ drawn' = drawn + 1 /\ drawn \in Nat /\ DOMAIN db.org = Accounts
  BY Zenon DEF ServerInv, Shapes, SetControlKeys
<1>3. /\ DOMAIN db' = DbFields /\ db'.recorded = db.recorded /\ db'.schema = db.schema
      /\ db'.keys = drawn' /\ db'.jwks = db.jwks /\ db'.org = db.org
  BY <1>2, Zenon DEF DbFields, SetControlKeys
<1>4. drawn' \in Nat /\ drawn' # 0
  BY <1>2
<1>5. UNCHANGED <<load, advisory, pluginVars, req, seen, ends>>
  BY Zenon DEF SetControlKeys
<1>6. srv[s].pc \in Critical /\ "jwks" \in Critical /\ ~UpToDate
  BY <1>1, Zenon DEF Critical, UpToDate
<1>7. Database'
  <2>1. seen.keys = 0
    BY <1>1, Zenon DEF ServerInv, Database
  <2>2. ~(Done < Done)
    BY Nineteen
  <2> QED  BY <1>1, <1>3, <1>5, <2>1, <2>2, Zenon DEF ServerInv, Database
<1>8. Stage(s)'
  BY <1>1, <1>3, <1>4, Zenon DEF Moved, Stage, Migrating, Up, Ready
<1>9. db'.recorded \in db.recorded .. Done
  BY <1>1, <1>3, Nineteen
<1> QED  BY <1>1, <1>2, <1>3, <1>4, <1>5, <1>6, <1>7, <1>8, <1>9, WritesOn, Zenon

(* CreateJSONWebKeySet *)
LEMMA CreateJSONWebKeySetKeeps ==
  ASSUME ServerInv, NEW s \in Servers, CreateJSONWebKeySet(s)
  PROVE  ServerInv'
<1>0. PICK pc \in {"setjwks", "setup"} :
         /\ Goto(s, pc)
         /\ pc = "setjwks" => db.jwks = 0 /\ advisory' = advisory
         /\ pc = "setup" => /\ db.jwks # 0
                            /\ advisory' = (IF advisory = s THEN NoServer ELSE advisory)
  BY Zenon DEF CreateJSONWebKeySet
<1>1. Moved(s, pc) /\ srv[s].pc = "jwks" /\ db.recorded = Done /\ db.keys # 0
  BY <1>0, GotoMoves, Zenon DEF CreateJSONWebKeySet, ServerInv, Stage
<1>2. /\ {"jwks", "setjwks"} \subseteq Early \cap Critical
      /\ "setup" \in Early /\ "setup" \notin Critical
  BY <1>0, Zenon DEF Early, Critical, Migrating
<1>3. UNCHANGED <<load, db, drawn, pluginVars, req, seen, ends>>
  BY Zenon DEF CreateJSONWebKeySet
<1>4. Stage(s)' /\ ReadyServer(s)'
  BY <1>0, <1>1, <1>3, Zenon DEF Moved, Stage, ReadyServer, Migrating, Up, Ready
<1>5. /\ s \in load.servers /\ (load.kind = "postgres" /\ pc = "setjwks" => advisory' = s)
      /\ \A t \in Servers \ {s} : advisory = t => advisory' = t
  BY <1>0, <1>1, <1>2, <1>3, Zenon DEF ServerInv, Shapes, Exclusion
<1> QED  BY <1>0, <1>1, <1>2, <1>3, <1>4, <1>5, MovesOn, Zenon

(* SetJSONWebKeySet *)
LEMMA SetJSONWebKeySetKeeps ==
  ASSUME ServerInv, NEW s \in Servers, SetJSONWebKeySet(s)
  PROVE  ServerInv'
<1>1. /\ Moved(s, "setup") /\ srv[s].pc = "setjwks" /\ db.recorded = Done /\ db.jwks = 0
      /\ db.keys # 0
  BY GotoMoves, Zenon DEF SetJSONWebKeySet, ServerInv, Stage
<1>2. DOMAIN db = DbFields /\ drawn' = drawn + 1 /\ drawn \in Nat /\ DOMAIN db.org = Accounts
  BY Zenon DEF ServerInv, Shapes, SetJSONWebKeySet
<1>3. /\ DOMAIN db' = DbFields /\ db'.recorded = db.recorded /\ db'.schema = db.schema
      /\ db'.jwks = drawn' /\ db'.keys = db.keys /\ db'.org = db.org
  BY <1>2, Zenon DEF DbFields, SetJSONWebKeySet
<1>4. drawn' \in Nat /\ drawn' # 0
  BY <1>2
<1>5. /\ UNCHANGED <<load, pluginVars, req, seen, ends>>
      /\ advisory' = (IF advisory = s THEN NoServer ELSE advisory)
  BY Zenon DEF SetJSONWebKeySet
<1>6. srv[s].pc \in Critical /\ ~UpToDate
  BY <1>1, Zenon DEF Critical, UpToDate
<1>7. Database'
  <2>1. seen.keys = 0
    BY <1>1, Zenon DEF ServerInv, Database
  <2>2. ~(Done < Done)
    BY Nineteen
  <2> QED  BY <1>1, <1>3, <1>5, <2>1, <2>2, Zenon DEF ServerInv, Database
<1>8. Stage(s)'
  BY <1>1, <1>3, <1>4, Zenon DEF Moved, Stage, Migrating, Up, Ready
<1>9. db'.recorded \in db.recorded .. Done
  BY <1>1, <1>3, Nineteen
<1> QED  BY <1>1, <1>2, <1>3, <1>4, <1>5, <1>6, <1>7, <1>8, <1>9, WritesOn, Zenon

----------------------------------------------------------------------------
(* Setup, service, shutdown *)

(* A provider that is there has a zone. *)
LEMMA ProviderZone ==
  ASSUME NEW dns, NewProvider(dns) # "error"
  PROVE  NewProvider(dns) # "none" <=> dns.zone
<1>1. CASE dns.zone
  BY <1>1, Zenon DEF NewProvider
<1>2. CASE ~dns.zone
  BY <1>2, Zenon DEF NewProvider
<1> QED  BY <1>1, <1>2, Zenon

(* A fresh process is one that nobody knows. *)
LEMMA FreshIsUnused == Unused # {} => Fresh \in Unused
BY Zenon DEF Fresh

(* Setup *)
LEMMA SetupKeeps ==
  ASSUME ServerInv, NEW s \in Servers, Setup(s)
  PROVE  ServerInv'
<1> DEFINE key == ReadServerKeys(load.config, db.keys)
           kind == IF key = 0 \/ setupAuthProvider(load.config) = "error" THEN "error"
                   ELSE NewProvider(load.dns)
           ready == [srv EXCEPT ![s] = [srv[s] EXCEPT !.pc = "listen", !.provider = kind,
                                                      !.key = key]]
<1>1. /\ srv[s].pc = "setup" /\ srv[s].pc # "off" /\ srv[s].pc \in Early /\ s \in load.servers
      /\ "listen" \notin Early /\ "listen" \in Ready /\ "listen" \notin Critical
  BY Zenon DEF Setup, Early, Ready, ServerInv, Shapes, Critical, Migrating
<1>2. CASE Fail(s)
  BY <1>1, <1>2, FailKeeps, Zenon
<1>3. ASSUME srv' = ready, kind # "error", load' = load, db' = db
      PROVE  /\ Moved(s, "listen") /\ Stage(s)' /\ ReadyServer(s)'
  <2>1. DOMAIN srv = Servers /\ DOMAIN srv[s] = SrvFields
    BY Zenon DEF ServerInv, Shapes
  <2>2. srv'[s] = [srv[s] EXCEPT !.pc = "listen", !.provider = kind, !.key = key]
    BY <1>3, <2>1, Zenon
  <2>3. /\ DOMAIN srv'[s] = SrvFields /\ srv'[s].pc = "listen" /\ srv'[s].provider = kind
        /\ srv'[s].key = key
    BY <2>1, <2>2, Zenon DEF SrvFields
  <2>4. Moved(s, "listen")
    BY <1>3, <2>1, <2>3, Zenon DEF Moved
  <2>5. Stage(s)'
    <3>1. db.recorded = Done /\ db.keys # 0 /\ db.jwks # 0
      BY <1>1, Zenon DEF ServerInv, Stage, Up
    <3> QED  BY <1>3, <2>3, <3>1, Zenon DEF Stage, Migrating
  <2>6. ReadyServer(s)'
    <3>1. key # 0 /\ kind = NewProvider(load.dns)
      BY <1>3, Zenon
    <3>2. key = TheKey
      BY <3>1, Zenon DEF ReadServerKeys, TheKey
    <3>3. kind # "none" <=> load.dns.zone
      BY <1>3, <3>1, ProviderZone, Zenon
    <3> QED  BY <1>3, <2>3, <3>1, <3>2, <3>3, Zenon DEF ReadyServer, TheKey
  <2> QED  BY <2>4, <2>5, <2>6, Zenon
<1>4. CASE /\ kind \in {"none", "builtin"} /\ srv' = ready
           /\ UNCHANGED <<load, dbVars, pluginVars, req, seen, ends>>
  <2>1. UNCHANGED <<load, db, drawn, pluginVars, req, seen, ends>> /\ advisory' = advisory
    BY <1>4, Zenon DEF dbVars
  <2>2. Moved(s, "listen") /\ Stage(s)' /\ ReadyServer(s)'
    BY <1>3, <1>4, <2>1, Zenon
  <2> QED  BY <1>1, <2>1, <2>2, MovesOn, Zenon
<1>5. CASE /\ kind = "plugin" /\ Unused # {} /\ srv' = ready
           /\ pm' = [proc |-> Fresh, exited |-> FALSE, inst |-> Fresh, writer |-> 0]
           /\ alive' = alive \cup {Fresh}
           /\ conf' = conf \cup {Fresh}
           /\ UNCHANGED <<load, dbVars, failed, orphans, req, seen, ends>>
  <2>1. UNCHANGED <<load, db, drawn, advisory, failed, orphans, req, seen, ends>>
    BY <1>5, Zenon DEF dbVars
  <2>2. Moved(s, "listen") /\ Stage(s)' /\ ReadyServer(s)'
    BY <1>3, <1>5, <2>1, Zenon
  <2>3. Fresh # 0
    BY <1>5, ServerAssumption, Zenon DEF Fresh, Unused
  <2>11. Fresh \notin orphans
    BY <1>5, FreshIsUnused, Zenon DEF Unused
  <2>4. pm'.proc = Fresh /\ pm'.inst = Fresh /\ DOMAIN pm' = PmFields
    BY <1>5, Zenon DEF PmFields
  <2>5. load.servers = {s}
    <3>1. NewProvider(load.dns) = "plugin"
      BY <1>5, Zenon
    <3> QED  BY <1>1, <3>1, Zenon DEF ServerInv, Shapes, Solo
  <2>6. alive \subseteq orphans /\ Idle
    BY <1>1, <2>5, Zenon DEF ServerInv, Plugins
  <2>12. Locked'
    BY <2>1, <2>6, Zenon DEF Idle, Locked
  <2>7. Plugins'
    <3>1. \A t \in Servers : load.servers = {t} => srv'[t].pc = "listen"
      BY <2>2, <2>5, Zenon DEF Moved
    <3> QED  BY <1>1, <1>5, <2>1, <2>3, <2>4, <2>6, <2>11, <2>12, <3>1, Zenon DEF ServerInv, Plugins
  <2>8. Shapes'
    <3>1. ASSUME NEW t \in Servers
          PROVE  /\ DOMAIN srv'[t] = SrvFields /\ srv'[t].pc \in Early \cup Ready
                 /\ srv'[t].pc # "off" => t \in load.servers
      BY <1>1, <2>2, Zenon DEF ServerInv, Shapes, Moved
    <3>2. DOMAIN srv' = Servers
      BY <2>2, Zenon DEF Moved
    <3> QED  BY <2>1, <2>4, <3>1, <3>2, Zenon DEF ServerInv, Shapes, Solo
  <2>9. SharedStep(s)
    BY <1>1, <2>1, <2>2, Zenon DEF SharedStep, Moved
  <2>10. Database'
    BY <2>1, DatabaseStays, Zenon DEF ServerInv
  <2> QED  BY <1>1, <2>2, <2>7, <2>8, <2>9, <2>10, StepsApart, Zenon
<1> QED
  <2>1. \/ Fail(s)
        \/ /\ kind \in {"none", "builtin"} /\ srv' = ready
           /\ UNCHANGED <<load, dbVars, pluginVars, req, seen, ends>>
        \/ /\ kind = "plugin" /\ Unused # {} /\ srv' = ready
           /\ pm' = [proc |-> Fresh, exited |-> FALSE, inst |-> Fresh, writer |-> 0]
           /\ alive' = alive \cup {Fresh}
           /\ conf' = conf \cup {Fresh}
           /\ UNCHANGED <<load, dbVars, failed, orphans, req, seen, ends>>
    BY Zenon DEF Setup
  <2> QED  BY <1>2, <1>4, <1>5, <2>1, Zenon

(* Listen: the first server to serve shows its keys. *)
LEMMA ListenKeeps ==
  ASSUME ServerInv, NEW s \in Servers, Listen(s)
  PROVE  ServerInv'
<1>1. /\ srv[s].pc = "listen" /\ srv[s].pc # "off" /\ srv[s].pc \in Ready /\ s \in load.servers
      /\ "serving" \notin Early /\ "serving" \in Ready /\ "serving" \notin Critical
  BY Zenon DEF Listen, Early, Ready, ServerInv, Shapes, Critical, Migrating
<1>2. CASE Fail(s)
  BY <1>1, <1>2, FailKeeps, Zenon
<1>3. CASE ~Fail(s)
  <2>1. /\ Goto(s, "serving") /\ UNCHANGED <<load, dbVars, pluginVars, req, ends>>
        /\ seen' = IF seen.keys # 0 THEN seen ELSE [keys |-> srv[s].key, jwks |-> db.jwks]
    BY <1>3, Zenon DEF Listen
  <2>2. UNCHANGED <<load, db, drawn, advisory, pm, alive, conf, failed, orphans, req, ends>>
    BY <2>1, Zenon DEF dbVars, pluginVars
  <2>3. /\ Moved(s, "serving") /\ srv'[s].key = srv[s].key
        /\ srv'[s].provider = srv[s].provider
    BY <2>1, GotoMoves, Zenon DEF ServerInv
  <2>4. /\ srv[s].key = TheKey /\ srv[s].key # 0 /\ (srv[s].provider # "none" <=> load.dns.zone)
        /\ db.recorded = Done /\ db.keys # 0 /\ db.jwks # 0
    BY <1>1, Zenon DEF ServerInv, ReadyServer, Stage, Up
  <2>5. \/ seen' = seen /\ seen.keys # 0
        \/ seen'.keys = srv[s].key /\ seen'.jwks = db.jwks
    BY <2>1, Zenon
  <2>6. seen'.keys # 0
    BY <2>4, <2>5, Zenon
  <2>7. Database'
    <3>1. TheKey' = TheKey /\ Base' = Base /\ Current' = Current
      BY <2>2, Zenon DEF TheKey, Base, Current
    <3>2. seen'.keys = TheKey /\ seen'.jwks = db.jwks
      BY <2>4, <2>5, Zenon DEF ServerInv, Database
    <3> QED  BY <2>2, <2>4, <3>1, <3>2, Zenon DEF ServerInv, Database
  <2>8. Stage(s)' /\ ReadyServer(s)'
    BY <2>2, <2>3, <2>4, <2>6, Zenon DEF Moved, Stage, ReadyServer, Migrating, TheKey
  <2>9. Plugins'
    BY <1>1, <2>2, <2>3, PluginsStay, Zenon DEF ServerInv, Moved, pluginVars
  <2>10. SharedStep(s)
    BY <1>1, <2>2, <2>3, <2>6, Zenon DEF SharedStep, Moved
  <2>11. Shapes'
    <3>1. ASSUME NEW t \in Servers
          PROVE  /\ DOMAIN srv'[t] = SrvFields /\ srv'[t].pc \in Early \cup Ready
                 /\ srv'[t].pc # "off" => t \in load.servers
      BY <1>1, <2>3, Zenon DEF ServerInv, Shapes, Moved
    <3>2. DOMAIN srv' = Servers
      BY <2>3, Zenon DEF Moved
    <3> QED  BY <2>2, <3>1, <3>2, Zenon DEF ServerInv, Shapes, Solo
  <2> QED  BY <1>1, <2>7, <2>8, <2>9, <2>10, <2>11, StepsApart, Zenon
<1> QED  BY <1>2, <1>3, Zenon

(* Stop: the plugin is gone before the servers shut down. *)
LEMMA StopKeeps ==
  ASSUME ServerInv, NEW s \in Servers, Stop(s)
  PROVE  ServerInv'
<1>1. /\ srv[s].pc = "serving" /\ srv[s].pc # "off" /\ s \in load.servers
      /\ "metrics" \notin Early /\ "metrics" \in Ready /\ "metrics" \notin Critical
      /\ srv[s].pc \in Ready
  BY Zenon DEF Stop, Early, Ready, ServerInv, Shapes, Critical, Migrating
<1>2. /\ UNCHANGED <<load, db, drawn, advisory, orphans, req, seen>> /\ ends' = ends + 1
      /\ Goto(s, "metrics") /\ Kill /\ pm' = [pm EXCEPT !.exited = TRUE]
  BY Zenon DEF Stop, dbVars
<1>3. /\ Moved(s, "metrics") /\ srv'[s].key = srv[s].key /\ srv'[s].provider = srv[s].provider
  BY <1>2, GotoMoves, Zenon DEF ServerInv
<1>4. Stage(s)' /\ ReadyServer(s)'
  BY <1>1, <1>2, <1>3, Zenon DEF ServerInv, Moved, Stage, ReadyServer, Migrating, Up, TheKey
<1>5. Database'
  BY <1>2, DatabaseStays, Zenon DEF ServerInv
<1>6. DOMAIN pm = PmFields /\ ends' \in Nat
  BY <1>2 DEF ServerInv, Shapes
<1>7. /\ DOMAIN pm' = PmFields /\ pm'.proc = pm.proc /\ pm'.inst = pm.inst
      /\ pm'.writer = pm.writer
  BY <1>2, <1>6, Zenon DEF PmFields
<1>8. Plugins'
  <2>1. ASSUME NEW t \in Servers, load.servers = {t}
        PROVE  srv'[t].pc \notin Early
    BY <1>1, <1>3, <2>1, Zenon DEF Moved
  <2>2. Locked'
    BY <1>2, <1>7, Zenon DEF ServerInv, Plugins, Locked
  <2> QED  BY <1>2, <1>7, <2>1, <2>2 DEF ServerInv, Plugins, Kill
<1>9. Shapes'
  <2>1. ASSUME NEW t \in Servers
        PROVE  /\ DOMAIN srv'[t] = SrvFields /\ srv'[t].pc \in Early \cup Ready
               /\ srv'[t].pc # "off" => t \in load.servers
    BY <1>1, <1>3, Zenon DEF ServerInv, Shapes, Moved
  <2>2. DOMAIN srv' = Servers
    BY <1>3, Zenon DEF Moved
  <2> QED  BY <1>2, <1>6, <1>7, <2>1, <2>2, Zenon DEF ServerInv, Shapes, Solo
<1>10. SharedStep(s)
  BY <1>1, <1>2, <1>3, Zenon DEF SharedStep, Moved
<1> QED  BY <1>1, <1>4, <1>5, <1>8, <1>9, <1>10, StepsApart, Zenon

(* ShutdownHttpServer *)
LEMMA ShutdownKeeps ==
  ASSUME ServerInv, NEW s \in Servers, ShutdownHttpServer(s)
  PROVE  ServerInv'
<1>1. PICK pc \in {"drain", "stun"} : Goto(s, pc)
  BY Zenon DEF ShutdownHttpServer
<1>2. /\ srv[s].pc \in Ready /\ srv[s].pc # "listen" /\ s \in load.servers
      /\ pc \notin Early /\ pc \in Ready /\ pc \notin Critical
  <2>1. srv[s].pc \in {"metrics", "drain"}
    BY Zenon DEF ShutdownHttpServer
  <2> QED  BY <1>1, <2>1, Zenon DEF Early, Ready, ServerInv, Shapes, Critical, Migrating
<1>3. /\ UNCHANGED <<load, db, drawn, pluginVars, req, seen, ends>> /\ advisory' = advisory
  BY Zenon DEF ShutdownHttpServer, dbVars
<1>4. /\ Moved(s, pc) /\ srv'[s].key = srv[s].key /\ srv'[s].provider = srv[s].provider
  BY <1>1, GotoMoves, Zenon DEF ServerInv
<1>5. Stage(s)' /\ ReadyServer(s)'
  BY <1>1, <1>2, <1>3, <1>4, Zenon
     DEF ServerInv, Moved, Stage, ReadyServer, Migrating, Up, TheKey
<1> QED  BY <1>2, <1>3, <1>4, <1>5, MovesOn, Zenon

(* Exit and Crash *)
LEMMA EndKeeps ==
  ASSUME ServerInv, NEW s \in Servers, Exit(s) \/ Crash(s)
  PROVE  ServerInv'
<1>1. CASE Exit(s)
  BY <1>1, FailKeeps, Zenon DEF Exit
<1>2. CASE Crash(s)
  <2>1. ends' \in Nat
    BY <1>2 DEF Crash, ServerInv, Shapes
  <2> QED  BY <1>2, <2>1, GoneKeeps, Zenon DEF Crash
<1> QED  BY <1>1, <1>2, Zenon

----------------------------------------------------------------------------
(* Requests and the plugin *)

(* A request is handled or comes to a server that serves, or none moves.   *)
Handled ==
    \/ ~Idle
    \/ \A t \in Servers : load.servers = {t} => srv[t].pc \in Ready
    \/ alive' \subseteq alive /\ req' = req

(* A step of the plugin or of a request: its server is up. *)
LEMMA ServedStep ==
  ASSUME ServerInv, Handled,
         UNCHANGED <<load, db, advisory, drawn, srv, orphans, seen, ends>>,
         DOMAIN pm' = PmFields, DOMAIN req' = Requests,
         \A r \in Requests : DOMAIN req'[r] = ReqFields,
         alive' \ orphans \subseteq {pm'.proc}, 0 \notin alive',
         pm'.inst \notin orphans, Locked',
         pm'.writer = 0 /\ pm'.inst \in alive' => pm'.inst \in conf' \cup failed'
  PROVE  ServerInv'
<1>1. Plugins'
  <2>1. ASSUME NEW t \in Servers, load.servers = {t}
        PROVE  srv[t].pc \in Early => alive' \subseteq orphans /\ Idle'
    <3>0. srv[t].pc \in Early => alive \subseteq orphans /\ Idle
      BY <2>1, Zenon DEF ServerInv, Plugins
    <3>1. CASE ~Idle
      BY <3>0, <3>1, Zenon
    <3>2. CASE srv[t].pc \in Ready
      BY <3>2, Zenon DEF Early, Critical, Migrating, Ready
    <3>3. CASE alive' \subseteq alive /\ req' = req
      BY <3>0, <3>3, Zenon DEF Idle
    <3> QED  BY <2>1, <3>1, <3>2, <3>3, Zenon DEF Handled
  <2> QED  BY <2>1, Zenon DEF ServerInv, Plugins
<1>2. Shapes'
  BY Zenon DEF ServerInv, Shapes, Solo
<1>3. Database'
  BY DatabaseStays, Zenon DEF ServerInv
<1>4. Exclusion'
  BY Zenon DEF ServerInv, Exclusion, Solo, UpToDate
<1>5. ASSUME NEW t \in Servers
      PROVE  Stage(t)' /\ ReadyServer(t)'
  <2>1. Stage(t)'
    BY Zenon DEF ServerInv, Stage, Base, Current
  <2>2. ReadyServer(t)'
    BY Zenon DEF ServerInv, ReadyServer, TheKey
  <2> QED  BY <2>1, <2>2, Zenon
<1> QED  BY <1>1, <1>2, <1>3, <1>4, <1>5, Zenon DEF ServerInv

(* The state of a request after At and Answer. *)
LEMMA AtShape ==
  ASSUME Shapes, NEW r \in Requests, NEW pc, At(r, pc) \/ Answer(r)
  PROVE  /\ DOMAIN req' = Requests /\ \A q \in Requests : DOMAIN req'[q] = ReqFields
         /\ \A q \in Requests \ {r} : req'[q] = req[q]
         /\ req'[r].pc \in {pc, "idle"}
         /\ Answer(r) => req'[r].pc = "idle"
<1>1. DOMAIN req = Requests /\ \A q \in Requests : DOMAIN req[q] = ReqFields
  BY Zenon DEF Shapes
<1>2. CASE At(r, pc) /\ ~Answer(r)
  <2>1. DOMAIN req' = Requests /\ req'[r] = [req[r] EXCEPT !.pc = pc]
        /\ \A q \in Requests \ {r} : req'[q] = req[q]
    BY <1>1, <1>2, Zenon DEF At
  <2>2. DOMAIN req'[r] = ReqFields /\ req'[r].pc = pc
    BY <1>1, <2>1, Zenon DEF ReqFields
  <2> QED  BY <1>1, <1>2, <2>1, <2>2, Zenon
<1>3. CASE Answer(r)
  <2>0. PICK i : i = [pc |-> "idle", to |-> 0, acme |-> FALSE]
    BY Zenon
  <2>1. DOMAIN req' = Requests /\ req'[r] = i
        /\ \A q \in Requests \ {r} : req'[q] = req[q]
    BY <1>1, <1>3, <2>0, Zenon DEF Answer
  <2>2. DOMAIN i = ReqFields /\ i.pc = "idle"
    BY <2>0, Zenon DEF ReqFields
  <2> QED  BY <1>1, <2>1, <2>2, Zenon
<1> QED  BY <1>2, <1>3, Zenon

(* A request that does not hold the write lock moves on, or comes. *)
LEMMA RequestMoves ==
  ASSUME ServerInv, NEW r \in Requests,
         req[r].pc # "idle" \/ \A t \in Servers : load.servers = {t} => srv[t].pc \in Ready,
         DOMAIN req' = Requests, \A q \in Requests : DOMAIN req'[q] = ReqFields,
         \A q \in Requests \ {r} : req'[q] = req[q],
         req'[r].pc \notin {"starting", "configure"},
         UNCHANGED <<load, dbVars, srv, pluginVars, seen, ends>>
  PROVE  ServerInv'
<1>1. UNCHANGED <<load, db, advisory, drawn, srv, pm, alive, conf, failed, orphans, seen, ends>>
  BY Zenon DEF dbVars, pluginVars
<1>2. Handled
  BY Zenon DEF Idle, Handled
<1>3. /\ DOMAIN pm' = PmFields /\ alive' \ orphans \subseteq {pm'.proc} /\ 0 \notin alive'
      /\ pm'.writer = 0 /\ pm'.inst \in alive' => pm'.inst \in conf' \cup failed'
      /\ pm'.inst \notin orphans
  BY <1>1, Zenon DEF ServerInv, Shapes, Plugins
<1>4. Locked'
  <2> SUFFICES ASSUME NEW q \in Requests
               PROVE  /\ req'[q].pc \in {"starting", "configure"} => pm'.writer = q
                      /\ req'[q].pc = "starting" => pm'.proc = 0
    BY Zenon DEF Locked
  <2>1. CASE q = r
    BY <2>1, Zenon
  <2>2. CASE q # r
    BY <1>1, <2>2, Zenon DEF ServerInv, Plugins, Locked
  <2> QED  BY <2>1, <2>2, Zenon
<1> QED  BY <1>1, <1>2, <1>3, <1>4, ServedStep, Zenon

(* SetDNS *)
LEMMA SetDNSKeeps ==
  ASSUME ServerInv, NEW s \in Servers, NEW r \in Requests, NEW acme \in BOOLEAN,
         SetDNS(s, r, acme)
  PROVE  ServerInv'
<1>1. UNCHANGED <<load, dbVars, srv, pluginVars, seen, ends>>
  BY Zenon DEF SetDNS
<1>2. srv[s].pc \in Ready /\ s \in load.servers
  <2>1. srv[s].pc \in Ready /\ srv[s].pc # "off"
    BY Zenon DEF SetDNS, ServesNodes, Ready
  <2> QED  BY <2>1, Zenon DEF ServerInv, Shapes
<1>3. \A t \in Servers : load.servers = {t} => srv[t].pc \in Ready
  BY <1>2, Zenon
<1>4. PICK pc \in {"check", "call"} : req' = [req EXCEPT ![r] = [pc |-> pc, to |-> 0, acme |-> acme]]
  BY Zenon DEF SetDNS
<1>5. DOMAIN req = Requests /\ \A q \in Requests : DOMAIN req[q] = ReqFields
  BY Zenon DEF ServerInv, Shapes
<1>6. /\ DOMAIN req' = Requests /\ req'[r] = [pc |-> pc, to |-> 0, acme |-> acme]
      /\ \A q \in Requests \ {r} : req'[q] = req[q]
  BY <1>4, <1>5, Zenon
<1>7. DOMAIN req'[r] = ReqFields /\ req'[r].pc \notin {"starting", "configure"}
  BY <1>4, <1>6, Zenon DEF ReqFields
<1> QED  BY <1>1, <1>3, <1>5, <1>6, <1>7, RequestMoves, Zenon

(* EnsureRunning, CallPlugin, SetRecord, Visible and Timeout *)
LEMMA HandlerKeeps ==
  ASSUME ServerInv, NEW r \in Requests,
         EnsureRunning(r) \/ CallPlugin(r) \/ SetRecord(r) \/ Visible(r) \/ Timeout(r)
  PROVE  ServerInv'
<1>1. req[r].pc # "idle" /\ UNCHANGED <<load, dbVars, srv, pluginVars, seen, ends>>
  BY Zenon DEF EnsureRunning, CallPlugin, SetRecord, Visible, Timeout
<1>2. DOMAIN req = Requests /\ \A q \in Requests : DOMAIN req[q] = ReqFields
  BY Zenon DEF ServerInv, Shapes
<1>3. \/ \E pc \in {"call", "restart", "wait"} : At(r, pc) \/ Answer(r)
      \/ req' = [req EXCEPT ![r].to = pm.inst] /\ req[r].pc = "call"
  BY Zenon DEF EnsureRunning, CallPlugin, SetRecord, Visible, Timeout
<1>4. /\ DOMAIN req' = Requests /\ \A q \in Requests : DOMAIN req'[q] = ReqFields
      /\ \A q \in Requests \ {r} : req'[q] = req[q]
      /\ req'[r].pc \notin {"starting", "configure"}
  <2>1. ASSUME NEW pc \in {"call", "restart", "wait"}, At(r, pc) \/ Answer(r)
        PROVE  /\ DOMAIN req' = Requests /\ \A q \in Requests : DOMAIN req'[q] = ReqFields
               /\ \A q \in Requests \ {r} : req'[q] = req[q]
               /\ req'[r].pc \notin {"starting", "configure"}
    <3>1. /\ DOMAIN req' = Requests /\ \A q \in Requests : DOMAIN req'[q] = ReqFields
          /\ \A q \in Requests \ {r} : req'[q] = req[q]
          /\ req'[r].pc \in {pc, "idle"}
      BY <2>1, AtShape, Zenon DEF ServerInv
    <3> QED  BY <3>1, Zenon
  <2>2. CASE req' = [req EXCEPT ![r].to = pm.inst] /\ req[r].pc = "call"
    <3>1. req'[r] = [req[r] EXCEPT !.to = pm.inst] /\ DOMAIN req[r] = ReqFields
      BY <1>2, <2>2, Zenon
    <3>2. DOMAIN req'[r] = ReqFields /\ req'[r].pc = "call"
      BY <2>2, <3>1, Zenon DEF ReqFields
    <3> QED  BY <1>2, <2>2, <3>2, Zenon
  <2> QED  BY <1>3, <2>1, <2>2, Zenon
<1> QED  BY <1>1, <1>4, RequestMoves, Zenon

(* The lock is held as it should when nobody but r has to do with it. *)
LEMMA LockHeld ==
  ASSUME NEW r \in Requests,
         \A q \in Requests \ {r} : /\ req'[q] = req[q]
                                   /\ req[q].pc \notin {"starting", "configure"},
         req'[r].pc \in {"starting", "configure"} => pm'.writer = r,
         req'[r].pc = "starting" => pm'.proc = 0
  PROVE  Locked'
<1> SUFFICES ASSUME NEW q \in Requests
             PROVE  /\ req'[q].pc \in {"starting", "configure"} => pm'.writer = q
                    /\ req'[q].pc = "starting" => pm'.proc = 0
  BY Zenon DEF Locked
<1>1. CASE q = r
  BY <1>1, Zenon
<1>2. CASE q # r
  BY <1>2, Zenon
<1> QED  BY <1>1, <1>2, Zenon

(* Restart: the old process is killed before the new one runs. *)
LEMMA RestartKeeps ==
  ASSUME ServerInv, NEW r \in Requests, Restart(r)
  PROVE  ServerInv'
<1>1. /\ UNCHANGED <<load, db, advisory, drawn, srv, orphans, seen, ends>>
      /\ req[r].pc = "restart" /\ pm.writer = 0 /\ alive' = alive \ {pm.proc}
      /\ pm' = [pm EXCEPT !.proc = 0, !.writer = r] /\ At(r, "starting")
  BY Zenon DEF Restart, Kill, dbVars
<1>2. ~Idle
  BY <1>1, Zenon DEF Idle
<1>3. DOMAIN pm = PmFields /\ 0 \notin Requests
  BY ServerAssumption, Zenon DEF ServerInv, Shapes
<1>4. /\ DOMAIN pm' = PmFields /\ pm'.proc = 0 /\ pm'.inst = pm.inst /\ pm'.writer = r
  BY <1>1, <1>3, Zenon DEF PmFields
<1>5. /\ DOMAIN req' = Requests /\ \A q \in Requests : DOMAIN req'[q] = ReqFields
      /\ \A q \in Requests \ {r} : req'[q] = req[q]
  BY <1>1, AtShape, Zenon DEF ServerInv
<1>6. Locked'
  <2>1. \A q \in Requests \ {r} : req'[q].pc \notin {"starting", "configure"}
    BY <1>1, <1>3, <1>5, Zenon DEF ServerInv, Plugins, Locked
  <2> QED  BY <1>4, <2>1, Zenon DEF Locked
<1>7. alive' \ orphans \subseteq {pm'.proc} /\ 0 \notin alive' /\ pm'.inst \notin orphans
  BY <1>1, <1>4, Zenon DEF ServerInv, Plugins
<1>8. pm'.writer # 0
  BY <1>3, <1>4, Zenon
<1> QED  BY <1>1, <1>2, <1>4, <1>5, <1>6, <1>7, <1>8, ServedStep, Zenon DEF Handled

(* NewClient: what runs is the new process, and it is the instance only    *)
(* while it is configured.                                                 *)
LEMMA NewClientKeeps ==
  ASSUME ServerInv, NEW r \in Requests, NewClient(r)
  PROVE  ServerInv'
<1>1. /\ UNCHANGED <<load, db, advisory, drawn, srv, conf, failed, orphans, seen, ends>>
      /\ req[r].pc = "starting" /\ Unused # {}
  BY Zenon DEF NewClient, dbVars
<1>2. ~Idle
  BY <1>1, Zenon DEF Idle
<1>3. /\ Fresh # 0 /\ Fresh \notin orphans /\ Fresh # pm.inst /\ Fresh \notin alive
      /\ DOMAIN pm = PmFields /\ 0 \notin Requests
  BY <1>1, FreshIsUnused, ServerAssumption, Zenon DEF Unused, ServerInv, Shapes
<1>4. pm.proc = 0 /\ pm.writer = r /\ alive \subseteq orphans /\ pm.inst \notin alive
      /\ 0 \notin alive /\ pm.inst \notin orphans
  <2>1. pm.proc = 0 /\ pm.writer = r
    BY <1>1, Zenon DEF ServerInv, Plugins, Locked
  <2>2. alive \ orphans \subseteq {pm.proc} /\ 0 \notin alive /\ pm.inst \notin orphans
    BY Zenon DEF ServerInv, Plugins
  <2>3. alive \subseteq orphans
    BY <2>1, <2>2, Zenon
  <2> QED  BY <2>1, <2>2, <2>3, Zenon
<1>5. \A q \in Requests \ {r} : req[q].pc \notin {"starting", "configure"}
  BY <1>4, Zenon DEF ServerInv, Plugins, Locked
<1>6. CASE /\ alive' = alive \cup {Fresh} /\ At(r, "configure")
           /\ pm' = [proc |-> Fresh, exited |-> FALSE, inst |-> Fresh, writer |-> r]
  <2>1. pm'.proc = Fresh /\ pm'.writer = r /\ pm'.inst = Fresh /\ DOMAIN pm' = PmFields
    BY <1>6, Zenon DEF PmFields
  <2>2. alive' \ orphans \subseteq {pm'.proc} /\ 0 \notin alive' /\ pm'.writer # 0
        /\ pm'.inst \notin orphans
    BY <1>3, <1>4, <1>6, <2>1, Zenon
  <2>3. /\ DOMAIN req' = Requests /\ \A q \in Requests : DOMAIN req'[q] = ReqFields
        /\ \A q \in Requests \ {r} : req'[q] = req[q]
        /\ req'[r].pc \in {"configure", "idle"}
    BY <1>6, AtShape, Zenon DEF ServerInv
  <2>5. req'[r].pc # "starting"
    BY <2>3, Zenon
  <2>4. Locked'
    <3>1. \A q \in Requests \ {r} : /\ req'[q] = req[q]
                                    /\ req[q].pc \notin {"starting", "configure"}
      BY <1>5, <2>3, Zenon
    <3>2. pm'.writer = r
      BY <2>1, Zenon
    <3> QED  BY <2>5, <3>1, <3>2, LockHeld, Zenon
  <2> QED  BY <1>1, <1>2, <2>1, <2>2, <2>3, <2>4, ServedStep, Zenon DEF Handled
<1>7. ASSUME Answer(r), DOMAIN pm' = PmFields, pm'.inst = pm.inst,
             \/ alive' = alive
             \/ alive' = alive \cup {Fresh} /\ pm'.proc = Fresh
      PROVE  ServerInv'
  <2>1. /\ alive' \ orphans \subseteq {pm'.proc} /\ 0 \notin alive' /\ pm'.inst \notin alive'
        /\ pm'.inst \notin orphans
    BY <1>3, <1>4, <1>7, Zenon
  <2>2. /\ DOMAIN req' = Requests /\ \A q \in Requests : DOMAIN req'[q] = ReqFields
        /\ \A q \in Requests \ {r} : req'[q] = req[q]
        /\ req'[r].pc = "idle"
    BY <1>7, AtShape, Zenon DEF ServerInv
  <2>4. req'[r].pc \notin {"starting", "configure"}
    BY <2>2, Zenon
  <2>3. Locked'
    BY <1>5, <2>2, <2>4, LockHeld, Zenon
  <2> QED  BY <1>1, <1>2, <1>7, <2>1, <2>2, <2>3, ServedStep, Zenon DEF Handled
<1>8. CASE /\ \E exited \in BOOLEAN : pm' = [pm EXCEPT !.exited = exited, !.writer = 0]
           /\ Answer(r) /\ alive' = alive
  BY <1>3, <1>7, <1>8, Zenon DEF PmFields
<1>9. CASE /\ alive' = alive \cup {Fresh} /\ Answer(r)
           /\ pm' = [pm EXCEPT !.proc = Fresh, !.exited = FALSE, !.writer = 0]
  BY <1>3, <1>7, <1>9, Zenon DEF PmFields
<1> QED  BY <1>6, <1>8, <1>9, Zenon DEF NewClient

(* Configure *)
LEMMA ConfigureKeeps ==
  ASSUME ServerInv, NEW r \in Requests, Configure(r)
  PROVE  ServerInv'
<1>1. /\ UNCHANGED <<load, db, advisory, drawn, srv, orphans, seen, ends, alive>>
      /\ req[r].pc = "configure" /\ pm' = [pm EXCEPT !.writer = 0]
  BY Zenon DEF Configure, dbVars
<1>2. ~Idle
  BY <1>1, Zenon DEF Idle
<1>3. DOMAIN pm = PmFields
  BY Zenon DEF ServerInv, Shapes
<1>4. DOMAIN pm' = PmFields /\ pm'.proc = pm.proc /\ pm'.inst = pm.inst
  BY <1>1, <1>3, Zenon DEF PmFields
<1>5. At(r, "call") \/ Answer(r)
  BY Zenon DEF Configure
<1>6. /\ DOMAIN req' = Requests /\ \A q \in Requests : DOMAIN req'[q] = ReqFields
      /\ \A q \in Requests \ {r} : req'[q] = req[q]
      /\ req'[r].pc \in {"call", "idle"}
  BY <1>5, AtShape, Zenon DEF ServerInv
<1>7. alive' \ orphans \subseteq {pm'.proc} /\ 0 \notin alive' /\ pm'.inst \notin orphans
  BY <1>1, <1>4, Zenon DEF ServerInv, Plugins
<1>8. pm'.inst \in alive' => pm'.inst \in conf' \cup failed'
  BY <1>1, <1>4, Zenon DEF Configure
<1>9. Locked'
  <2>1. \A q \in Requests \ {r} : req[q].pc \notin {"starting", "configure"}
    BY <1>1, Zenon DEF ServerInv, Plugins, Locked
  <2>2. req'[r].pc \notin {"starting", "configure"}
    BY <1>6
  <2> QED  BY <1>6, <2>1, <2>2, LockHeld, Zenon
<1> QED  BY <1>1, <1>2, <1>4, <1>6, <1>7, <1>8, <1>9, ServedStep, Zenon DEF Handled

(* PluginDies *)
LEMMA PluginDiesKeeps ==
  ASSUME ServerInv, PluginDies
  PROVE  ServerInv'
<1>1. /\ UNCHANGED <<load, db, advisory, drawn, srv, orphans, seen, ends, req>>
      /\ pm' = [pm EXCEPT !.exited = TRUE] /\ alive' = alive \ {pm.proc}
      /\ conf' = conf \ {pm.proc} /\ failed' = failed \ {pm.proc}
  BY Zenon DEF PluginDies, Kill, dbVars
<1>2. /\ DOMAIN pm = PmFields /\ DOMAIN req = Requests
      /\ \A q \in Requests : DOMAIN req[q] = ReqFields
  BY Zenon DEF ServerInv, Shapes
<1>3. /\ DOMAIN pm' = PmFields /\ pm'.proc = pm.proc /\ pm'.inst = pm.inst
      /\ pm'.writer = pm.writer
  BY <1>1, <1>2, Zenon DEF PmFields
<1>4. /\ alive' \ orphans \subseteq {pm'.proc} /\ 0 \notin alive' /\ alive' \subseteq alive
  BY <1>1, <1>3, Zenon DEF ServerInv, Plugins
<1>5. pm'.writer = 0 /\ pm'.inst \in alive' => pm'.inst \in conf' \cup failed'
  BY <1>1, <1>3 DEF ServerInv, Plugins
<1>6. pm'.inst \notin orphans /\ Locked'
  BY <1>1, <1>3, Zenon DEF ServerInv, Plugins, Locked
<1> QED  BY <1>1, <1>2, <1>3, <1>4, <1>5, <1>6, ServedStep, Zenon DEF Handled

----------------------------------------------------------------------------
(* The server as a whole *)

(* The initial states *)
LEMMA ServerStarts == ServerInit => ServerInv
<1> SUFFICES ASSUME ServerInit  PROVE ServerInv
  BY Zenon
<1>1. /\ DOMAIN load = LoadFields /\ load.kind \in {"postgres", "sqlite"}
      /\ load.recorded \in 0 .. Done /\ load.servers \subseteq Servers
      /\ (load.kind = "sqlite" /\ load.recorded < Done) => Solo
      /\ NewProvider(load.dns) = "plugin" => Solo
  BY ServerAssumption, Zenon DEF ServerInit, LoadFields, Solo
<1>2. /\ DOMAIN db = DbFields /\ db.recorded = load.recorded
      /\ db.schema = SchemaAt(load.recorded) /\ DOMAIN db.org = Accounts
      /\ load.recorded # 0 => db.keys = 1 /\ db.jwks = 2
  BY Zenon DEF ServerInit, DbFields
<1>13. \A a \in Accounts : db.org[a] = ""
  BY Zenon DEF ServerInit
<1>3. seen.keys = 0 /\ advisory = NoServer /\ drawn \in Nat /\ ends \in Nat
  BY Zenon DEF ServerInit
<1>4. /\ DOMAIN pm = PmFields /\ pm.inst = 0
      /\ alive = {} /\ conf = {} /\ failed = {} /\ orphans = {}
  BY Zenon DEF ServerInit, PmFields
<1>5. DOMAIN req = Requests /\ \A r \in Requests : DOMAIN req[r] = ReqFields /\ req[r].pc = "idle"
  <2>1. PICK i : i = [pc |-> "idle", to |-> 0, acme |-> FALSE]
    BY Zenon
  <2>2. DOMAIN i = ReqFields /\ i.pc = "idle"
    BY <2>1, Zenon DEF ReqFields
  <2>3. req = [r \in Requests |-> i]
    BY <2>1, Zenon DEF ServerInit
  <2> QED  BY <2>2, <2>3, Zenon
<1>6. DOMAIN srv = Servers /\ \A s \in Servers : DOMAIN srv[s] = SrvFields /\ srv[s].pc = "off"
  <2>1. PICK x : x = [pc |-> "off", key |-> 0, left |-> {}, provider |-> "none",
                      derp |-> LoadDERPSources(load.config, {})]
    BY Zenon
  <2>2. DOMAIN x = SrvFields /\ x.pc = "off"
    BY <2>1, Zenon DEF SrvFields
  <2>3. srv = [s \in Servers |-> x]
    BY <2>1, Zenon DEF ServerInit
  <2> QED  BY <2>2, <2>3, Zenon
<1>7. "off" \in Early /\ "off" \notin Critical
  BY Zenon DEF Early, Critical, Migrating
<1>8. Shapes
  <2>1. DOMAIN db.org = Accounts /\ db.recorded \in load.recorded .. Done
    BY <1>1, <1>2, Nineteen
  <2> QED  BY <1>1, <1>2, <1>3, <1>4, <1>5, <1>6, <1>7, <2>1, Zenon DEF Shapes
<1>9. Exclusion
  <2>1. load.recorded = Done => UpToDate
    BY <1>2, Nineteen DEF UpToDate
  <2>2. load.recorded < Done \/ load.recorded = Done
    BY <1>1, Nineteen
  <2> QED  BY <1>1, <1>6, <1>7, <2>1, <2>2, Zenon DEF Exclusion
<1>10. Database
  <2>1. ~(load.recorded < Done /\ db.recorded = Done)
    BY <1>1, <1>2, Nineteen
  <2> QED  BY <1>2, <1>3, <1>13, <2>1, Zenon DEF Database, Base
<1>11. Plugins
  BY <1>4, <1>5, <1>6, Zenon DEF Plugins, Idle, Locked
<1>12. \A s \in Servers : Stage(s) /\ ReadyServer(s)
  BY <1>6, Zenon DEF Stage, ReadyServer, Migrating, Up, Ready
<1> QED  BY <1>8, <1>9, <1>10, <1>11, <1>12, Zenon DEF ServerInv

(* Every step of the server *)
LEMMA ServerSteps == ServerInv /\ ServerNext => ServerInv'
<1> SUFFICES ASSUME ServerInv, ServerNext  PROVE ServerInv'
  BY Zenon
<1>1. ASSUME NEW s \in Servers, StartStep(s)  PROVE ServerInv'
  BY <1>1, StartKeeps, LockKeeps, MigrateKeeps, AlterKeeps, RecordKeeps, MigratedKeeps,
     UpdateOrganizationKeeps, CreateServerKeyKeeps, SetControlKeysKeeps,
     CreateJSONWebKeySetKeeps, SetJSONWebKeySetKeeps, SetupKeeps, ListenKeeps, Zenon
     DEF StartStep
<1>2. ASSUME NEW s \in Servers, Stop(s) \/ ShutdownHttpServer(s) \/ Exit(s) \/ Crash(s)  PROVE ServerInv'
  BY <1>2, StopKeeps, ShutdownKeeps, EndKeeps, Zenon
<1>3. ASSUME NEW s \in Servers, NEW r \in Requests, NEW acme \in BOOLEAN, SetDNS(s, r, acme)
      PROVE  ServerInv'
  BY <1>3, SetDNSKeeps, Zenon
<1>4. ASSUME NEW r \in Requests, RequestStep(r)  PROVE ServerInv'
  BY <1>4, HandlerKeeps, RestartKeeps, NewClientKeeps, ConfigureKeeps, Zenon DEF RequestStep
<1> QED  BY <1>1, <1>2, <1>3, <1>4, PluginDiesKeeps, Zenon DEF ServerNext

(* A key set that is stored stays. *)
LEMMA JwksStay ==
  ASSUME ServerInv, ServerNext, db.jwks # 0
  PROVE  db'.jwks = db.jwks
<1>1. DOMAIN db = DbFields
  BY Zenon DEF ServerInv, Shapes
<1>2. ASSUME NEW s \in Servers, StartStep(s)  PROVE db'.jwks = db.jwks
  <2>1. CASE Start(s) \/ Lock(s) \/ Migrated(s) \/ CreateServerKey(s)
             \/ CreateJSONWebKeySet(s) \/ Setup(s) \/ Listen(s)
    BY <2>1, Zenon DEF Start, Lock, Migrated, CreateServerKey, CreateJSONWebKeySet, Setup, Listen,
       Fail, dbVars
  <2>2. CASE Migrate(s)
    BY <1>1, <2>2, Zenon DEF Migrate, Fail, DbFields
  <2>3. CASE Alter(s)
    BY <1>1, <2>3, Zenon DEF Alter, Fail, DbFields, dbVars
  <2>4. CASE Record(s) \/ SetControlKeys(s)
    BY <1>1, <2>4, Zenon DEF Record, SetControlKeys, DbFields
  <2>5. ASSUME NEW a \in Accounts, UpdateOrganization(s, a)  PROVE db'.jwks = db.jwks
    BY <1>1, <2>5, Zenon DEF UpdateOrganization, DbFields
  <2>6. CASE SetJSONWebKeySet(s)
    BY <2>6, Zenon DEF SetJSONWebKeySet, ServerInv, Stage
  <2> QED  BY <1>2, <2>1, <2>2, <2>3, <2>4, <2>5, <2>6, Zenon DEF StartStep
<1>3. ASSUME NEW s \in Servers, Stop(s) \/ ShutdownHttpServer(s) \/ Exit(s) \/ Crash(s)
      PROVE  db'.jwks = db.jwks
  BY <1>3, Zenon DEF Stop, ShutdownHttpServer, Exit, Crash, Fail, dbVars
<1>4. ASSUME NEW s \in Servers, NEW r \in Requests, NEW acme \in BOOLEAN, SetDNS(s, r, acme)
      PROVE  db'.jwks = db.jwks
  BY <1>4, Zenon DEF SetDNS, dbVars
<1>5. ASSUME NEW r \in Requests, RequestStep(r)
      PROVE  db'.jwks = db.jwks
  BY <1>5, Zenon DEF RequestStep, EnsureRunning, Restart, NewClient, Configure, CallPlugin, SetRecord, Timeout,
     Visible, dbVars
<1>6. CASE PluginDies
  BY <1>6, Zenon DEF PluginDies, dbVars
<1> QED  BY <1>2, <1>3, <1>4, <1>5, <1>6, Zenon DEF ServerNext

----------------------------------------------------------------------------
(* What nodes are told *)

NodeInv == ServerInv /\ Nodes

(* Steps that leave the server alone *)
LEMMA ServerStays == ServerInv /\ UNCHANGED vars => ServerInv'
<1> SUFFICES ASSUME ServerInv, UNCHANGED vars  PROVE ServerInv'
  BY Zenon
<1>1. UNCHANGED <<load, db, advisory, drawn, srv, pm, alive, conf, failed, orphans, req, seen, ends>>
  BY Zenon DEF vars, dbVars, pluginVars
<1>2. /\ DOMAIN pm' = PmFields /\ alive' \ orphans \subseteq {pm'.proc} /\ 0 \notin alive'
      /\ pm'.writer = 0 /\ pm'.inst \in alive' => pm'.inst \in conf' \cup failed'
      /\ DOMAIN req' = Requests /\ \A r \in Requests : DOMAIN req'[r] = ReqFields
      /\ pm'.inst \notin orphans
  BY <1>1, Zenon DEF ServerInv, Shapes, Plugins
<1>3. Locked'
  BY <1>1, Zenon DEF ServerInv, Plugins, Locked
<1> QED  BY <1>1, <1>2, <1>3, ServedStep, Zenon DEF Handled

(* The operator may edit the DNS section: no server has read it. *)
LEMMA ReconfigureKeeps ==
  ASSUME ServerInv, NEW dns, NewProvider(dns) \in {"none", "builtin"}, Reconfigure(dns)
  PROVE  ServerInv' /\ db' = db
<1>1. /\ UNCHANGED <<db, advisory, drawn, srv, pm, alive, conf, failed, orphans, req, seen, ends>>
      /\ load' = [load EXCEPT !.dns = dns] /\ \A s \in Servers : srv[s].pc = "off"
  BY Zenon DEF Reconfigure, dbVars, pluginVars
<1>2. DOMAIN load = LoadFields
  BY Zenon DEF ServerInv, Shapes
<1>3. /\ DOMAIN load' = LoadFields /\ load'.kind = load.kind /\ load'.servers = load.servers
      /\ load'.recorded = load.recorded /\ load'.orgs = load.orgs /\ load'.key = load.key
      /\ load'.dns = dns
  BY <1>1, <1>2, Zenon DEF LoadFields
<1>4. Shapes'
  <2>1. NewProvider(load'.dns) # "plugin"
    BY <1>3, Zenon
  <2> QED  BY <1>1, <1>3, <2>1, Zenon DEF ServerInv, Shapes
<1>5. Exclusion'
  BY <1>1, <1>3, Zenon DEF ServerInv, Exclusion, Solo, UpToDate
<1>6. Database'
  BY <1>1, <1>3, Zenon DEF ServerInv, Database, Base, Current, TheKey
<1>7. Plugins'
  BY <1>1, <1>3, Zenon DEF ServerInv, Plugins, Idle, Locked
<1>8. \A s \in Servers : (Stage(s) /\ ReadyServer(s))'
  BY <1>1, Zenon DEF Stage, ReadyServer, Migrating, Up, Ready
<1> QED  BY <1>1, <1>4, <1>5, <1>6, <1>7, <1>8, Zenon DEF ServerInv

(* A configuration that is stored has the flags of the request. *)
LEMMA StoredConfig ==
  ASSUME NEW c \in DNSConfigs
  PROVE  /\ DOMAIN apiDNSConfigToDomainDNSConfig(c) = DnsFields
         /\ apiDNSConfigToDomainDNSConfig(c).certs = c.certs
         /\ apiDNSConfigToDomainDNSConfig(c).magic = c.magic
<1>1. DOMAIN c = DnsFields
  BY NodeAssumption, Zenon DEF DnsFields
<1> QED  BY <1>1, Zenon DEF apiDNSConfigToDomainDNSConfig, DnsFields

(* The initial states of the nodes' view *)
LEMMA NodeStarts == NodeInit => NodeInv
<1> SUFFICES ASSUME NodeInit  PROVE NodeInv
  BY Zenon
<1>1. ServerInv
  BY ServerStarts, Zenon DEF NodeInit
<1>2. DOMAIN dnsConfig = DnsFields /\ ~dnsConfig.certs /\ unchecked = FALSE /\ issued = {}
  BY Zenon DEF NodeInit, DnsFields
<1> QED  BY <1>1, <1>2, Zenon DEF NodeInv, Nodes

(* Every step keeps what nodes are told in order. *)
LEMMA NodeSteps == NodeInv /\ NodeNext => NodeInv'
<1> SUFFICES ASSUME NodeInv, NodeNext  PROVE NodeInv'
  BY Zenon
<1>1. CASE ServerNext /\ UNCHANGED nodeVars
  <2>1. ServerInv'
    BY <1>1, ServerSteps, Zenon DEF NodeInv
  <2>2. db.jwks # 0 => db'.jwks = db.jwks
    BY <1>1, JwksStay, Zenon DEF NodeInv
  <2>3. Nodes'
    BY <1>1, <2>2, Zenon DEF NodeInv, Nodes, nodeVars
  <2> QED  BY <2>1, <2>3, Zenon DEF NodeInv
<1>2. ASSUME NEW s \in Servers, NEW c \in DNSConfigs, SetDNSConfig(s, c) \/ UpdateTailnetDNS(s, c)
      PROVE  NodeInv'
  <2>1. /\ UNCHANGED vars /\ issued' = issued /\ dnsConfig' = apiDNSConfigToDomainDNSConfig(c)
        /\ unchecked' \in BOOLEAN /\ (unchecked' \/ (c.certs => c.magic))
    BY <1>2, Zenon DEF SetDNSConfig, UpdateTailnetDNS, NodeInv, Nodes
  <2>2. ServerInv' /\ db' = db
    BY <2>1, ServerStays, Zenon DEF NodeInv, vars, dbVars
  <2>3. DOMAIN dnsConfig' = DnsFields /\ dnsConfig'.certs = c.certs /\ dnsConfig'.magic = c.magic
    BY <2>1, StoredConfig, Zenon
  <2>4. Nodes'
    BY <2>1, <2>2, <2>3, Zenon DEF NodeInv, Nodes
  <2> QED  BY <2>2, <2>4, Zenon DEF NodeInv
<1>3. ASSUME NEW s \in Servers, NEW m \in DOMAIN Machines, FetchToken(s, m)
      PROVE  NodeInv'
  <2>1. UNCHANGED <<vars, dnsConfig, unchecked>> /\ srv[s].pc \in Ready
    BY <1>3, Zenon DEF FetchToken, ServesNodes, Ready
  <2>2. ServerInv' /\ db' = db
    BY <2>1, ServerStays, Zenon DEF NodeInv, vars, dbVars
  <2>3. db.jwks # 0
    BY <2>1, Zenon DEF NodeInv, ServerInv, Stage, Up, Ready
  <2>4. PICK claim : issued' = issued \cup {[kid |-> db.jwks, of |-> m, claim |-> claim]}
    BY <1>3, Zenon DEF FetchToken
  <2>5. \A t \in issued' : t \in issued \/ t.kid = db.jwks
    BY <2>4
  <2>6. Nodes'
    BY <2>1, <2>2, <2>3, <2>5, Zenon DEF NodeInv, Nodes
  <2> QED  BY <2>2, <2>6, Zenon DEF NodeInv
<1>4. ASSUME NEW dns, NewProvider(dns) \in {"none", "builtin"}, Reconfigure(dns)
      PROVE  NodeInv'
  <2>1. ServerInv' /\ db' = db /\ UNCHANGED nodeVars
    BY <1>4, ReconfigureKeeps DEF NodeInv, Reconfigure
  <2>2. Nodes'
    BY <2>1, Zenon DEF NodeInv, Nodes, nodeVars
  <2> QED  BY <2>1, <2>2, Zenon DEF NodeInv
<1>5. CASE \E dns \in {d.dns : d \in Loads} :
              NewProvider(dns) \in {"none", "builtin"} /\ Reconfigure(dns)
  BY <1>4, <1>5
<1> QED  BY <1>1, <1>2, <1>3, <1>5, Zenon DEF NodeNext

----------------------------------------------------------------------------
(* Tokens *)

(* Tuples are equal part by part. *)
LEMMA Tuples ==
  ASSUME NEW a, NEW b, NEW c, NEW d, NEW e, NEW f
  PROVE  /\ <<a, b>> = <<c, d>> => a = c /\ b = d
         /\ <<a, b, c>> = <<d, e, f>> => a = d /\ b = e /\ c = f
         /\ <<a, b>> # <<d, e, f>>
<1>1. Len(<<a, b>>) = 2 /\ Len(<<d, e, f>>) = 3
  BY Zenon
<1>2. <<a, b>> # <<d, e, f>>
  BY <1>1, Zenon
<1>3. <<a, b>> = <<c, d>> => a = c /\ b = d
  BY Zenon
<1>4. <<a, b, c>> = <<d, e, f>> => a = d /\ b = e /\ c = f
  BY Zenon
<1> QED  BY <1>2, <1>3, <1>4, Zenon

(* A pair with a prefix *)
LEMMA Prefixed ==
  ASSUME NEW a, NEW b
  PROVE  <<>> \o <<a, b>> = <<a, b>> /\ <<"sk">> \o <<a, b>> = <<"sk", a, b>>
<1> DEFINE S == {"sk", a, b}
           t == <<"sk">> \o <<a, b>>
<1>1. <<"sk">> \in Seq(S) /\ <<a, b>> \in Seq(S) /\ <<"sk", a, b>> \in Seq(S)
  OBVIOUS
<1>2. Len(<<"sk">>) = 1 /\ Len(<<a, b>>) = 2 /\ Len(<<"sk", a, b>>) = 3
  BY Zenon
<1>3. t \in Seq(S) /\ Len(t) = 3
  BY <1>1
<1>4. t[1] = "sk" /\ t[2] = a /\ t[3] = b
  OBVIOUS
<1>5. \A i \in 1 .. 3 : t[i] = <<"sk", a, b>>[i]
  <2> HIDE DEF t, S
  <2>1. \A i \in 1 .. 3 : i = 1 \/ i = 2 \/ i = 3
    OBVIOUS
  <2> QED  BY <1>4, <2>1
<1>6. t = <<"sk", a, b>>
  <2> DEFINE u == <<"sk", a, b>>
  <2>1. t \in [1 .. 3 -> S] /\ u \in [1 .. 3 -> S] /\ \A i \in 1 .. 3 : t[i] = u[i]
    <3> HIDE DEF t, S
    <3> QED  BY <1>1, <1>2, <1>3, <1>5
  <2> HIDE DEF t, S, u
  <2>2. t = u
    BY <2>1
  <2> QED  BY <2>2, Zenon DEF u
<1>7. <<>> \o <<a, b>> = <<a, b>>
  OBVIOUS
<1> QED  BY <1>6, <1>7, Zenon

(* A part that is drawn is new. *)
LEMMA Draws ==
  ASSUME drawnAtoms \in 0 .. Len(Atoms), NEW n \in 1 .. 2, drawnAtoms + n =< Len(Atoms),
         drawnAtoms' = drawnAtoms + n
  PROVE  /\ \A i \in 1 .. n : Atoms[drawnAtoms + i] \notin Parts \cup {"sk", "st", "svc"}
         /\ \A i \in 1 .. n : Atoms[drawnAtoms + i] \in Parts'
         /\ n = 2 => Atoms[drawnAtoms + 1] # Atoms[drawnAtoms + 2]
         /\ Parts \subseteq Parts'
         /\ drawnAtoms' \in 0 .. Len(Atoms)
<1>0. Len(Atoms) \in Nat
  BY CredAssumption
<1>1. ASSUME NEW i \in 1 .. n
      PROVE  /\ drawnAtoms + i \in 1 .. Len(Atoms) /\ drawnAtoms + i \in 1 .. drawnAtoms'
             /\ \A j \in 1 .. drawnAtoms : j \in 1 .. Len(Atoms) /\ j # drawnAtoms + i
  BY <1>0
<1>2. ASSUME NEW i \in 1 .. n
      PROVE  /\ Atoms[drawnAtoms + i] \notin Parts \cup {"sk", "st", "svc"}
             /\ Atoms[drawnAtoms + i] \in Parts'
  BY <1>1, CredAssumption, Zenon DEF Parts
<1>3. Parts \subseteq Parts'
  <2>1. \A j \in 1 .. drawnAtoms : j \in 1 .. drawnAtoms'
    BY <1>0
  <2> QED  BY <2>1, Zenon DEF Parts
<1>4. n = 2 => Atoms[drawnAtoms + 1] # Atoms[drawnAtoms + 2]
  <2>1. n = 2 => /\ drawnAtoms + 1 \in 1 .. Len(Atoms) /\ drawnAtoms + 2 \in 1 .. Len(Atoms)
                 /\ drawnAtoms + 1 # drawnAtoms + 2
    BY <1>0
  <2> QED  BY <2>1, CredAssumption, Zenon
<1>5. drawnAtoms' \in 0 .. Len(Atoms)
  BY <1>0
<1> QED  BY <1>2, <1>3, <1>4, <1>5, Zenon

(* A value with a new part is no value of before. *)
LEMMA NewValue ==
  ASSUME Minted, NEW a, NEW b, b \notin Parts
  PROVE  /\ \A m \in minted : m.value # <<a, b>> /\ m.value # <<"sk", a, b>>
         /\ <<a, b>> \notin gone /\ <<"sk", a, b>> \notin gone
<1>1. ASSUME NEW m \in minted  PROVE m.value # <<a, b>> /\ m.value # <<"sk", a, b>>
  BY Tuples DEF Minted
<1>2. ASSUME NEW v \in gone  PROVE v # <<a, b>> /\ v # <<"sk", a, b>>
  BY Tuples DEF Minted
<1> QED  BY <1>1, <1>2, Zenon

(* CreateApiKey, CreateSystemApiKey and CreateAuthKey *)
LEMMA MintKeeps ==
  ASSUME Tokens, NEW kind, NEW prefix, NEW of, NEW expires \in Int,
         \/ kind \in {"api", "auth"} /\ prefix = <<>>
         \/ kind = "system" /\ prefix = <<"sk">>,
         Mint(kind, prefix, of, expires)
  PROVE  Tokens'
<1> DEFINE key == Atoms[drawnAtoms + 1]
           pwd == Atoms[drawnAtoms + 2]
<1>1. /\ drawnAtoms + 2 =< Len(Atoms) /\ drawnAtoms' = drawnAtoms + 2
      /\ UNCHANGED <<now, sealed, gone>>
  BY Zenon DEF Mint
<1>2. PICK r : /\ r = [kind |-> kind, key |-> key, hash |-> pwd, expires |-> expires, of |-> of]
               /\ creds' = creds \cup {r}
  BY Zenon DEF Mint
<1>3. PICK m : /\ m = [kind |-> kind, value |-> prefix \o <<key, pwd>>, of |-> of,
                       expires |-> expires, by |-> "", created |-> 0]
               /\ minted' = minted \cup {m}
  BY Zenon DEF Mint
<1>4. m.kind = kind /\ m.of = of /\ m.expires = expires /\ m.created = 0
  BY <1>3, Zenon
<1>5. r.kind = kind /\ r.key = key /\ r.hash = pwd /\ r.expires = expires /\ r.of = of
  BY <1>2, Zenon
<1>6. /\ key \notin Parts /\ pwd \notin Parts /\ key \in Parts' /\ pwd \in Parts'
      /\ Parts \subseteq Parts' /\ drawnAtoms' \in 0 .. Len(Atoms)
  <2>1. 1 \in 1 .. 2 /\ 2 \in 1 .. 2
    OBVIOUS
  <2> QED  BY <1>1, <2>1, Draws, Zenon DEF Tokens
<1> HIDE DEF key, pwd
<1>7. m.value = Value(r) /\ (kind = "system" => m.value = <<"sk", key, pwd>>)
      /\ (kind # "system" => m.value = <<key, pwd>>)
  <2>1. m.value = prefix \o <<key, pwd>>
    BY <1>3, Zenon
  <2>2. CASE kind \in {"api", "auth"} /\ prefix = <<>>
    <3>1. m.value = <<key, pwd>> /\ kind # "system"
      BY <2>1, <2>2, Prefixed, Zenon
    <3> QED  BY <1>5, <3>1, Zenon DEF Value
  <2>3. CASE kind = "system" /\ prefix = <<"sk">>
    <3>1. m.value = <<"sk", key, pwd>>
      BY <2>1, <2>3, Prefixed, Zenon
    <3> QED  BY <1>5, <2>3, <3>1, Zenon DEF Value
  <2> QED  BY <2>2, <2>3, Zenon
<1>8. m.value \notin gone /\ \A n \in minted : n.value # m.value
  BY <1>6, <1>7, NewValue, Zenon DEF Tokens
<1>9. Minted'
  <2>1. ASSUME NEW n \in minted'
        PROVE  /\ n.expires \in Int /\ n.created \in Int
               /\ \/ n.kind = "admin" /\ \E a \in Parts' : n.value = <<"st", a>>
                  \/ n.kind \in {"api", "auth"} /\ \E a, b \in Parts' : n.value = <<a, b>>
                  \/ n.kind = "system" /\ \E a, b \in Parts' : n.value = <<"sk", a, b>>
    <3>1. CASE n \in minted
      BY <1>6, <3>1, Zenon DEF Tokens, Minted
    <3>2. CASE n = m
      <4>1. n.kind = kind /\ n.value = m.value /\ n.expires \in Int /\ n.created \in Int
        BY <1>4, <3>2
      <4>2. CASE kind = "system"
        BY <1>6, <1>7, <4>1, <4>2, Zenon
      <4>3. CASE kind \in {"api", "auth"}
        BY <1>6, <1>7, <4>1, <4>3, Zenon
      <4> QED  BY <4>2, <4>3, Zenon
    <3> QED  BY <1>3, <3>1, <3>2, Zenon
  <2>2. \A n, p \in minted' : n.value = p.value => n = p
    BY <1>3, <1>8, Zenon DEF Tokens, Minted
  <2>3. \A v \in gone' : \E a, b \in Parts' : v = <<a, b>>
    BY <1>1, <1>6 DEF Tokens, Minted
  <2> QED  BY <2>1, <2>2, <2>3, Zenon DEF Minted
<1>10. SameKey(r, m)
  BY <1>4, <1>5, <1>7, Zenon DEF SameKey
<1>11. Rows'
  <2>1. ASSUME NEW q \in creds'
        PROVE  /\ q.kind \in {"api", "auth", "system"} /\ q.key \in Parts'
               /\ Value(q) \notin gone' /\ \E n \in minted' : SameKey(q, n)
    <3>1. CASE q \in creds
      BY <1>1, <1>3, <1>6, <3>1, Zenon DEF Tokens, Rows
    <3>2. CASE q = r
      BY <1>1, <1>3, <1>5, <1>6, <1>7, <1>8, <1>10, <3>2, Zenon
    <3> QED  BY <1>2, <3>1, <3>2, Zenon
  <2>2. \A q, p \in creds' : q.key = p.key => q = p
    BY <1>2, <1>5, <1>6 DEF Tokens, Rows
  <2>3. ASSUME NEW n \in minted', n.kind # "admin", n.value \notin gone'
        PROVE  \E q \in creds' : SameKey(q, n)
    <3>1. CASE n \in minted
      BY <1>1, <1>2, <2>3, <3>1, Zenon DEF Tokens, Rows
    <3>2. CASE n = m
      BY <1>2, <1>10, <3>2, Zenon
    <3> QED  BY <1>3, <3>1, <3>2, Zenon
  <2>4. \A b \in sealed' : \E n \in minted' : n.kind = "admin" /\ SameSeal(b, n)
    BY <1>1, <1>3, Zenon DEF Tokens, Rows
  <2>5. \A n \in minted' : n.kind = "admin" => \E b \in sealed' : SameSeal(b, n)
    BY <1>1, <1>3, <1>4, Zenon DEF Tokens, Rows
  <2> QED  BY <2>1, <2>2, <2>3, <2>4, <2>5, Zenon DEF Rows
<1> QED  BY <1>1, <1>6, <1>9, <1>11, Zenon DEF Tokens

(* GenerateSystemAdminToken *)
LEMMA GenerateKeeps ==
  ASSUME Tokens, NEW by, NEW clock \in Int, GenerateSystemAdminToken(by, clock)
  PROVE  Tokens'
<1> DEFINE blob == Atoms[drawnAtoms + 1]
<1>1. /\ drawnAtoms + 1 =< Len(Atoms) /\ drawnAtoms' = drawnAtoms + 1
      /\ UNCHANGED <<now, creds, gone>>
  <2>1. /\ drawnAtoms < Len(Atoms) /\ drawnAtoms' = drawnAtoms + 1
        /\ UNCHANGED <<now, creds, gone>>
    BY Zenon DEF GenerateSystemAdminToken
  <2>2. Len(Atoms) \in Nat
    BY CredAssumption
  <2> QED  BY <2>1, <2>2 DEF Tokens
<1>2. PICK b : /\ b = [blob |-> blob, by |-> by, created |-> clock]
               /\ sealed' = sealed \cup {b}
  BY Zenon DEF GenerateSystemAdminToken
<1>3. PICK m : /\ m = [kind |-> "admin", value |-> <<"st", blob>>, of |-> "",
                       expires |-> 0, by |-> by, created |-> clock]
               /\ minted' = minted \cup {m}
  BY Zenon DEF GenerateSystemAdminToken
<1>4. /\ m.kind = "admin" /\ m.value = <<"st", blob>> /\ m.by = by /\ m.expires = 0
      /\ m.created = clock
  BY <1>3, Zenon
<1>5. b.blob = blob /\ b.by = by /\ b.created = clock
  BY <1>2, Zenon
<1>6. blob \notin Parts /\ blob \in Parts' /\ Parts \subseteq Parts'
      /\ drawnAtoms' \in 0 .. Len(Atoms)
  <2>1. 1 \in 1 .. 1 /\ 1 \in 1 .. 2
    OBVIOUS
  <2> QED  BY <1>1, <2>1, Draws, Zenon DEF Tokens
<1> HIDE DEF blob
<1>7. \A n \in minted : n.value # m.value
  BY <1>4, <1>6, NewValue, Zenon DEF Tokens
<1>8. SameSeal(b, m)
  BY <1>4, <1>5, Zenon DEF SameSeal
<1>9. Minted'
  <2>1. ASSUME NEW n \in minted'
        PROVE  /\ n.expires \in Int /\ n.created \in Int
               /\ \/ n.kind = "admin" /\ \E a \in Parts' : n.value = <<"st", a>>
                  \/ n.kind \in {"api", "auth"} /\ \E a, c \in Parts' : n.value = <<a, c>>
                  \/ n.kind = "system" /\ \E a, c \in Parts' : n.value = <<"sk", a, c>>
    <3>1. CASE n \in minted
      BY <1>6, <3>1, Zenon DEF Tokens, Minted
    <3>2. CASE n = m
      BY <1>4, <1>6, <3>2
    <3> QED  BY <1>3, <3>1, <3>2, Zenon
  <2>2. \A n, p \in minted' : n.value = p.value => n = p
    BY <1>3, <1>7, Zenon DEF Tokens, Minted
  <2>3. \A v \in gone' : \E a, c \in Parts' : v = <<a, c>>
    BY <1>1, <1>6 DEF Tokens, Minted
  <2> QED  BY <2>1, <2>2, <2>3, Zenon DEF Minted
<1>10. Rows'
  <2>1. \A q \in creds' : /\ q.kind \in {"api", "auth", "system"} /\ q.key \in Parts'
                          /\ Value(q) \notin gone' /\ \E n \in minted' : SameKey(q, n)
    BY <1>1, <1>3, <1>6, Zenon DEF Tokens, Rows
  <2>2. \A q, p \in creds' : q.key = p.key => q = p
    BY <1>1, Zenon DEF Tokens, Rows
  <2>3. ASSUME NEW n \in minted', n.kind # "admin", n.value \notin gone'
        PROVE  \E q \in creds' : SameKey(q, n)
    BY <1>1, <1>3, <1>4, <2>3, Zenon DEF Tokens, Rows
  <2>4. \A c \in sealed' : \E n \in minted' : n.kind = "admin" /\ SameSeal(c, n)
    BY <1>2, <1>3, <1>4, <1>8, Zenon DEF Tokens, Rows
  <2>5. \A n \in minted' : n.kind = "admin" => \E c \in sealed' : SameSeal(c, n)
    BY <1>2, <1>3, <1>8, Zenon DEF Tokens, Rows
  <2> QED  BY <2>1, <2>2, <2>3, <2>4, <2>5, Zenon DEF Rows
<1> QED  BY <1>1, <1>6, <1>9, <1>10, Zenon DEF Tokens

(* DeleteKey takes the row of one token. *)
LEMMA DeleteKeeps ==
  ASSUME Tokens, NEW r \in creds, DeleteKey(r)
  PROVE  Tokens'
<1>1. /\ r.kind # "system" /\ creds' = creds \ {r} /\ gone' = gone \cup {<<r.key, r.hash>>}
      /\ UNCHANGED <<now, sealed, minted, drawnAtoms>>
  BY Zenon DEF DeleteKey
<1>2. Parts' = Parts
  BY <1>1, Zenon DEF Parts
<1>3. Value(r) = <<r.key, r.hash>>
  BY <1>1, Zenon DEF Value
<1>4. PICK m \in minted : SameKey(r, m)
  BY Zenon DEF Tokens, Rows
<1>5. \E a, b \in Parts : <<r.key, r.hash>> = <<a, b>>
  BY <1>1, <1>3, <1>4 DEF Tokens, Minted, Rows, SameKey
<1>6. Minted'
  BY <1>1, <1>2, <1>5 DEF Tokens, Minted
<1>7. Rows'
  <2>1. ASSUME NEW q \in creds'
        PROVE  Value(q) \notin gone'
    <3>1. q \in creds /\ q # r /\ q.key # r.key
      BY <1>1, Zenon DEF Tokens, Rows
    <3>2. Value(q) # <<r.key, r.hash>>
      BY <3>1, Tuples, Zenon DEF Value
    <3> QED  BY <1>1, <3>1, <3>2, Zenon DEF Tokens, Rows
  <2>2. ASSUME NEW n \in minted', n.kind # "admin", n.value \notin gone'
        PROVE  \E q \in creds' : SameKey(q, n)
    <3>1. PICK q \in creds : SameKey(q, n)
      BY <1>1, <2>2, Zenon DEF Tokens, Rows
    <3>2. q # r
      BY <1>1, <1>3, <2>2, <3>1, Zenon DEF SameKey
    <3> QED  BY <1>1, <3>1, <3>2, Zenon
  <2>3. \A q \in creds' : /\ q.kind \in {"api", "auth", "system"} /\ q.key \in Parts'
                          /\ \E n \in minted' : SameKey(q, n)
    BY <1>1, <1>2, Zenon DEF Tokens, Rows
  <2>4. /\ \A q, p \in creds' : q.key = p.key => q = p
        /\ \A b \in sealed' : \E n \in minted' : n.kind = "admin" /\ SameSeal(b, n)
        /\ \A n \in minted' : n.kind = "admin" => \E b \in sealed' : SameSeal(b, n)
    BY <1>1, Zenon DEF Tokens, Rows
  <2> QED  BY <2>1, <2>2, <2>3, <2>4, Zenon DEF Rows
<1> QED  BY <1>1, <1>6, <1>7, Zenon DEF Tokens

----------------------------------------------------------------------------
(* The whole *)

CredInv == NodeInv /\ Tokens

(* Tokens stay as they are when nothing is minted or deleted. *)
LEMMA TokensStay ==
  ASSUME Tokens, now' \in Nat, UNCHANGED <<creds, sealed, minted, gone, drawnAtoms>>
  PROVE  Tokens'
<1>1. Parts' = Parts
  BY Zenon DEF Parts
<1>2. Minted'
  BY <1>1, Zenon DEF Tokens, Minted
<1>3. Rows'
  BY <1>1, Zenon DEF Tokens, Rows
<1> QED  BY <1>2, <1>3, Zenon DEF Tokens

(* What nodes are told stays when the server and it are left alone. *)
LEMMA NodeStays ==
  ASSUME NodeInv, UNCHANGED <<vars, nodeVars>>
  PROVE  NodeInv'
<1>1. ServerInv' /\ db' = db
  BY ServerStays, Zenon DEF NodeInv, vars, dbVars
<1>2. Nodes'
  BY <1>1, Zenon DEF NodeInv, Nodes, nodeVars
<1> QED  BY <1>1, <1>2, Zenon DEF NodeInv

(* The invariant holds initially. *)
LEMMA CredStarts == CredInit => CredInv
<1> SUFFICES ASSUME CredInit  PROVE CredInv
  BY Zenon
<1>1. NodeInv
  BY NodeStarts, Zenon DEF CredInit
<1>2. Len(Atoms) \in Nat
  BY CredAssumption
<1>3. now = 1 /\ creds = {} /\ sealed = {} /\ minted = {} /\ gone = {} /\ drawnAtoms = 0
  BY Zenon DEF CredInit
<1>4. Tokens
  BY <1>2, <1>3 DEF Tokens, Minted, Rows
<1> QED  BY <1>1, <1>4, Zenon DEF CredInv

(* Every step keeps it. *)
LEMMA CredSteps == CredInv /\ [CredNext]_<<vars, nodeVars, credVars>> => CredInv'
<1> SUFFICES ASSUME CredInv, [CredNext]_<<vars, nodeVars, credVars>>  PROVE CredInv'
  BY Zenon
<1>0. now \in Nat /\ Life \in Nat
  BY CredAssumption, Zenon DEF CredInv, Tokens
<1>1. CASE NodeNext /\ UNCHANGED credVars
  <2>1. NodeInv'
    BY <1>1, NodeSteps, Zenon DEF CredInv
  <2>2. Tokens'
    BY <1>0, <1>1, TokensStay, Zenon DEF CredInv, credVars
  <2> QED  BY <2>1, <2>2, Zenon DEF CredInv
<1>2. ASSUME Tokens', UNCHANGED <<vars, nodeVars>>  PROVE CredInv'
  BY <1>2, NodeStays, Zenon DEF CredInv
<1>3. ASSUME NEW kind, NEW prefix, NEW of, NEW expires \in Int,
             \/ kind \in {"api", "auth"} /\ prefix = <<>>
             \/ kind = "system" /\ prefix = <<"sk">>,
             Mint(kind, prefix, of, expires)
      PROVE  CredInv'
  <2>1. UNCHANGED <<vars, nodeVars>>
    BY <1>3, Zenon DEF Mint
  <2>2. Tokens'
    BY <1>3, MintKeeps, Zenon DEF CredInv
  <2> QED  BY <1>2, <2>1, <2>2, Zenon
<1>4. now + Life \in Int /\ now + 1 \in Int /\ 0 \in Int
  BY <1>0
<1>5. CASE CreateApiKey("ann")
  BY <1>3, <1>4, <1>5, Zenon DEF CreateApiKey
<1>6. CASE CreateSystemApiKey
  BY <1>3, <1>4, <1>6, Zenon DEF CreateSystemApiKey
<1>7. ASSUME NEW expires \in {0, now + 1}, CreateAuthKey("ann", expires)  PROVE CredInv'
  <2>1. expires \in Int
    BY <1>4, Zenon
  <2> QED  BY <1>3, <1>7, <2>1, Zenon DEF CreateAuthKey
<1>8. ASSUME NEW by \in AdminKeys, NEW clock \in {now - 2, now, now + 2},
             GenerateSystemAdminToken(by, clock)
      PROVE  CredInv'
  <2>1. clock \in Int
    BY <1>0
  <2>2. UNCHANGED <<vars, nodeVars>>
    BY <1>8, Zenon DEF GenerateSystemAdminToken
  <2>3. Tokens'
    BY <1>8, <2>1, GenerateKeeps, Zenon DEF CredInv
  <2> QED  BY <1>2, <2>2, <2>3, Zenon
<1>9. ASSUME NEW r \in creds, DeleteKey(r)  PROVE CredInv'
  <2>1. Tokens' /\ UNCHANGED <<vars, nodeVars>>
    BY <1>9, DeleteKeeps, Zenon DEF CredInv, DeleteKey
  <2> QED  BY <1>2, <2>1, Zenon
<1>10. CASE Tick
  <2>1. /\ UNCHANGED <<vars, nodeVars, creds, sealed, minted, gone, drawnAtoms>>
        /\ now' \in Nat
    BY <1>0, <1>10 DEF Tick
  <2>2. Tokens'
    BY <2>1, TokensStay, Zenon DEF CredInv
  <2> QED  BY <1>2, <2>1, <2>2, Zenon
<1>11. CASE UNCHANGED <<vars, nodeVars, credVars>>
  <2>1. Tokens'
    BY <1>0, <1>11, TokensStay, Zenon DEF CredInv, credVars
  <2> QED  BY <1>2, <1>11, <2>1, Zenon
<1> QED  BY <1>1, <1>5, <1>6, <1>7, <1>8, <1>9, <1>10, <1>11, Zenon DEF CredNext

(* The inductive invariant: who changes the database is alone with it,     *)
(* each stage of a start finds what the stages before it left, also after  *)
(* a crash, the manager of the plugin has one process, and the rows are    *)
(* those of the tokens that were handed out and not deleted.               *)
THEOREM ServerInvariant == CredSpec => []CredInv
BY CredStarts, CredSteps, PTL DEF CredSpec

(* Migrations that are cut short and run again guess no organization, and  *)
(* in the end every account of one organization has it.                    *)
THEOREM OrganizationsAreRecovered == CredSpec => []OrganizationsRecovered
<1>1. CredInv => OrganizationsRecovered
  <2> SUFFICES ASSUME CredInv, NEW a \in Accounts, NEW o \in load.orgs[a] \ {NULL}
               PROVE  /\ db.org[a] # "" => o = db.org[a]
                      /\ /\ load.recorded < Done /\ db.recorded = Done /\ o \notin WithComma
                         /\ (load.orgs[a] \ {NULL}) \ {o} = {}
                         => db.org[a] = o
    BY Zenon DEF OrganizationsRecovered
  <2>1. /\ db.org[a] \in {"", RecoveredOrg(load.orgs[a])}
        /\ load.recorded < Done /\ db.recorded = Done
           => db.org[a] = RecoveredOrg(load.orgs[a])
    BY Zenon DEF CredInv, NodeInv, ServerInv, Shapes, Database
  <2>2. db.org[a] # "" => o = db.org[a]
    BY <2>1, RecoveredIsIts, Zenon
  <2>3. (load.orgs[a] \ {NULL}) \ {o} = {} => load.orgs[a] \ {NULL} = {o}
    BY Zenon
  <2> QED  BY <2>1, <2>2, <2>3, OneIsRecovered, Zenon
<1> QED  BY <1>1, ServerInvariant, PTL

(* The manager has one plugin process, and it has been configured. *)
THEOREM PluginIsOne == CredSpec => []OnePluginProcess
<1>1. CredInv => OnePluginProcess
  <2> SUFFICES ASSUME Plugins  PROVE OnePluginProcess
    BY Zenon DEF CredInv, NodeInv, ServerInv
  <2>1. alive \ orphans \subseteq {pm.proc}
    BY Zenon DEF Plugins
  <2> QED  BY <2>1, Zenon DEF OnePluginProcess, Plugins
<1> QED  BY <1>1, ServerInvariant, PTL

(* A server that serves has a schema that fits its domain types. *)
THEOREM SchemaServes == CredSpec => []SchemaServesDomain
<1>1. CredInv => SchemaServesDomain
  <2> SUFFICES ASSUME CredInv, NEW s \in Servers, srv[s].pc \in Ready
               PROVE  /\ DomainSchema \subseteq db.schema
                      /\ db.schema \cap NameIndexes = {"idx_name_unique_in_tailnet"}
    BY Zenon DEF SchemaServesDomain, ServesNodes, Ready
  <2>1. db.recorded = Done
    BY Zenon DEF CredInv, NodeInv, ServerInv, Stage, Up, Ready
  <2>2. db.schema = SchemaAt(Done)
    BY <2>1, Zenon DEF CredInv, NodeInv, ServerInv, Database
  <2> QED  BY <2>2, DomainServed, OneNameIndex, Zenon
<1> QED  BY <1>1, ServerInvariant, PTL

(* Every server serves with the keys of the first one, and the key of each *)
(* token that was issued is published.                                     *)
THEOREM KeysOutlive == CredSpec => []KeysOutliveRestarts
<1>1. CredInv => KeysOutliveRestarts
  <2> SUFFICES ASSUME CredInv  PROVE KeysOutliveRestarts
    BY Zenon
  <2>1. ASSUME NEW s \in Servers, ServesNodes(s)
        PROVE  srv[s].key = seen.keys /\ db.jwks = seen.jwks /\ db.jwks # 0
    <3>1. srv[s].key = TheKey /\ seen.keys # 0
      BY <2>1, Zenon DEF CredInv, NodeInv, ServerInv, ReadyServer, Ready, ServesNodes
    <3> QED  BY <3>1, Zenon DEF CredInv, NodeInv, ServerInv, Database
  <2>2. \A t \in issued : t.kid \in Jwks
    BY Zenon DEF CredInv, NodeInv, Nodes, Jwks
  <2> QED  BY <2>1, <2>2, Zenon DEF KeysOutliveRestarts
<1> QED  BY <1>1, ServerInvariant, PTL

(* "serve" is offered to nodes that are given certificates. *)
THEOREM ServeIsCertified == CredSpec => []ServeMeansCertificates
<1>1. CredInv => ServeMeansCertificates
  <2> SUFFICES ASSUME CredInv, NEW s \in Servers, srv[s].pc \in Ready
               PROVE  LET told == ToDNSConfig(dnsConfig).certDomains IN
                      /\ told => QueryFeature(s) /\ srv[s].provider # "none"
                      /\ QueryFeature(s) /\ ~unchecked => told
    BY Zenon DEF ServeMeansCertificates, ServesNodes, Ready
  <2>1. srv[s].provider # "none" <=> load.dns.zone
    BY Zenon DEF CredInv, NodeInv, ServerInv, ReadyServer, Ready
  <2>2. ~unchecked => (dnsConfig.certs => dnsConfig.magic)
    BY Zenon DEF CredInv, NodeInv, Nodes
  <2>3. ToDNSConfig(dnsConfig).certDomains
          = (dnsConfig.magic /\ dnsConfig.certs /\ load.dns.zone)
    BY Zenon DEF ToDNSConfig, DNSProviderConfigured
  <2> QED  BY <2>1, <2>2, <2>3, Zenon DEF QueryFeature
<1> QED  BY <1>1, ServerInvariant, PTL

----------------------------------------------------------------------------
(* Tokens are their own *)

(* The forms of what was handed out *)
LEMMA TokenForms ==
  ASSUME Tokens, NEW m \in minted
  PROVE  /\ m.kind \in {"admin", "api", "auth", "system"}
         /\ m.kind = "admin" => Len(m.value) = 2 /\ m.value[1] = "st"
         /\ m.kind \in {"api", "auth"} => Len(m.value) = 2 /\ m.value[1] \notin {"sk", "st", "svc"}
         /\ m.kind = "system" => Len(m.value) = 3 /\ m.value[1] = "sk"
<1>1. Parts \cap {"sk", "st", "svc"} = {}
  <2>1. \A i \in 1 .. drawnAtoms : i \in 1 .. Len(Atoms)
    BY CredAssumption DEF Tokens
  <2> QED  BY <2>1, CredAssumption, Zenon DEF Parts
<1>2. CASE m.kind = "admin" /\ \E a \in Parts : m.value = <<"st", a>>
  BY <1>2
<1>3. CASE m.kind \in {"api", "auth"} /\ \E a, b \in Parts : m.value = <<a, b>>
  <2>1. PICK a \in Parts, b \in Parts : m.value = <<a, b>>
    BY <1>3, Zenon
  <2>2. Len(m.value) = 2 /\ m.value[1] = a
    BY <2>1
  <2> QED  BY <1>1, <1>3, <2>2, Zenon
<1>4. CASE m.kind = "system" /\ \E a, b \in Parts : m.value = <<"sk", a, b>>
  <2>1. PICK a \in Parts, b \in Parts : m.value = <<"sk", a, b>>
    BY <1>4, Zenon
  <2>2. Len(m.value) = 3 /\ m.value[1] = "sk"
    BY <2>1
  <2> QED  BY <1>4, <2>2, Zenon
<1> QED  BY <1>2, <1>3, <1>4, Zenon DEF Tokens, Minted

(* A value that is presented is the tuple of its parts. *)
LEMMA PresentedForms ==
  ASSUME NEW v \in Presented
  PROVE  /\ Len(v) \in 0 .. 3
         /\ Len(v) = 2 => v = <<v[1], v[2]>>
         /\ Len(v) = 3 => v = <<v[1], v[2], v[3]>>
<1>1. \/ v = <<>>
      \/ \E a : v = <<a>>
      \/ \E a, b : v = <<a, b>>
      \/ \E a, b, c : v = <<a, b, c>>
  BY DEF Presented
<1>2. CASE v = <<>>
  BY <1>2
<1>3. CASE \E a : v = <<a>>
  BY <1>3
<1>4. CASE \E a, b : v = <<a, b>>
  <2>1. PICK a, b : v = <<a, b>>
    BY <1>4, Zenon
  <2>2. Len(v) = 2 /\ v[1] = a /\ v[2] = b
    BY <2>1, Zenon
  <2> QED  BY <2>1, <2>2
<1>5. CASE \E a, b, c : v = <<a, b, c>>
  <2>1. PICK a, b, c : v = <<a, b, c>>
    BY <1>5, Zenon
  <2>2. Len(v) = 3 /\ v[1] = a /\ v[2] = b /\ v[3] = c
    BY <2>1, Zenon
  <2> QED  BY <2>1, <2>2
<1> QED  BY <1>1, <1>2, <1>3, <1>4, <1>5, Zenon

(* A row that is loaded is the one of a good token, and the other way. *)
LEMMA LoadIsGood ==
  ASSUME Tokens, NEW kind \in {"api", "auth", "system"}, NEW key, NEW secret, NEW v,
         v = Value([kind |-> kind, key |-> key, hash |-> secret])
  PROVE  /\ \A r \in Load(kind, key, secret) :
               \E m \in minted : m.kind = kind /\ m.value = v /\ Good(m) /\ m.of = r.of
         /\ \A m \in minted : m.kind = kind /\ m.value = v /\ Good(m)
               => \E r \in Load(kind, key, secret) : r.of = m.of
<1>1. /\ kind = "system" => v = <<"sk", key, secret>>
      /\ kind # "system" => v = <<key, secret>>
  BY Zenon DEF Value
<1>2. ASSUME NEW r \in Load(kind, key, secret)
      PROVE  \E m \in minted : m.kind = kind /\ m.value = v /\ Good(m) /\ m.of = r.of
  <2>1. /\ r \in creds /\ r.kind = kind /\ r.key = key /\ r.hash = secret
        /\ r.expires # 0 => r.expires >= now
    BY Zenon DEF Load
  <2>2. Value(r) = v
    BY <1>1, <2>1, Zenon DEF Value
  <2>3. PICK m \in minted : SameKey(r, m)
    BY <2>1, Zenon DEF Tokens, Rows
  <2>4. m.kind = kind /\ m.value = v /\ m.of = r.of /\ m.expires = r.expires /\ m.value \notin gone
    BY <2>1, <2>2, <2>3, Zenon DEF SameKey, Tokens, Rows
  <2>5. m.expires \in Int /\ now \in Nat
    BY Zenon DEF Tokens, Minted
  <2>6. Good(m)
    BY <2>1, <2>4, <2>5, Zenon DEF Good
  <2> QED  BY <2>4, <2>6, Zenon
<1>3. ASSUME NEW m \in minted, m.kind = kind, m.value = v, Good(m)
      PROVE  \E r \in Load(kind, key, secret) : r.of = m.of
  <2>1. /\ m.value \notin gone /\ (m.expires # 0 => now =< m.expires)
        /\ m.expires \in Int /\ now \in Nat /\ m.kind # "admin"
    BY <1>3, Zenon DEF Good, Tokens, Minted
  <2>2. PICK r \in creds : SameKey(r, m)
    BY <2>1, Zenon DEF Tokens, Rows
  <2>3. r.kind = kind /\ Value(r) = v /\ r.of = m.of /\ r.expires = m.expires
    BY <1>3, <2>2, Zenon DEF SameKey
  <2>4. r.key = key /\ r.hash = secret
    <3>1. CASE kind = "system"
      <4>1. <<"sk", r.key, r.hash>> = <<"sk", key, secret>>
        BY <1>1, <2>3, <3>1, Zenon DEF Value
      <4> QED  BY <4>1, Tuples, Zenon
    <3>2. CASE kind # "system"
      <4>1. <<r.key, r.hash>> = <<key, secret>>
        BY <1>1, <2>3, <3>2, Zenon DEF Value
      <4> QED  BY <4>1, Tuples, Zenon
    <3> QED  BY <3>1, <3>2, Zenon
  <2>5. r \in Load(kind, key, secret)
    BY <2>1, <2>3, <2>4, Zenon DEF Load
  <2> QED  BY <2>3, <2>5, Zenon
<1> QED  BY <1>2, <1>3, Zenon

(* So it is for a value as it is presented: api and auth keys, *)
LEMMA PairIsGood ==
  ASSUME Tokens, NEW v \in Presented, NEW kind \in {"api", "auth"}
  PROVE  LET rows == IF Len(v) # 2 THEN {} ELSE Load(kind, v[1], v[2])
             good == {m \in minted : m.kind = kind /\ m.value = v /\ Good(m)}
         IN /\ \A r \in rows : \E m \in good : m.of = r.of
            /\ \A m \in good : \E r \in rows : r.of = m.of
<1>1. CASE Len(v) = 2
  <2>1. v = Value([kind |-> kind, key |-> v[1], hash |-> v[2]])
    <3>1. v = <<v[1], v[2]>>
      BY <1>1, PresentedForms, Zenon
    <3>2. PICK r : r = [kind |-> kind, key |-> v[1], hash |-> v[2]]
      BY Zenon
    <3>3. r.kind # "system" /\ r.key = v[1] /\ r.hash = v[2]
      BY <3>2, Zenon
    <3>4. Value(r) = v
      BY <3>1, <3>3, Zenon DEF Value
    <3> QED  BY <3>2, <3>4, Zenon
  <2> QED  BY <1>1, <2>1, LoadIsGood
<1>2. CASE Len(v) # 2
  BY <1>2, TokenForms, Zenon
<1> QED  BY <1>1, <1>2, Zenon

(* system api keys, *)
LEMMA SystemIsGood ==
  ASSUME Tokens, NEW v \in Presented
  PROVE  LoadSystemApiKey(v) # {} <=> \E m \in minted : m.kind = "system" /\ m.value = v /\ Good(m)
<1>1. CASE Len(v) = 3 /\ v[1] = "sk"
  <2>1. v = Value([kind |-> "system", key |-> v[2], hash |-> v[3]])
    <3>1. v = <<"sk", v[2], v[3]>>
      BY <1>1, PresentedForms, Zenon
    <3>2. PICK r : r = [kind |-> "system", key |-> v[2], hash |-> v[3]]
      BY Zenon
    <3>3. r.kind = "system" /\ r.key = v[2] /\ r.hash = v[3]
      BY <3>2, Zenon
    <3>4. Value(r) = v
      BY <3>1, <3>3, Zenon DEF Value
    <3> QED  BY <3>2, <3>4, Zenon
  <2>2. LoadSystemApiKey(v) = Load("system", v[2], v[3])
    BY <1>1, Zenon DEF LoadSystemApiKey
  <2> QED  BY <2>1, <2>2, LoadIsGood
<1>2. CASE ~(Len(v) = 3 /\ v[1] = "sk")
  BY <1>2, TokenForms, Zenon DEF LoadSystemApiKey
<1> QED  BY <1>1, <1>2, Zenon

(* and sealed tokens. *)
LEMMA SealedIsGood ==
  ASSUME Tokens, NEW v \in Presented
  PROVE  ParseSystemAdminToken(v) <=> \E m \in minted : m.kind = "admin" /\ m.value = v /\ Good(m)
<1>1. ASSUME ParseSystemAdminToken(v)
      PROVE  \E m \in minted : m.kind = "admin" /\ m.value = v /\ Good(m)
  <2>1. PICK b \in sealed : /\ b.blob = v[2] /\ b.by = "own"
                            /\ b.created =< now + 1 /\ b.created >= now - 1
    BY <1>1, Zenon DEF ParseSystemAdminToken, driftCompensation
  <2>2. PICK m \in minted : m.kind = "admin" /\ SameSeal(b, m)
    BY Zenon DEF Tokens, Rows
  <2>3. v = <<"st", v[2]>>
    <3>1. Len(v) = 2 /\ v[1] = "st"
      BY <1>1, Zenon DEF ParseSystemAdminToken, IsSystemAdminToken
    <3> QED  BY <3>1, PresentedForms, Zenon
  <2>4. m.value = v /\ m.by = "own" /\ m.created = b.created
    BY <2>1, <2>2, <2>3, Zenon DEF SameSeal
  <2>5. m.created \in Int /\ now \in Nat
    BY Zenon DEF Tokens, Minted
  <2>6. m.created \in now - 1 .. now + 1
    BY <2>1, <2>4, <2>5
  <2> QED  BY <2>2, <2>4, <2>6, Zenon DEF Good
<1>2. ASSUME NEW m \in minted, m.kind = "admin", m.value = v, Good(m)
      PROVE  ParseSystemAdminToken(v)
  <2>1. m.by = "own" /\ m.created \in now - 1 .. now + 1 /\ now \in Nat
    BY <1>2, Zenon DEF Good, Tokens
  <2>2. PICK b \in sealed : SameSeal(b, m)
    BY <1>2, Zenon DEF Tokens, Rows
  <2>3. Len(v) = 2 /\ v[1] = "st"
    BY <1>2, TokenForms, Zenon
  <2>4. <<"st", b.blob>> = <<v[1], v[2]>>
    BY <1>2, <2>2, <2>3, PresentedForms, Zenon DEF SameSeal
  <2>5. b.blob = v[2]
    BY <2>4, Tuples, Zenon
  <2>6. b.by = "own" /\ b.created =< now + 1 /\ b.created >= now - 1
    BY <2>1, <2>2 DEF SameSeal
  <2> QED  BY <2>3, <2>5, <2>6 DEF ParseSystemAdminToken, IsSystemAdminToken, driftCompensation
<1> QED  BY <1>1, <1>2, Zenon

(* A value that looks like a service token *)
Svc(v) == Len(v) >= 2 /\ v[1] = "svc"

(* What exchangeToken answers *)
LEMMA Exchange ==
  ASSUME NEW v
  PROVE  /\ ParseSystemAdminToken(v) => exchangeToken(v).as = "system_admin"
         /\ Svc(v) /\ lookup(v) = {} => exchangeToken(v).as = "nobody"
         /\ Svc(v) /\ lookup(v) # {} => exchangeToken(v).as = "system_admin"
         /\ ~ParseSystemAdminToken(v) /\ ~Svc(v) =>
              /\ LoadApiKey(v) # {} => /\ exchangeToken(v).as = "user"
                                       /\ \E r \in LoadApiKey(v) : exchangeToken(v).of = r.of
              /\ LoadApiKey(v) = {} /\ LoadSystemApiKey(v) # {}
                    => exchangeToken(v).as = "system_admin"
              /\ LoadApiKey(v) = {} /\ LoadSystemApiKey(v) = {} => exchangeToken(v).as = "nobody"
<1>0. /\ Nobody.as = "nobody" /\ \A n : SystemAdmin(n).as = "system_admin"
      /\ \A u : AsUser(u).as = "user" /\ AsUser(u).of = u
  BY Zenon DEF Nobody, SystemAdmin, AsUser
<1>1. ParseSystemAdminToken(v) => IsSystemAdminToken(v) /\ ~Svc(v)
  BY Zenon DEF ParseSystemAdminToken, IsSystemAdminToken, Svc
<1>2. CASE ParseSystemAdminToken(v)
  <2>1. exchangeToken(v) = SystemAdmin("")
    BY <1>1, <1>2, Zenon DEF exchangeToken, Svc
  <2> QED  BY <1>0, <1>1, <1>2, <2>1, Zenon
<1>3. CASE ~ParseSystemAdminToken(v) /\ Svc(v)
  <2>1. exchangeToken(v) = IF lookup(v) = {} THEN Nobody ELSE SystemAdmin(CHOOSE n \in lookup(v) : TRUE)
    BY <1>3, Zenon DEF exchangeToken, Svc
  <2> QED  BY <1>0, <1>3, <2>1, Zenon
<1>4. CASE ~ParseSystemAdminToken(v) /\ ~Svc(v)
  <2>1. exchangeToken(v) = IF LoadApiKey(v) # {} THEN AsUser((CHOOSE r \in LoadApiKey(v) : TRUE).of)
                           ELSE IF LoadSystemApiKey(v) # {} THEN SystemAdmin("") ELSE Nobody
    BY <1>4, Zenon DEF exchangeToken, Svc
  <2>2. LoadApiKey(v) # {} => (CHOOSE r \in LoadApiKey(v) : TRUE) \in LoadApiKey(v)
    BY Zenon
  <2> QED  BY <1>0, <1>4, <2>1, <2>2, Zenon
<1> QED  BY <1>2, <1>3, <1>4, Zenon

(* A token is accepted for what it was handed out for, while it is good. *)
THEOREM TokensTheirOwn == CredSpec => []TokensAreTheirOwn
<1>1. ASSUME Tokens, NEW v \in Presented
      PROVE  LET p == exchangeToken(v)
                 good == {m \in minted : m.value = v /\ Good(m)}
             IN
             /\ p.as = "user" <=> \E m \in good : m.kind = "api" /\ m.of = p.of
             /\ p.as = "system_admin" <=> \/ \E m \in good : m.kind \in {"system", "admin"}
                                          \/ lookup(v) # {}
             /\ LoadAuthKey(v) # {} <=> \E m \in good : m.kind = "auth"
  <2> DEFINE p == exchangeToken(v)
             good == {m \in minted : m.value = v /\ Good(m)}
  <2>1. LoadAuthKey(v) # {} <=> \E m \in good : m.kind = "auth"
    <3>1. \A r \in LoadAuthKey(v) : \E m \in good : m.kind = "auth"
      BY <1>1, PairIsGood DEF LoadAuthKey
    <3>2. \A m \in good : m.kind = "auth" => LoadAuthKey(v) # {}
      BY <1>1, PairIsGood, Zenon DEF LoadAuthKey
    <3> QED  BY <3>1, <3>2, Zenon
  <2>2. /\ \A r \in LoadApiKey(v) : \E m \in good : m.kind = "api" /\ m.of = r.of
        /\ \A m \in good : m.kind = "api" => LoadApiKey(v) # {}
    BY <1>1, PairIsGood DEF LoadApiKey
  <2>3. LoadSystemApiKey(v) # {} <=> \E m \in good : m.kind = "system"
    BY <1>1, SystemIsGood, Zenon
  <2>4. ParseSystemAdminToken(v) <=> \E m \in good : m.kind = "admin"
    BY <1>1, SealedIsGood, Zenon
  <2>5. lookup(v) # {} => Svc(v)
    <3>1. lookup(v) # {} => \E x : v = <<"svc", x>>
      BY Zenon DEF lookup
    <3>2. ASSUME NEW x, v = <<"svc", x>>  PROVE Svc(v)
      <4>1. Len(v) = 2 /\ v[1] = "svc"
        BY <3>2, Zenon
      <4> QED  BY <4>1 DEF Svc
    <3> QED  BY <3>1, <3>2, Zenon
  <2>6. \A m \in good : /\ m.kind \in {"admin", "api", "auth", "system"} /\ ~Svc(v)
                        /\ m.kind \in {"system", "admin"} => LoadApiKey(v) = {}
                        /\ m.kind = "api" => ~ParseSystemAdminToken(v)
    <3> SUFFICES ASSUME NEW m \in good
                 PROVE  /\ m.kind \in {"admin", "api", "auth", "system"} /\ ~Svc(v)
                        /\ m.kind \in {"system", "admin"} => LoadApiKey(v) = {}
                        /\ m.kind = "api" => ~ParseSystemAdminToken(v)
      BY Zenon
    <3>1. /\ m.kind \in {"admin", "api", "auth", "system"}
          /\ m.kind = "admin" => Len(v) = 2 /\ v[1] = "st"
          /\ m.kind \in {"api", "auth"} => Len(v) = 2 /\ v[1] \notin {"sk", "st", "svc"}
          /\ m.kind = "system" => Len(v) = 3 /\ v[1] = "sk"
      BY <1>1, TokenForms, Zenon
    <3>2. ~Svc(v)
      BY <3>1, Zenon DEF Svc
    <3>3. ASSUME NEW n \in good, n.kind = "api"
          PROVE  Len(v) = 2 /\ v[1] \notin {"sk", "st", "svc"}
      BY <1>1, <3>3, TokenForms, Zenon
    <3>4. m.kind \in {"system", "admin"} => LoadApiKey(v) = {}
      BY <2>2, <3>1, <3>3, Zenon
    <3>5. m.kind = "api" => ~ParseSystemAdminToken(v)
      BY <3>1, Zenon DEF ParseSystemAdminToken, IsSystemAdminToken
    <3> QED  BY <3>1, <3>2, <3>4, <3>5, Zenon
  <2> HIDE DEF good
  <2>7. p.as = "user" <=> \E m \in good : m.kind = "api" /\ m.of = p.of
    <3>1. ASSUME p.as = "user"  PROVE \E m \in good : m.kind = "api" /\ m.of = p.of
      BY <2>2, <3>1, Exchange, Zenon
    <3>2. ASSUME NEW m \in good, m.kind = "api"  PROVE p.as = "user"
      BY <2>2, <2>6, <3>2, Exchange, Zenon
    <3> QED  BY <3>1, <3>2, Zenon
  <2>8. p.as = "system_admin" <=> \/ \E m \in good : m.kind \in {"system", "admin"}
                                  \/ lookup(v) # {}
    <3>1. ASSUME p.as = "system_admin", lookup(v) = {}
          PROVE  \E m \in good : m.kind \in {"system", "admin"}
      BY <2>3, <2>4, <3>1, Exchange, Zenon
    <3>2. ASSUME NEW m \in good, m.kind \in {"system", "admin"}  PROVE p.as = "system_admin"
      BY <2>3, <2>4, <2>6, <3>2, Exchange, Zenon
    <3>3. ASSUME lookup(v) # {}  PROVE p.as = "system_admin"
      BY <2>5, <3>3, Exchange, Zenon
    <3> QED  BY <3>1, <3>2, <3>3, Zenon
  <2> QED  BY <2>1, <2>7, <2>8, Zenon DEF good
<1>2. CredInv => TokensAreTheirOwn
  BY <1>1, Zenon DEF CredInv, TokensAreTheirOwn
<1> QED  BY <1>2, ServerInvariant, PTL
================================================================================
