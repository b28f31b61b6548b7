--------------------------------- MODULE Server --------------------------------
(***************************************************************************)
(* The life of the server process: the start with its migrations and keys  *)
(* (internal/server/server.go, internal/database, internal/config), the    *)
(* DNS provider and its plugin process (internal/dns), the set-dns handler *)
(* (internal/handlers/dns.go) and the shutdown.                            *)
(*                                                                         *)
(* Servers share one database.  A Postgres database is locked for the time *)
(* of the migrations by an advisory lock of the connection that took it    *)
(* (the pool keeps that connection, max_idle_conns being at least one);    *)
(* SQLite has no such lock and one server at a time.                       *)
(***************************************************************************)
EXTENDS Schema, FiniteSets

CONSTANTS
    Servers, Requests, Accounts,
    NULL,       \* a column that was never written
    WithComma,  \* organizations with a comma in their name
    NoServer,   \* nobody holds the lock
    OwnRegion,  \* the region of the relay in the server
    Loads,      \* what a behaviour is about, see Load below
    Procs       \* process ids of the plugin; 0 is none

VARIABLES
    load,       \* [kind, servers, recorded, orgs, twins, key, config, dns, stun, ends, does];
                \* ends bounds the crashes and shutdowns of a behaviour;
                \* orgs[a] is what the tailnets of account a have as organization
    db,         \* [recorded, schema, keys, jwks, org]
    advisory,   \* holder of the advisory lock
    srv,        \* server -> [pc, key, left, provider, derp]
    pm,         \* the plugin manager [proc, exited, inst, writer]
    alive,      \* plugin processes that run
    conf,       \* plugin processes that were configured
    req,        \* request -> [pc, to, acme]
    seen,       \* history: [keys, jwks] of the first server that served
    failed,     \* history: processes whose Configure failed
    orphans,    \* processes of a server that is gone
    ends,       \* number of crashes and shutdowns
    drawn       \* number of keys drawn

dbVars == <<db, advisory, drawn>>
pluginVars == <<pm, alive, conf, failed, orphans>>
vars == <<load, dbVars, srv, pluginVars, req, seen, ends>>

Does(x) == x \in load.does

----------------------------------------------------------------------------
(* Configuration *)

(* NewProvider; dns is [zone, name, path, inside, parses] with zone, path, *)
(* inside (the MagicDNS suffix lies in the zone) and parses (the values do)*)
(* Boolean, and name "", "known" (in factories) or "unknown".              *)
NewProvider(dns) ==
    CASE ~dns.zone -> "none"
      [] dns.zone /\ ((dns.name = "") <=> ~dns.path) -> "error"
      [] dns.zone /\ ((dns.name = "") <=> dns.path) /\ ~dns.inside -> "error"
      [] OTHER -> IF dns.name # "known" THEN "plugin"
                  ELSE IF dns.parses THEN "builtin" ELSE "error"

(* A SQLite database that is not up to date has one server, and so has a   *)
(* plugin.  Before tailnets had a column for it no organization is known.  *)
ASSUME ServerAssumption ==
    /\ NoServer \notin Servers /\ 0 \notin Procs /\ 0 \notin Requests
    /\ \A l \in Loads :
          /\ DOMAIN l = {"kind", "servers", "recorded", "orgs", "twins", "key", "config",
                         "dns", "stun", "ends", "does"}
          /\ l.kind \in {"postgres", "sqlite"} /\ l.recorded \in 0 .. Done
          /\ l.servers \subseteq Servers
          /\ (\A i \in 1 .. l.recorded : Migrations[i] # m202608311000_add_tailnet_organization)
                => \A a \in Accounts : l.orgs[a] \subseteq {NULL}
          /\ (l.kind = "sqlite" /\ l.recorded < Done) \/ NewProvider(l.dns) = "plugin"
                => \E s \in Servers : l.servers = {s}

(* config.DNSProviderConfigured, set by LoadConfig *)
DNSProviderConfigured == load.dns.zone

(* tokens is a list of [name, token, prefixed, long]: the token has the    *)
(* prefix of service tokens, and enough characters after it.               *)
validateServiceTokens(tokens) ==
    \A i \in DOMAIN tokens :
        /\ tokens[i].name # "" /\ tokens[i].prefixed /\ tokens[i].long
        /\ \A j \in 1 .. i - 1 : /\ tokens[j].name # tokens[i].name
                                  /\ tokens[j].token # tokens[i].token

(* c.acl: the default ACL policy parses; c.web, c.stun: the addresses do *)
Validate(c) ==
    /\ c.acl
    /\ validateServiceTokens(c.tokens)
    /\ c.web
    /\ load.stun => c.stun

(* c.env: the file can be read and every variable it requires is set *)
LoadConfig(c) == c.env /\ Validate(c)

(* One node relays and answers STUN when both have the same host. *)
DefaultDERPMap(c) ==
    IF c.sameHost THEN {[derp |-> TRUE, stun |-> TRUE]}
    ELSE {[derp |-> FALSE, stun |-> TRUE], [derp |-> TRUE, stun |-> FALSE]}

(* LoadDERPSources: a source that cannot be loaded is left out, of the     *)
(* others the last to list a region counts, and the region of this server  *)
(* replaces what they say of it.                                           *)
LoadDERPSources(c, loaded) ==
    LET listing(id) == {i \in loaded : id \in c.sources[i]} IN
    [id \in (UNION {c.sources[i] : i \in loaded}) \cup (IF load.stun THEN {OwnRegion} ELSE {}) |->
        IF load.stun /\ id = OwnRegion
        THEN [from |-> 0, nodes |-> DefaultDERPMap(c)]
        ELSE [from |-> CHOOSE i \in listing(id) : \A j \in listing(id) : j =< i, nodes |-> {}]]

----------------------------------------------------------------------------
(* Migrations *)

Current == Migrations[db.recorded + 1]

RecoveredFirst(orgs) == \* Mutant: an account of two organizations gets one of them
    IF orgs \ {NULL, ""} = {} THEN "" ELSE CHOOSE o \in orgs \ {NULL} : o # ""

(* account_organization: GROUP_CONCAT passes over NULL, and one value      *)
(* without a comma is not ambiguous; the empty string is a value of its    *)
(* own, so it makes a list of two.                                         *)
RecoveredOrg(orgs) ==
    IF \E o \in orgs \ {NULL} : orgs \ {NULL} = {o} /\ o \notin WithComma
    THEN CHOOSE o \in orgs \ {NULL} : TRUE ELSE ""

(* The process is gone: its connection, and with it the lock, its requests *)
(* and its hold on the plugin process.                                     *)
Gone(s) ==
    /\ srv' = [srv EXCEPT ![s] = [@ EXCEPT !.pc = "off", !.left = {}]]
    /\ advisory' = IF advisory = s THEN NoServer ELSE advisory
    /\ IF load.servers = {s}
       THEN /\ req' = [r \in Requests |-> [pc |-> "idle", to |-> 0, acme |-> FALSE]]
            /\ pm' = [proc |-> 0, exited |-> TRUE, inst |-> 0, writer |-> 0]
            /\ orphans' = alive
       ELSE UNCHANGED <<req, pm, orphans>>

(* The start has failed; a supervisor may start the server again. *)
Fail(s) ==
    /\ Gone(s)
    /\ UNCHANGED <<load, db, drawn, alive, conf, failed, seen, ends>>

Goto(s, pc) == srv' = [srv EXCEPT ![s].pc = pc]

(* With a configuration that is not valid nothing starts. *)
Start(s) ==
    /\ s \in load.servers /\ srv[s].pc = "off"
    /\ LoadConfig(load.config)
    /\ \E loaded \in SUBSET DOMAIN load.config.sources :
        srv' = [srv EXCEPT ![s] = [@ EXCEPT !.pc = "lock",
                                            !.derp = LoadDERPSources(load.config, loaded)]]
    /\ UNCHANGED <<load, dbVars, pluginVars, req, seen, ends>>

Lock(s) ==
    /\ srv[s].pc = "lock"
    /\ IF load.kind = "postgres"
       THEN advisory = NoServer /\ advisory' = s
       ELSE UNCHANGED advisory
    /\ Goto(s, "migrate")
    /\ UNCHANGED <<load, db, drawn, pluginVars, req, seen, ends>>

MigrateNoRerun(s) == \* Mutant: no migration can be run again
    /\ srv[s].pc = "migrate" /\ db.recorded < Done
    /\ IF Current.adds \cap db.schema # {} \/ (load.twins /\ Current = m202312290900_machine_indeces)
       THEN Fail(s)
       ELSE /\ db' = [db EXCEPT !.schema = @ \ Drops(Current)]
            /\ Goto(s, "alter")
            /\ UNCHANGED <<load, advisory, drawn, pluginVars, req, seen, ends>>

(* The next migration that is not recorded begins.  A column that is there *)
(* cannot be added, and machines of two tailnets that have one name do not *)
(* fit in an index without the tailnet.                                    *)
Migrate(s) ==
    /\ srv[s].pc = "migrate" /\ db.recorded < Done
    /\ IF \/ Current.does = "add" /\ Current.adds \subseteq db.schema
          \/ load.twins /\ Current = m202312290900_machine_indeces
       THEN Fail(s)
       ELSE /\ db' = [db EXCEPT !.schema = @ \ Drops(Current)]
            /\ Goto(s, "alter")
            /\ UNCHANGED <<load, advisory, drawn, pluginVars, req, seen, ends>>

(* Its statements, one by one.  GROUP_CONCAT is a function of SQLite and   *)
(* not of Postgres.                                                        *)
Alter(s) ==
    /\ srv[s].pc = "alter"
    /\ LET missing == Current.adds \ db.schema IN
       \/ /\ missing # {}
          /\ db' = [db EXCEPT !.schema = @ \cup {CHOOSE x \in missing : TRUE}]
          /\ UNCHANGED <<load, advisory, drawn, srv, pluginVars, req, seen, ends>>
       \/ /\ missing = {} /\ Current.does = "orgs" /\ load.kind = "postgres"
          /\ Fail(s)
       \/ /\ missing = {} /\ (Current.does = "orgs" => load.kind = "sqlite")
          /\ srv' = [srv EXCEPT ![s] =
               IF Current.does = "orgs" THEN [@ EXCEPT !.pc = "orgs", !.left = Accounts]
               ELSE [@ EXCEPT !.pc = "record"]]
          /\ UNCHANGED <<load, dbVars, pluginVars, req, seen, ends>>

UpdateOrganization(s, a) ==
    /\ srv[s].pc = "orgs" /\ a \in srv[s].left
    /\ LET org == RecoveredOrg(load.orgs[a]) IN
       db' = IF org = "" THEN db ELSE [db EXCEPT !.org[a] = org]
    /\ srv' = [srv EXCEPT ![s].left = @ \ {a}]
    /\ UNCHANGED <<load, advisory, drawn, pluginVars, req, seen, ends>>

(* gormigrate notes the migration when it has returned. *)
Record(s) ==
    /\ \/ srv[s].pc = "record"
       \/ srv[s].pc = "orgs" /\ srv[s].left = {}
    /\ db' = [db EXCEPT !.recorded = @ + 1]
    /\ Goto(s, "migrate")
    /\ UNCHANGED <<load, advisory, drawn, pluginVars, req, seen, ends>>

Migrated(s) ==
    /\ srv[s].pc = "migrate" /\ db.recorded = Done
    /\ Goto(s, "keys")
    /\ UNCHANGED <<load, dbVars, pluginVars, req, seen, ends>>

CreateServerKeyAlways(s) == \* Mutant: every start draws new keys
    /\ srv[s].pc = "keys"
    /\ Goto(s, "setkeys")
    /\ UNCHANGED <<load, dbVars, pluginVars, req, seen, ends>>

CreateServerKey(s) ==
    /\ srv[s].pc = "keys"
    /\ Goto(s, IF db.keys = 0 THEN "setkeys" ELSE "jwks")
    /\ UNCHANGED <<load, dbVars, pluginVars, req, seen, ends>>

SetControlKeys(s) ==
    /\ srv[s].pc = "setkeys"
    /\ drawn' = drawn + 1
    /\ db' = [db EXCEPT !.keys = drawn']
    /\ Goto(s, "jwks")
    /\ UNCHANGED <<load, advisory, pluginVars, req, seen, ends>>

(* With the key set in place the lock is given back. *)
CreateJSONWebKeySet(s) ==
    /\ srv[s].pc = "jwks"
    /\ IF db.jwks = 0 THEN Goto(s, "setjwks") /\ UNCHANGED advisory
       ELSE /\ Goto(s, "setup")
            /\ advisory' = IF advisory = s THEN NoServer ELSE advisory
    /\ UNCHANGED <<load, db, drawn, pluginVars, req, seen, ends>>

SetJSONWebKeySet(s) ==
    /\ srv[s].pc = "setjwks"
    /\ drawn' = drawn + 1
    /\ db' = [db EXCEPT !.jwks = drawn']
    /\ Goto(s, "setup")
    /\ advisory' = IF advisory = s THEN NoServer ELSE advisory
    /\ UNCHANGED <<load, pluginVars, req, seen, ends>>

----------------------------------------------------------------------------
(* Setup, service, shutdown *)

(* The process ids that nobody remembers; a plugin is started with one.    *)
Unused == Procs \ (alive \cup orphans \cup {pm.proc, pm.inst} \cup {req[r].to : r \in Requests})
Fresh == CHOOSE p \in Unused : TRUE

(* ReadServerKeys: the key of the configuration counts before the stored   *)
(* one; 0 when the configured keys cannot be parsed.                       *)
ReadServerKeys(c, stored) ==
    CASE ~c.keys -> 0
      [] c.keys /\ load.key # 0 -> load.key
      [] OTHER -> stored

(* setupAuthProvider: nobody can log in without an issuer, and an issuer   *)
(* has to answer.                                                          *)
setupAuthProvider(c) ==
    CASE c.issuer = "" -> "none"
      [] c.issuer = "answers" -> "oidc"
      [] OTHER -> "error"

(* Then NewProvider, and for a plugin ensureRunning(true). *)
Setup(s) ==
    /\ srv[s].pc = "setup"
    /\ LET key == ReadServerKeys(load.config, db.keys)
           kind == IF key = 0 \/ setupAuthProvider(load.config) = "error" THEN "error"
                   ELSE NewProvider(load.dns)
           ready == [srv EXCEPT ![s] = [@ EXCEPT !.pc = "listen", !.provider = kind,
                                                 !.key = key]]
       IN
       \/ kind \in {"error", "plugin"} /\ Fail(s)
       \/ /\ kind \in {"none", "builtin"}
          /\ srv' = ready
          /\ UNCHANGED <<load, dbVars, pluginVars, req, seen, ends>>
       \/ /\ kind = "plugin" /\ load.dns.path /\ Unused # {}
          /\ srv' = ready
          /\ pm' = [proc |-> Fresh, exited |-> FALSE, inst |-> Fresh, writer |-> 0]
          /\ alive' = alive \cup {Fresh}
          /\ conf' = conf \cup {Fresh}
          /\ UNCHANGED <<load, dbVars, failed, orphans, req, seen, ends>>

(* webListener: without ACME the certificate is read from files. *)
webListener(c) == c.tls = "files" => c.cert

(* The three listeners *)
Listen(s) ==
    /\ srv[s].pc = "listen"
    /\ IF ~webListener(load.config) THEN Fail(s)
       ELSE /\ Goto(s, "serving")
            /\ seen' = IF seen.keys # 0 THEN seen
                       ELSE [keys |-> srv[s].key, jwks |-> db.jwks]
            /\ UNCHANGED <<load, dbVars, pluginVars, req, ends>>

(* The web server takes connections. *)
Listening(s) == srv[s].pc \in {"serving", "metrics"}

(* The connections of nodes were taken from the web server (Upgrade of     *)
(* noise.go), whose shutdown neither closes them nor waits for their       *)
(* requests: they are served until the process ends.                       *)
ServesNodes(s) == srv[s].pc \in {"serving", "metrics", "drain", "stun"}

(* The manager's process is gone. *)
Kill == alive' = alive \ {pm.proc} /\ conf' = conf \ {pm.proc} /\ failed' = failed \ {pm.proc}

(* SIGTERM: the plugin is killed first, then the metrics server is shut    *)
(* down.                                                                   *)
Stop(s) ==
    /\ Does("stop") /\ srv[s].pc = "serving" /\ ends < load.ends
    /\ ends' = ends + 1
    /\ Goto(s, "metrics")
    /\ Kill
    /\ pm' = [pm EXCEPT !.exited = TRUE]
    /\ UNCHANGED <<load, dbVars, orphans, req, seen>>

(* Then the web server stops listening, and when its own connections are   *)
(* idle or five seconds are over the STUN server is closed.                *)
ShutdownHttpServer(s) ==
    /\ \/ srv[s].pc = "metrics" /\ Goto(s, "drain")
       \/ srv[s].pc = "drain" /\ Goto(s, "stun")
    /\ UNCHANGED <<load, dbVars, pluginVars, req, seen, ends>>

(* Start returns when all three Serve calls have.  Web and metrics return  *)
(* when their shutdown begins; without a STUN listener Serve returned at   *)
(* once, so the web server's shutdown is not waited for.                   *)
Exit(s) ==
    /\ srv[s].pc = "stun" \/ (srv[s].pc = "drain" /\ ~load.stun)
    /\ Fail(s)

(* The process dies, or a query fails during the start. *)
Crash(s) ==
    /\ Does("crash") /\ srv[s].pc # "off" /\ ends < load.ends
    /\ ends' = ends + 1
    /\ Gone(s)
    /\ UNCHANGED <<load, db, drawn, alive, conf, failed, seen>>

----------------------------------------------------------------------------
(* The set-dns handler and the plugin manager; one server serves. *)

At(r, pc) == req' = [req EXCEPT ![r].pc = pc]
Answer(r) == req' = [req EXCEPT ![r] = [pc |-> "idle", to |-> 0, acme |-> FALSE]]

(* SetDNS: without a provider the answer is 404, at once. *)
SetDNS(s, r, acme) ==
    /\ Does("dns") /\ ServesNodes(s) /\ req[r].pc = "idle"
    /\ srv[s].provider # "none"
    /\ acme => Does("acme")
    /\ req' = [req EXCEPT ![r] = [pc |-> IF srv[s].provider = "plugin" THEN "check" ELSE "call",
                                  to |-> 0, acme |-> acme]]
    /\ UNCHANGED <<load, dbVars, srv, pluginVars, seen, ends>>

(* ensureRunning, under the read lock *)
EnsureRunning(r) ==
    /\ req[r].pc = "check" /\ pm.writer = 0
    /\ At(r, IF ~pm.exited /\ pm.inst # 0 THEN "call" ELSE "restart")
    /\ UNCHANGED <<load, dbVars, srv, pluginVars, seen, ends>>

RestartNoKill(r) == \* Mutant: the old process is not killed
    /\ req[r].pc = "restart" /\ pm.writer = 0
    /\ pm' = [pm EXCEPT !.proc = 0, !.writer = r]
    /\ At(r, "starting")
    /\ UNCHANGED <<load, dbVars, srv, alive, conf, failed, orphans, seen, ends>>

(* Under the write lock, and without looking again, the old process is     *)
(* killed; the new client has none yet.                                    *)
Restart(r) ==
    /\ req[r].pc = "restart" /\ pm.writer = 0
    /\ Kill
    /\ pm' = [pm EXCEPT !.proc = 0, !.writer = r]
    /\ At(r, "starting")
    /\ UNCHANGED <<load, dbVars, srv, orphans, seen, ends>>

(* A new process takes the instance's place.  When it does not start the   *)
(* instance stays, and the client may or may not say that its process has  *)
(* exited; when it starts and cannot be dispensed, it runs besides.        *)
NewClient(r) ==
    /\ req[r].pc = "starting" /\ Unused # {}
    /\ \/ /\ alive' = alive \cup {Fresh}
          /\ pm' = [proc |-> Fresh, exited |-> FALSE, inst |-> Fresh, writer |-> r]
          /\ At(r, "configure")
       \/ /\ \E exited \in BOOLEAN : pm' = [pm EXCEPT !.exited = exited, !.writer = 0]
          /\ Answer(r)
          /\ UNCHANGED alive
       \/ /\ alive' = alive \cup {Fresh}
          /\ pm' = [pm EXCEPT !.proc = Fresh, !.exited = FALSE, !.writer = 0]
          /\ Answer(r)
    /\ UNCHANGED <<load, dbVars, srv, conf, failed, orphans, seen, ends>>

(* Configure has a second; an error keeps the instance. *)
Configure(r) ==
    /\ req[r].pc = "configure"
    /\ pm' = [pm EXCEPT !.writer = 0]
    /\ \/ pm.inst \in alive /\ conf' = conf \cup {pm.inst} /\ At(r, "call") /\ UNCHANGED failed
       \/ failed' = failed \cup ({pm.inst} \cap alive) /\ Answer(r) /\ UNCHANGED conf
    /\ UNCHANGED <<load, dbVars, srv, alive, orphans, seen, ends>>

(* SetRecords is called on the instance of this moment, without the lock.  *)
CallPlugin(r) ==
    /\ req[r].pc = "call" /\ req[r].to = 0 /\ \A s \in load.servers : srv[s].provider = "plugin"
    /\ pm.inst # 0
    /\ req' = [req EXCEPT ![r].to = pm.inst]
    /\ UNCHANGED <<load, dbVars, srv, pluginVars, seen, ends>>

(* The record is set, or an error is returned: by the provider, which has  *)
(* no deadline, or because the plugin's process is gone.                   *)
SetRecord(r) ==
    /\ req[r].pc = "call"
    /\ \A s \in load.servers : srv[s].provider = "plugin" => req[r].to # 0
    /\ \/ /\ req[r].to # 0 => req[r].to \in alive \cap conf
          /\ IF req[r].acme THEN At(r, "wait") ELSE Answer(r)
       \/ Answer(r)
    /\ UNCHANGED <<load, dbVars, srv, pluginVars, seen, ends>>

(* The loop of the handler: the record is visible, or the client is gone.  *)
Visible(r) ==
    /\ req[r].pc = "wait"
    /\ Answer(r)
    /\ UNCHANGED <<load, dbVars, srv, pluginVars, seen, ends>>

TimeoutNever(r) == \* Mutant: the handler waits as long as it takes
    /\ req[r].pc = "wait" /\ FALSE
    /\ UNCHANGED vars

Timeout(r) ==
    /\ req[r].pc = "wait"
    /\ Answer(r)
    /\ UNCHANGED <<load, dbVars, srv, pluginVars, seen, ends>>

PluginDies ==
    /\ Does("die") /\ pm.proc \in alive
    /\ Kill
    /\ pm' = [pm EXCEPT !.exited = TRUE]
    /\ UNCHANGED <<load, dbVars, srv, orphans, req, seen, ends>>

----------------------------------------------------------------------------
ServerInit ==
    /\ load \in Loads
    /\ db = [recorded |-> load.recorded, schema |-> SchemaAt(load.recorded),
             keys |-> IF load.recorded = 0 THEN 0 ELSE 1,
             jwks |-> IF load.recorded = 0 THEN 0 ELSE 2,
             org |-> [a \in Accounts |-> ""]]
    /\ drawn = IF load.recorded = 0 THEN 0 ELSE 2
    /\ advisory = NoServer
    /\ srv = [s \in Servers |-> [pc |-> "off", key |-> 0, left |-> {}, provider |-> "none",
                                 derp |-> LoadDERPSources(load.config, {})]]
    /\ pm = [proc |-> 0, exited |-> TRUE, inst |-> 0, writer |-> 0]
    /\ alive = {} /\ conf = {} /\ failed = {} /\ orphans = {}
    /\ req = [r \in Requests |-> [pc |-> "idle", to |-> 0, acme |-> FALSE]]
    /\ seen = [keys |-> 0, jwks |-> 0]
    /\ ends = 0

StartStep(s) ==
    \/ Start(s) \/ Lock(s) \/ Migrate(s) \/ Alter(s) \/ Record(s) \/ Migrated(s)
    \/ \E a \in Accounts : UpdateOrganization(s, a)
    \/ CreateServerKey(s) \/ SetControlKeys(s)
    \/ CreateJSONWebKeySet(s) \/ SetJSONWebKeySet(s)
    \/ Setup(s) \/ Listen(s)

RequestStep(r) ==
    \/ EnsureRunning(r) \/ Restart(r) \/ NewClient(r) \/ Configure(r) \/ CallPlugin(r)
    \/ SetRecord(r) \/ Visible(r) \/ Timeout(r)

ServerNext ==
    \/ \E s \in Servers :
        \/ StartStep(s) \/ Stop(s) \/ ShutdownHttpServer(s) \/ Exit(s) \/ Crash(s)
        \/ \E r \in Requests, acme \in BOOLEAN : SetDNS(s, r, acme)
    \/ \E r \in Requests : RequestStep(r)
    \/ PluginDies

(* The steps of a handler that nothing outside the server can hold up.     *)
(* Configure has a second and the wait for a record five minutes; a call   *)
(* of a process that is gone fails.  Not among them: the start of the      *)
(* plugin and the answer of a provider that runs, which have no deadline   *)
(* of the server's.                                                        *)
OwnStep(r) ==
    \/ EnsureRunning(r) \/ Restart(r) \/ Configure(r) \/ CallPlugin(r) \/ Timeout(r)
    \/ SetRecord(r) /\ req[r].to \notin alive \cup {0}

(* A process that runs takes its steps and a supervisor starts it again;   *)
(* a handler's goroutine runs on, and time passes.  Go's mutexes starve    *)
(* nobody: who waits for the lock gets it, however many others do.         *)
ServerFairness ==
    /\ \A s \in Servers :
          WF_vars(StartStep(s)) /\ WF_vars(ShutdownHttpServer(s)) /\ WF_vars(Exit(s))
    /\ \A r \in Requests : SF_vars(OwnStep(r))

ServerSpec == ServerInit /\ [][ServerNext]_vars /\ ServerFairness

----------------------------------------------------------------------------
(* The migration of accounts never guesses and forgets nobody: however     *)
(* often it was cut short and run again, an account has an organization    *)
(* only if none of its tailnets has another one (a tailnet from before the *)
(* column has none), and in the end it has one whenever that is so and no  *)
(* comma is in the name.                                                   *)
OrganizationsRecovered ==
    \A a \in Accounts :
        LET known == load.orgs[a] \ {NULL} IN
        /\ db.org[a] # "" => \A o \in known : o = db.org[a]
        /\ load.recorded < Done /\ db.recorded = Done =>
              \A o \in known \ ({""} \cup WithComma) : known \ {o} = {} => db.org[a] = o

(* However requests race to restart a plugin that died, its manager has    *)
(* one process at a time, and the one it holds has been configured when    *)
(* the write lock is released, unless configuring it failed.               *)
OnePluginProcess ==
    /\ \A p, q \in alive \ orphans : p = q
    /\ pm.writer = 0 /\ pm.inst \in alive => pm.inst \in conf \cup failed

(* The call of a request is with a provider that runs. *)
AtProvider(r) ==
    /\ req[r].pc = "call"
    /\ req[r].to \in alive \/ \A s \in load.servers : srv[s].provider # "plugin"

(* Every set-dns request is answered: the plugin is restarted at most once *)
(* for it, and the wait for a challenge record ends after five minutes.    *)
(* What holds one up for good is a provider that does not answer its call, *)
(* or a plugin that neither starts nor fails to while its starter has the  *)
(* write lock.                                                             *)
DnsRequestsAnswered ==
    \A r \in Requests :
        \/ []<>(req[r].pc = "idle")
        \/ <>[]AtProvider(r)
        \/ \E q \in Requests : <>[](req[q].pc = "starting")

(* A SQLite database is brought up to date whatever crashed, with two      *)
(* exceptions: the process died between adding the column UseOSHostname    *)
(* and noting the migration, which cannot be run again, or machines of two *)
(* tailnets have one name when m202312290900_machine_indeces comes.        *)
UpgradeCompletes ==
    load.kind = "sqlite" =>
        \/ <>(db.recorded = Done)
        \/ <>[](db.recorded < Done /\ Current.does = "add" /\ Current.adds \subseteq db.schema)
        \/ load.twins /\ <>[](db.recorded < Done /\ Current = m202312290900_machine_indeces)

(* Wherever the migrations were cut short and run again, a server that     *)
(* serves finds every table and column its domain types use, and one index *)
(* on the names, which is unique in a tailnet.                             *)
SchemaServesDomain ==
    \A s \in Servers :
        ServesNodes(s) =>
            /\ DomainSchema \subseteq db.schema
            /\ db.schema \cap NameIndexes = {"idx_name_unique_in_tailnet"}
================================================================================
