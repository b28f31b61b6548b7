------------------------------ MODULE TailnetAdmin ------------------------------
(***************************************************************************)
(* The administration of tailnets: internal/service/tailnet.go, users.go,  *)
(* auth_keys.go, acl.go, iam.go, dns.go and the tables behind them         *)
(* (internal/domain/tailnet.go, user.go, account.go, api_key.go,           *)
(* auth_key.go), with the logins that make accounts and users, keep their  *)
(* names and reflect role claims (internal/handlers/authentication.go).    *)
(*                                                                         *)
(* A call reads the tailnet's row, changes its copy and saves the whole    *)
(* row.  Between the two anything may happen: another save, a deletion.    *)
(* What the nodes are told of it, and when, is NetMap's part.              *)
(* Save inserts a row that is gone.  The database refuses a row whose      *)
(* user or tailnet does not exist, and a second tailnet of the same name.  *)
(***************************************************************************)
EXTENDS AccessPolicy, Sequences

CONSTANTS
    MaxTailnet, MaxId,           \* bounds: tailnets, other ids
    Orgs, Names,                 \* organizations and names of tailnets
    Callers,                     \* calls in progress at the same time
    AdminRoles,                  \* the roles that make a tailnet admin
    Loads,                       \* workloads: what happens, in how many calls
    NoCall, Service

Ids == 1 .. MaxId
TailnetIds == 1 .. MaxTailnet
Fields == {"acl", "dns", "derp", "files", "services", "ssh", "approval"}

RowFields == {"name", "org", "policy", "set"}

(* A row of the tailnets table; a tailnet has a name. *)
IsRow(r) == /\ DOMAIN r = RowFields
            /\ r.name \in Names /\ r.org \in Orgs \cup {NoName}
            /\ r.set \in [Fields -> BOOLEAN]

(* A row with the settings on. *)
FreshRow(n, o, p, on) ==
    [name |-> n, org |-> o, policy |-> p, set |-> [f \in Fields |-> f \in on]]

(* Where there is no row. *)
NoRow == FreshRow(NoName, NoName, EmptyPolicy, {})

ASSUME AdminAssumption ==
    /\ MaxTailnet \in Nat /\ MaxId \in Nat
    /\ NoName \notin Orgs \cup Names
    /\ \A l \in Loads : /\ Len(l.rows) \in 0 .. MaxTailnet /\ l.most \in Nat
                        /\ \A i \in 1 .. Len(l.rows) : /\ IsRow(l.rows[i])
                                                       /\ "roles" \in DOMAIN l.rows[i].policy
                        /\ \A p \in l.policies : "roles" \in DOMAIN p
                        /\ \A g \in l.given : /\ DOMAIN g \subseteq Fields \ {"derp"}
                                              /\ \A f \in DOMAIN g : g[f] \in BOOLEAN
                        /\ l.approval \in BOOLEAN

VARIABLES
    load,        \* the workload of this behaviour; it does not change
    tailnets,    \* id -> [name, org, policy, set], or NoRow
    lastTailnet, \* ids of tailnets drawn so far
    accounts,    \* <<sub, org>> -> login name
    users,       \* [id, tailnet, account, name]
    owned,       \* machines, api keys and auth keys: [id, kind, user, tailnet]
    lastId,      \* ids of users and of what they own, drawn so far
    calls,       \* caller -> what it is doing
    made,        \* calls begun so far
    stale,       \* history: a row was saved from a copy that was out of date
    edited,      \* history: an edit, or a creation during a login, saved a policy
    revoked      \* history: RevokeAccount calls that ended

adminVars == <<load, tailnets, lastTailnet, accounts, users, owned, lastId, calls,
               made, stale, edited, revoked>>

Does(x) == x \in load.does
Live == {t \in TailnetIds : tailnets[t] # NoRow}
Account(u) == <<u.sub, u.org>>

Begin(c, call) ==
    /\ calls[c] = NoCall
    /\ made < load.most
    /\ made' = made + 1
    /\ calls' = [calls EXCEPT ![c] = call]

Finish(c) == calls' = [calls EXCEPT ![c] = NoCall]

LoggingIn(c) == calls[c] # NoCall /\ calls[c].op = "login"

----------------------------------------------------------------------------
(* The tailnets table *)

ByOrganization(o) == {t \in Live : tailnets[t].org = o}
ByName(n) == {t \in Live : tailnets[t].name = n}

(* SaveTailnet: the whole row; the unique index on the name may refuse it. *)
SaveTailnet(t, row) ==
    tailnets' = IF ByName(row.name) \ {t} # {} THEN tailnets
                ELSE [tailnets EXCEPT ![t] = row]

(* CreateTailnet looks for the name and the organization, then saves what  *)
(* the request gives; the configured machine authorization is a floor.     *)
CreateTailnet(c, n, o, p, given) ==
    LET on == {f \in DOMAIN given : given[f]} \cup {f \in {"approval"} : load.approval} IN
    /\ Does("create")
    /\ lastTailnet < MaxTailnet
    /\ ByName(n) = {}
    /\ o # NoName => ByOrganization(o) = {}
    /\ Begin(c, [op |-> "create", t |-> lastTailnet + 1, row |-> FreshRow(n, o, p, on)])
    /\ lastTailnet' = lastTailnet + 1
    /\ UNCHANGED <<load, tailnets, accounts, users, owned, lastId, stale, edited,
                   revoked>>

CreateTailnetSave(c) ==
    /\ calls[c] # NoCall /\ calls[c].op = "create"
    /\ SaveTailnet(calls[c].t, calls[c].row)
    /\ edited' = (edited \/ \E d \in Callers : LoggingIn(d))
    /\ Finish(c)
    /\ UNCHANGED <<load, lastTailnet, accounts, users, owned, lastId, made, stale,
                   revoked>>

(* A call that edits the row: it reads it and changes its copy. *)
Edit(c, t, new) ==
    /\ Begin(c, [op |-> "edit", t |-> t, old |-> tailnets[t], new |-> new])
    /\ UNCHANGED <<load, tailnets, lastTailnet, accounts, users, owned, lastId, stale,
                   edited, revoked>>

(* UpdateTailnet: the settings the request carries, the IAM policy p if it *)
(* carries one (else the row's own) and, for a system admin, the name; it  *)
(* always saves.                                                           *)
UpdateTailnet(c, t, given, p, n) ==
    /\ Does("update")
    /\ n # tailnets[t].name => ByName(n) = {}
    /\ Edit(c, t, [tailnets[t] EXCEPT
                     !.set = [f \in Fields |-> IF f \in DOMAIN given THEN given[f] ELSE @[f]],
                     !.policy = p, !.name = n])

SetField(c, t, f, v) ==
    /\ Does(f)
    /\ tailnets[t].set[f] # v
    /\ Edit(c, t, [tailnets[t] EXCEPT !.set[f] = v])

(* The calls that save only when something changes. *)
SetACLPolicy(c, t, v) == SetField(c, t, "acl", v)
SetDNSConfig(c, t, v) == SetField(c, t, "dns", v)
EnableFileSharing(c, t) == SetField(c, t, "files", TRUE)
DisableFileSharing(c, t) == SetField(c, t, "files", FALSE)
EnableServiceCollection(c, t) == SetField(c, t, "services", TRUE)
DisableServiceCollection(c, t) == SetField(c, t, "services", FALSE)
EnableSSH(c, t) == SetField(c, t, "ssh", TRUE)
DisableSSH(c, t) == SetField(c, t, "ssh", FALSE)
EnableMachineAuthorization(c, t) == SetField(c, t, "approval", TRUE)
DisableMachineAuthorization(c, t) == SetField(c, t, "approval", FALSE)

(* The relay map is saved whatever it was. *)
SetDERPMap(c, t) ==
    /\ Does("derp")
    /\ Edit(c, t, [tailnets[t] EXCEPT !.set["derp"] = TRUE])

ResetDERPMap(c, t) ==
    /\ Does("derp")
    /\ Edit(c, t, [tailnets[t] EXCEPT !.set["derp"] = FALSE])

SetIAMPolicy(c, t, p) ==
    /\ Does("iam")
    /\ tailnets[t].policy # p
    /\ Edit(c, t, [tailnets[t] EXCEPT !.policy = p])

(* A whole-row save is out of date when the row changed since it was read. *)
EditSave(c) ==
    LET r == calls[c] IN
    /\ r # NoCall /\ r.op = "edit"
    /\ SaveTailnet(r.t, r.new)
    /\ stale' = (stale \/ tailnets[r.t] # r.old)
    /\ edited' = (edited \/ r.new.policy # r.old.policy)
    /\ Finish(c)
    /\ UNCHANGED <<load, lastTailnet, accounts, users, owned, lastId, made, revoked>>

----------------------------------------------------------------------------
(* Deletions: what depends on a user or a tailnet goes with it *)

RemoveUsersNotKeys(gone) == \* Mutant: the auth keys are left behind
    /\ users' = {u \in users : u.id \notin gone}
    /\ owned' = {k \in owned : k.user \notin gone \/ k.kind = "auth"}

RemoveUsers(gone) ==
    /\ users' = {u \in users : u.id \notin gone}
    /\ owned' = {k \in owned : k.user \notin gone}

DeleteTailnetAnyway(c, t, force) == \* Mutant: the machines are not counted
    /\ Does("delete")
    /\ Begin(c, [op |-> "delete", t |-> t, force |-> force, upto |-> lastId])
    /\ UNCHANGED <<load, tailnets, lastTailnet, accounts, users, owned, lastId, stale,
                   edited, revoked>>

(* DeleteTailnet counts the machines first, then deletes in a transaction. *)
DeleteTailnet(c, t, force) ==
    /\ Does("delete")
    /\ force \/ \A k \in owned : k.tailnet = t => k.kind # "machine"
    /\ Begin(c, [op |-> "delete", t |-> t, force |-> force, upto |-> lastId])
    /\ UNCHANGED <<load, tailnets, lastTailnet, accounts, users, owned, lastId, stale,
                   edited, revoked>>

DeleteTailnetCommit(c) ==
    LET r == calls[c] IN
    /\ r # NoCall /\ r.op = "delete"
    /\ owned' = {k \in owned : k.tailnet # r.t}
    /\ users' = {u \in users : u.tailnet # r.t}
    /\ tailnets' = [tailnets EXCEPT ![r.t] = NoRow]
    /\ Finish(c)
    /\ UNCHANGED <<load, lastTailnet, accounts, lastId, made, stale, edited, revoked>>

(* DeleteUser, of a person and by someone else: one transaction. *)
DeleteUser(u, p) ==
    /\ Does("deluser")
    /\ ~p.system => p.user.id # u.id
    /\ MayAdminister(p, u.tailnet)
    /\ u.account # Service
    /\ made < load.most /\ made' = made + 1
    /\ RemoveUsers({u.id})
    /\ UNCHANGED <<load, tailnets, lastTailnet, accounts, lastId, calls, stale, edited,
                   revoked>>

(* RevokeAccount lists the accounts of the subject, ... *)
RevokeAccount(c, sub, o) ==
    /\ Does("revoke")
    /\ Begin(c, [op |-> "revoke", sub |-> sub, org |-> o,
                 left |-> {a \in DOMAIN accounts : a[1] = sub}, ids |-> {},
                 from |-> lastId, upto |-> <<>>])
    /\ UNCHANGED <<load, tailnets, lastTailnet, accounts, users, owned, lastId, stale,
                   edited, revoked>>

(* ... then the users of one account after the other (a service user has   *)
(* none) and keeps those of the organization, if one is named, ...         *)
RevokeAccountList(c, a) ==
    LET r == calls[c]
        found == {u \in users : /\ u.account = a
                                /\ r.org # NoName => tailnets[u.tailnet].org = r.org}
    IN
    /\ r # NoCall /\ r.op = "revoke" /\ a \in r.left
    /\ calls' = [calls EXCEPT ![c] =
                    [r EXCEPT !.left = @ \ {a}, !.ids = @ \cup {u.id : u \in found},
                              !.upto = [b \in DOMAIN @ \cup {a} |->
                                           IF b = a THEN lastId ELSE @[b]]]]
    /\ UNCHANGED <<load, tailnets, lastTailnet, accounts, users, owned, lastId, made,
                   stale, edited, revoked>>

RevokeAfterFirst(c) == \* Mutant: what is listed is deleted before all is listed
    LET r == calls[c] IN
    /\ r # NoCall /\ r.op = "revoke"
    /\ RemoveUsers(r.ids)
    /\ revoked' = revoked \cup {[sub |-> r.sub, org |-> r.org, from |-> r.from,
                                 upto |-> r.upto]}
    /\ Finish(c)
    /\ UNCHANGED <<load, tailnets, lastTailnet, accounts, lastId, made, stale, edited>>

(* ... and deletes them in a transaction. *)
RevokeAccountCommit(c) ==
    LET r == calls[c] IN
    /\ r # NoCall /\ r.op = "revoke" /\ r.left = {}
    /\ RemoveUsers(r.ids)
    /\ revoked' = revoked \cup {[sub |-> r.sub, org |-> r.org, from |-> r.from,
                                 upto |-> r.upto]}
    /\ Finish(c)
    /\ UNCHANGED <<load, tailnets, lastTailnet, accounts, lastId, made, stale, edited>>

----------------------------------------------------------------------------
(* Auth keys *)

NewUser(t, account, name) ==
    [id |-> lastId + 1, tailnet |-> t, account |-> account, name |-> name]

(* GetOrCreateServiceUser: the service user carries the tailnet's name. *)
ServiceUser(t) == {u \in users : /\ u.tailnet = t /\ u.account = Service
                                 /\ u.name = tailnets[t].name}

(* CreateAuthKey: a system admin makes it for the service user, a tailnet  *)
(* admin for themselves.                                                   *)
CreateAuthKey(c, t, p) ==
    LET made1 == p.system /\ ServiceUser(t) = {}
        owner == IF ~p.system THEN p.user.id
                 ELSE IF made1 THEN lastId + 1 ELSE (CHOOSE u \in ServiceUser(t) : TRUE).id
    IN
    /\ Does("authkey")
    /\ MayAdminister(p, t)
    /\ lastId + 1 < MaxId
    /\ Begin(c, [op |-> "authkey", t |-> t, user |-> owner])
    /\ users' = IF made1 THEN users \cup {NewUser(t, Service, tailnets[t].name)} ELSE users
    /\ lastId' = IF made1 THEN lastId + 1 ELSE lastId
    /\ UNCHANGED <<load, tailnets, lastTailnet, accounts, owned, stale, edited,
                   revoked>>

(* The database accepts a row only with its user and its tailnet. *)
Owners(id, t) == {u \in users : u.id = id /\ tailnets[t] # NoRow}

AddOwned(kind, id, t) ==
    IF Owners(id, t) = {} THEN UNCHANGED <<owned, lastId>>
    ELSE /\ lastId < MaxId
         /\ owned' = owned \cup {[id |-> lastId + 1, kind |-> kind, user |-> id,
                                  tailnet |-> t]}
         /\ lastId' = lastId + 1

CreateAuthKeySave(c) ==
    LET r == calls[c] IN
    /\ r # NoCall /\ r.op = "authkey"
    /\ AddOwned("auth", r.user, r.t)
    /\ Finish(c)
    /\ UNCHANGED <<load, tailnets, lastTailnet, accounts, users, made, stale, edited,
                   revoked>>

DeleteAuthKey(k) ==
    /\ Does("authkey")
    /\ k.kind = "auth"
    /\ owned' = owned \ {k}
    /\ UNCHANGED <<load, tailnets, lastTailnet, accounts, users, lastId, calls, made,
                   stale, edited, revoked>>

----------------------------------------------------------------------------
(* Logins *)

(* Callback: an identity that is admitted has its account, whose login     *)
(* name follows the provider.  alone is history: no other login overlaps   *)
(* this one.                                                               *)
Login(c, id) ==
    LET u == Exchange(id, load.orgs)
        others == {d \in Callers : LoggingIn(d)}
    IN
    /\ Does("login")
    /\ Admitted(id, load.orgs)
    /\ calls[c] = NoCall /\ made < load.most /\ made' = made + 1
    /\ calls' = [d \in Callers |->
           IF d = c THEN [op |-> "login", who |-> u, todo |-> <<>>, step |-> "list", t |-> 0,
                          user |-> 0, name |-> NoName, alone |-> others = {}]
           ELSE IF d \in others THEN [calls[d] EXCEPT !.alone = FALSE] ELSE calls[d]]
    /\ accounts' = [a \in DOMAIN accounts \cup {Account(u)} |->
                       IF a = Account(u) THEN LoginName(u) ELSE accounts[a]]
    /\ UNCHANGED <<load, tailnets, lastTailnet, users, owned, lastId, stale, edited,
                   revoked>>

(* The tailnets of the identity's organization whose policy has to change; *)
(* none when the claims are not configured.                                *)
OutOfStep(u) ==
    {t \in ByOrganization(u.org) :
        /\ load.orgs.enabled /\ load.orgs.rolesClaim /\ u.org # NoName
        /\ SyncedPolicy(tailnets[t].policy, u, AdminRoles) # tailnets[t].policy}

(* syncOrgRoles lists them, ... *)
LoginList(c) ==
    LET r == calls[c] IN
    /\ r.step = "list"
    /\ calls' = [calls EXCEPT ![c].step = "sync",
                              ![c].todo = [t \in OutOfStep(r.who) |-> tailnets[t]]]
    /\ UNCHANGED <<load, tailnets, lastTailnet, accounts, users, owned, lastId, made,
                   stale, edited, revoked>>

(* ... and each is saved from the copy that was listed; a save that the    *)
(* database refuses ends the login.                                        *)
LoginSync(c, t) ==
    LET r == calls[c] IN
    /\ r.step = "sync" /\ t \in DOMAIN r.todo
    /\ SaveTailnet(t, [r.todo[t] EXCEPT !.policy = SyncedPolicy(@, r.who, AdminRoles)])
    /\ stale' = (stale \/ tailnets[t] # r.todo[t])
    /\ IF ByName(r.todo[t].name) \ {t} # {} THEN Finish(c)
       ELSE calls' = [calls EXCEPT ![c].todo = Restrict(@, DOMAIN @ \ {t})]
    /\ UNCHANGED <<load, lastTailnet, accounts, users, owned, lastId, made, edited,
                   revoked>>

(* One tailnet, the only one or the chosen one; the login ends when none   *)
(* is available.                                                           *)
LoginChoose(c) ==
    LET r == calls[c]
        open == {t \in Live : TailnetAccessible(load.orgs.enabled, tailnets[t], r.who)}
    IN
    /\ r.step = "sync" /\ DOMAIN r.todo = {}
    /\ IF open = {} THEN Finish(c)
       ELSE \E t \in open : calls' = [calls EXCEPT ![c].step = "account", ![c].t = t]
    /\ UNCHANGED <<load, tailnets, lastTailnet, accounts, users, owned, lastId, made,
                   stale, edited, revoked>>

(* The flow ends with the account and the tailnet, read again; there is no *)
(* user without a tailnet.                                                 *)
LoginAccount(c) ==
    LET r == calls[c] IN
    /\ r.step = "account"
    /\ IF tailnets[r.t] = NoRow THEN Finish(c)
       ELSE calls' = [calls EXCEPT ![c].step = "user", ![c].name = accounts[Account(r.who)]]
    /\ UNCHANGED <<load, tailnets, lastTailnet, accounts, users, owned, lastId, made,
                   stale, edited, revoked>>

(* GetOrCreateUserWithAccount: a user is looked for first, ... *)
LoginUser(c) ==
    LET r == calls[c]
        found == {u \in users : u.tailnet = r.t /\ u.account = Account(r.who)}
    IN
    /\ r.step = "user"
    /\ \/ found = {} /\ calls' = [calls EXCEPT ![c].step = "create"]
       \/ \E u \in found :
          /\ \A v \in found : u.id =< v.id
          /\ calls' = [calls EXCEPT ![c].step = IF u.name # r.name THEN "rename" ELSE "save",
                                    ![c].user = u.id]
    /\ UNCHANGED <<load, tailnets, lastTailnet, accounts, users, owned, lastId, made,
                   stale, edited, revoked>>

(* ... renamed if it has another name, and still there, ... *)
LoginRename(c) ==
    LET r == calls[c] IN
    /\ r.step = "rename"
    /\ users' = {IF u.id = r.user THEN [u EXCEPT !.name = r.name] ELSE u : u \in users}
    /\ calls' = [calls EXCEPT ![c].step = "save"]
    /\ UNCHANGED <<load, tailnets, lastTailnet, accounts, owned, lastId, made, stale,
                   edited, revoked>>

(* ... and inserted after; without its tailnet the database refuses it. *)
LoginCreate(c) ==
    LET r == calls[c] IN
    /\ r.step = "create"
    /\ IF tailnets[r.t] = NoRow THEN Finish(c) /\ UNCHANGED <<users, lastId>>
       ELSE /\ lastId < MaxId
            /\ users' = users \cup {NewUser(r.t, Account(r.who), r.name)}
            /\ lastId' = lastId + 1
            /\ calls' = [calls EXCEPT ![c].step = "save", ![c].user = lastId + 1]
    /\ UNCHANGED <<load, tailnets, lastTailnet, accounts, owned, made, stale, edited,
                   revoked>>

(* The machine or the api key that the login was for. *)
LoginSave(c, kind) ==
    LET r == calls[c] IN
    /\ r.step = "save"
    /\ AddOwned(kind, r.user, r.t)
    /\ Finish(c)
    /\ UNCHANGED <<load, tailnets, lastTailnet, accounts, users, made, stale, edited,
                   revoked>>

----------------------------------------------------------------------------
(* load.rows are the tailnets that exist at the start, in order. *)
AdminInit ==
    /\ load \in Loads
    /\ lastTailnet = Len(load.rows)
    /\ tailnets = [t \in TailnetIds |-> IF t =< Len(load.rows) THEN load.rows[t] ELSE NoRow]
    /\ accounts = [a \in {} |-> NoName]
    /\ users = {} /\ owned = {} /\ lastId = 0
    /\ calls = [c \in Callers |-> NoCall]
    /\ made = 0
    /\ stale = FALSE /\ edited = FALSE
    /\ revoked = {}

Edits(c) ==
    \E t \in Live :
        \/ \E n \in Names, g \in load.given, p \in load.policies \cup {tailnets[t].policy} :
              UpdateTailnet(c, t, g, p, n)
        \/ \E v \in BOOLEAN : SetACLPolicy(c, t, v) \/ SetDNSConfig(c, t, v)
        \/ EnableFileSharing(c, t) \/ DisableFileSharing(c, t)
        \/ EnableServiceCollection(c, t) \/ DisableServiceCollection(c, t)
        \/ EnableSSH(c, t) \/ DisableSSH(c, t)
        \/ EnableMachineAuthorization(c, t) \/ DisableMachineAuthorization(c, t)
        \/ SetDERPMap(c, t) \/ ResetDERPMap(c, t)
        \/ \E p \in load.policies : SetIAMPolicy(c, t, p)

Logins(c) ==
    \/ \E id \in load.people : Login(c, id)
    \/ /\ calls[c] # NoCall /\ calls[c].op = "login"
       /\ \/ \E t \in TailnetIds : LoginSync(c, t)
          \/ LoginList(c) \/ LoginChoose(c) \/ LoginAccount(c) \/ LoginUser(c)
          \/ LoginRename(c) \/ LoginCreate(c)
          \/ \E kind \in {"machine", "api"} : LoginSave(c, kind)

Principals == {SystemAdmin} \cup
    {ExchangeToken(u, tailnets[u.tailnet].policy) :
        u \in {v \in users : \E k \in owned : k.kind = "api" /\ k.user = v.id}}

AdminNext ==
    \/ \E c \in Callers :
        \/ \E n \in Names, o \in Orgs \cup {NoName}, g \in load.given :
              \E p \in load.policies \cup {EmptyPolicy} : CreateTailnet(c, n, o, p, g)
        \/ CreateTailnetSave(c)
        \/ Edits(c) \/ EditSave(c)
        \/ \E t \in TailnetIds, force \in BOOLEAN : DeleteTailnet(c, t, force)
        \/ DeleteTailnetCommit(c)
        \/ \E u \in load.people, o \in Orgs \cup {NoName} : RevokeAccount(c, u.sub, o)
        \/ \E a \in DOMAIN accounts : RevokeAccountList(c, a)
        \/ RevokeAccountCommit(c)
        \/ \E t \in Live, p \in Principals : CreateAuthKey(c, t, p)
        \/ CreateAuthKeySave(c)
        \/ Logins(c)
    \/ \E u \in users, p \in Principals : DeleteUser(u, p)
    \/ \E k \in owned : DeleteAuthKey(k)

AdminSpec == AdminInit /\ [][AdminNext]_adminVars

----------------------------------------------------------------------------
(* Properties *)

(* Every row has the shape its table gives it. *)
AdminTypeOK ==
    /\ \A t \in TailnetIds : tailnets[t] # NoRow =>
            /\ t =< lastTailnet
            /\ tailnets[t].name \in Names /\ tailnets[t].org \in Orgs \cup {NoName}
            /\ tailnets[t].set \in [Fields -> BOOLEAN]
    /\ \A u \in users : u.id \in 1 .. lastId /\ u.tailnet \in TailnetIds
    /\ \A u, v \in users : u.id = v.id => u = v
    /\ \A k \in owned : k.id \in 1 .. lastId /\ k.kind \in {"machine", "api", "auth"}
    /\ lastId \in 0 .. MaxId /\ made \in 0 .. load.most

(* Nothing outlives what it belongs to: a machine, api key or auth key has *)
(* its user and its tailnet, the user's own, and a user has its tailnet,   *)
(* however logins, deletions and revocations interleave                    *)
(* (service/users.go, service/tailnet.go DeleteTailnet).                   *)
OwnersExist ==
    /\ \A u \in users : tailnets[u.tailnet] # NoRow
    /\ \A k \in owned : \E u \in users : u.id = k.user /\ u.tailnet = k.tailnet

(* The last id drawn when a revocation listed the users of an account, or  *)
(* when it began.                                                          *)
Looked(r, a) == IF a \in DOMAIN r.upto THEN r.upto[a] ELSE r.from

(* RevokeAccount misses nobody who was there: when it has answered, a user *)
(* of the subject that is still there was made after the users of its      *)
(* account were listed, or after the call began if the account was not     *)
(* there then (service/users.go RevokeAccount).                            *)
RevokedUsersStayGone ==
    \A r \in revoked : \A u \in users :
        u.account # Service /\ u.account[1] = r.sub
          /\ (r.org # NoName => tailnets[u.tailnet].org = r.org)
        => u.id > Looked(r, u.account)

(* The organization boundary: a person who is user of a tailnet came with  *)
(* its organization, and with none into a tailnet that has none, whatever  *)
(* the tailnet's policy says and whenever it was edited                    *)
(* (handlers/authentication.go tailnetAccessible).                         *)
UsersInTheirOrg ==
    \A u \in users : u.account # Service => tailnets[u.tailnet].org = u.account[2]

(* DeleteTailnet without force removes only machines that registered after *)
(* it had counted them (service/tailnet.go:331).                           *)
UnforcedDeleteSparesMachines ==
    [][\A c \in Callers : \A k \in owned :
        /\ calls[c] # NoCall /\ calls'[c] = NoCall
        /\ calls[c].op = "delete" /\ ~calls[c].force
        /\ k.kind = "machine" /\ k \notin owned'
        => k.id > calls[c].upto]_adminVars

(* A deleted tailnet comes back only through a call that had read its row  *)
(* before the deletion, and no step of anyone changes the organization of  *)
(* a tailnet (service/tailnet.go, handlers/authentication.go syncOrgRoles).*)
TailnetsKeepTheirOrg ==
    [][\A t \in TailnetIds :
        /\ tailnets[t] # NoRow /\ tailnets'[t] # NoRow => tailnets'[t].org = tailnets[t].org
        /\ tailnets[t] = NoRow /\ tailnets'[t] # NoRow =>
              stale' \/ \E c \in Callers : /\ calls[c] # NoCall /\ calls[c].op = "create"
                                          /\ calls[c].t = t]_adminVars

RoleAtLogin(c) ==
    LET r == calls[c] IN
    \A u \in users :
        /\ load.orgs.enabled /\ load.orgs.rolesClaim
        /\ tailnets[r.t] # NoRow /\ tailnets[r.t].org # NoName
        /\ u.id = r.user
        => (GetRole(tailnets[r.t].policy, u.name) = "admin") = (r.who.roles \cap AdminRoles # {})

AtSave(c) == LoggingIn(c) /\ calls[c].step = "save"

(* A login leaves its user tailnet admin exactly when the role claim says  *)
(* so, for an identity without a username, one login at a time and while   *)
(* nobody edits the policy or makes a tailnet that the login has not seen  *)
(* (handlers/authentication.go syncOrgRoles).                              *)
RolesFollowClaims ==
    \A c \in Callers :
        AtSave(c) /\ calls[c].who.username = NoName /\ calls[c].alone /\ ~stale /\ ~edited
            => RoleAtLogin(c)

(* What the comment of syncOrgRoles says, for every identity: "admin role  *)
(* claims from the identity provider translate into tailnet-admin          *)
(* permissions".                                                           *)
RoleClaimsGrantAdmin ==
    \A c \in Callers :
        AtSave(c) /\ calls[c].alone /\ ~stale /\ ~edited
            => RoleAtLogin(c)
================================================================================
