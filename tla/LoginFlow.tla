------------------------------- MODULE LoginFlow -------------------------------
(***************************************************************************)
(* Logging in through the browser: a device that registers (flow "r"), the *)
(* command line client (flow "c") and the extra check of an SSH session    *)
(* (flow "s").  internal/handlers/authentication.go, session.go,           *)
(* ssh_action.go, the interactive half of registration.go,                 *)
(* internal/service/auth.go and the request tables of internal/domain.     *)
(*                                                                         *)
(* One side waits: it polls the row of its request.  The other side is a   *)
(* browser: its HTTP handlers read the row, decide, and write the whole    *)
(* row back later.  The state of the OAuth redirect and the choice of a    *)
(* tailnet travel through the browser, sealed, and lapse.                  *)
(***************************************************************************)
EXTENDS Naturals, FiniteSets

CONSTANTS
    Identities,    \* people at the identity provider
    SystemAdmins,  \* those that the system IAM policy admits
    TagOwners,     \* those that may own the tags that devices ask for
    Tailnets,
    Devices,       \* told apart by their machine key
    Handlers,      \* concurrent requests of browsers
    MaxKey,        \* request keys are 1 .. MaxKey (a bound)
    MaxUser,       \* ids of users are 1 .. MaxUser (a bound)
    MaxAdmin,      \* how often an administrator intervenes (a bound)
    Loads,         \* workloads: the initial access and users, what happens
    NoRow, NoUser, NoTailnet, NoToken

Keys == 1 .. MaxKey

ASSUME LoginAssumption ==
    /\ MaxKey \in Nat /\ MaxUser \in Nat /\ MaxAdmin \in Nat
    /\ SystemAdmins \subseteq Identities /\ TagOwners \subseteq Identities
    /\ NoTailnet \notin Tailnets
    /\ NoUser \notin [id : Nat, who : Identities, tailnet : Tailnets]
    /\ \A l \in Loads :
          /\ l.keys \in 0 .. MaxKey
          /\ l.people \subseteq Identities /\ l.handlers \subseteq Handlers
          /\ Cardinality(l.users) \in Nat
          /\ l.users \subseteq [id : 1 .. Cardinality(l.users), who : Identities,
                                tailnet : Tailnets]

VARIABLES
    load,      \* the workload of this behaviour; it does not change
    access,    \* <<identity, tailnet>>: what the tailnets' policies admit
    tailnets,  \* the tailnets there are
    users,     \* rows of users: [id, who, tailnet]
    fresh,     \* users whose LastAuthenticated is within the check period
    machines,  \* rows of machines: [device, user]
    removed,   \* history: machines that were deleted
    regs,      \* device -> its row of registration_requests, or NoRow
    auths,     \* key -> row of authentication_requests, or NoRow
    sshs,      \* key -> row of ssh_action_requests, or NoRow
    tokens,    \* api keys and system api keys that were handed out
    states,    \* sealed OAuth states that are still good
    sessions,  \* sealed tailnet choices that are still good
    hs,        \* handler -> what it is doing
    follow,    \* device -> its follow-up request
    stream,    \* key -> the stream of a command line login
    check,     \* key -> the held request of an SSH session
    asked,     \* key -> the device it was made for (history), or NoRow
    lastKey,   \* the request key that was drawn last
    lastUser,  \* the user id that was drawn last
    admin,     \* interventions so far
    grants     \* history: what every exchange with the provider admitted

browserVars == <<states, sessions, hs, grants>>
waitVars == <<follow, stream, check, asked, lastKey>>
dataVars == <<access, tailnets, users, fresh, machines, removed, lastUser, admin>>
rowVars == <<regs, auths, sshs, tokens>>
loginVars == <<load, dataVars, rowVars, browserVars, waitVars>>

Idle == [pc |-> "idle", flow |-> "r", key |-> 0, row |-> NoRow, who |-> NoUser,
         tailnet |-> NoTailnet, admin |-> FALSE, user |-> NoUser]

Does(x) == x \in load.does

Avail(i) == {t \in tailnets : <<i, t>> \in access}

----------------------------------------------------------------------------
(* The request rows *)

ByKey(k) == {d \in Devices : regs[d] # NoRow /\ regs[d].key = k}

(* GetRegistrationRequestByKey, GetAuthenticationRequest and              *)
(* GetSSHActionRequest.                                                    *)
Row(flow, k) ==
    CASE flow = "r" -> IF ByKey(k) = {} THEN NoRow
                       ELSE regs[CHOOSE d \in ByKey(k) : TRUE]
      [] flow = "c" -> auths[k]
      [] flow = "s" -> sshs[k]

(* Save writes the whole row: it replaces what is there, and inserts the   *)
(* row again when it was deleted.                                          *)
SaveRow(flow, k, row) ==
    /\ regs' = IF flow = "r" THEN [regs EXCEPT ![row.device] = row] ELSE regs
    /\ auths' = IF flow = "c" THEN [auths EXCEPT ![k] = row] ELSE auths
    /\ sshs' = IF flow = "s" THEN [sshs EXCEPT ![k] = row] ELSE sshs

Decided(flow, row) ==
    CASE flow = "r" -> row.authenticated \/ row.error
      [] flow = "c" -> row.token # NoToken \/ row.error
      [] flow = "s" -> row.action # "none"

----------------------------------------------------------------------------
(* The waiting side *)

Draw(x) == /\ lastKey < load.keys
           /\ lastKey' = lastKey + 1
           /\ asked' = [asked EXCEPT ![lastKey + 1] = x]

(* authenticateMachine: a device without an auth key gets a URL; the row   *)
(* of its machine key is replaced.                                         *)
AuthenticateMachine(d) ==
    /\ Does("register")
    /\ follow[d].st # "waiting"
    /\ Draw(d)
    /\ regs' = [regs EXCEPT ![d] = [device |-> d, key |-> lastKey + 1,
                    authenticated |-> FALSE, error |-> FALSE, user |-> NoUser]]
    /\ follow' = [follow EXCEPT ![d] = [st |-> "told", user |-> NoUser]]
    /\ UNCHANGED <<load, dataVars, auths, sshs, tokens, browserVars, stream, check>>

Followup(d) ==
    /\ follow[d].st = "told"
    /\ follow' = [follow EXCEPT ![d].st = "waiting"]
    /\ UNCHANGED <<load, dataVars, rowVars, browserVars, stream, check, asked, lastKey>>

FollowupForgetsError(d) == \* Mutant: only a success ends the wait
    LET r == regs[d] IN
    /\ follow[d].st = "waiting"
    /\ r # NoRow /\ r.authenticated
    /\ follow' = [follow EXCEPT ![d] = [st |-> "done", user |-> r.user]]
    /\ UNCHANGED <<load, dataVars, rowVars, browserVars, stream, check, asked, lastKey>>

(* A tick of followup that ends the wait.  The user of an authenticated    *)
(* row may be gone: the handler dies and the client gets an error.         *)
FollowupAnswer(d) ==
    LET r == regs[d]
        answer == IF r = NoRow THEN [st |-> "failed", user |-> NoUser]
                  ELSE IF r.authenticated
                  THEN IF r.user \notin users THEN [st |-> "failed", user |-> NoUser]
                       ELSE [st |-> IF r.error THEN "refused" ELSE "done",
                             user |-> r.user]
                  ELSE [st |-> "refused", user |-> NoUser]
    IN
    /\ follow[d].st = "waiting"
    /\ r # NoRow => Decided("r", r)
    /\ follow' = [follow EXCEPT ![d] = answer]
    /\ UNCHANGED <<load, dataVars, rowVars, browserVars, stream, check, asked, lastKey>>

(* The device closes the connection; it may follow up again. *)
FollowupHangUp(d) ==
    /\ follow[d].st = "waiting"
    /\ follow' = [follow EXCEPT ![d].st = "told"]
    /\ UNCHANGED <<load, dataVars, rowVars, browserVars, stream, check, asked, lastKey>>

(* Authenticate up to its first Send; when that fails the deferred         *)
(* DeleteAuthenticationRequest is not in place yet.                        *)
Authenticate(sent) ==
    /\ Does("cli")
    /\ Draw(NoRow)
    /\ auths' = [auths EXCEPT ![lastKey + 1] = [token |-> NoToken, error |-> FALSE]]
    /\ stream' = [stream EXCEPT ![lastKey + 1] =
                     [st |-> IF sent THEN "open" ELSE "unsent", token |-> NoToken]]
    /\ UNCHANGED <<load, dataVars, regs, sshs, tokens, browserVars, follow, check>>

EndStream(k, st, token) ==
    /\ stream[k].st = "open"
    /\ stream' = [stream EXCEPT ![k] = [st |-> st, token |-> token]]
    /\ auths' = [auths EXCEPT ![k] = NoRow]
    /\ UNCHANGED <<load, dataVars, regs, sshs, tokens, browserVars, follow, check,
                   asked, lastKey>>

(* A tick of Authenticate that ends the stream. *)
AuthenticateAnswer(k) ==
    /\ auths[k] # NoRow => Decided("c", auths[k])
    /\ EndStream(k, "closed", IF auths[k] = NoRow THEN NoToken ELSE auths[k].token)

AuthenticateHangUp(k) == EndStream(k, "closed", NoToken)

(* SSH StartAuth: inside the check period the session is accepted at once. *)
SSHStartAuth(m) ==
    /\ Does("ssh")
    /\ m \in machines
    /\ Draw(NoRow)
    /\ \/ /\ m.user \in fresh
          /\ check' = [check EXCEPT ![lastKey + 1] = [st |-> "trusted", src |-> m]]
          /\ UNCHANGED sshs
       \/ /\ sshs' = [sshs EXCEPT ![lastKey + 1] = [src |-> m, action |-> "none"]]
          /\ check' = [check EXCEPT ![lastKey + 1] = [st |-> "waiting", src |-> m]]
    /\ UNCHANGED <<load, dataVars, regs, auths, tokens, browserVars, follow, stream>>

(* A tick of CheckAuth that answers. *)
CheckAnswer(k) ==
    /\ check[k].st = "waiting"
    /\ sshs[k] # NoRow => Decided("s", sshs[k])
    /\ check' = [check EXCEPT ![k].st =
                    IF sshs[k] # NoRow /\ sshs[k].action = "accept"
                    THEN "accepted" ELSE "rejected"]
    /\ sshs' = [sshs EXCEPT ![k] = NoRow]
    /\ UNCHANGED <<load, dataVars, regs, auths, tokens, browserVars, follow, stream,
                   asked, lastKey>>

(* The node closes the connection; the row stays and it may ask again. *)
CheckHangUp(k) ==
    /\ check[k].st \in {"waiting", "hung"}
    /\ check' = [check EXCEPT ![k].st =
                    IF check[k].st = "waiting" THEN "hung" ELSE "waiting"]
    /\ UNCHANGED <<load, dataVars, rowVars, browserVars, follow, stream, asked, lastKey>>

----------------------------------------------------------------------------
(* The browser's side *)

Busy(h, record) == hs' = [hs EXCEPT ![h] = record]

(* StartAuth and ProcessAuth hand out a sealed state for a known request. *)
StartAuth(flow, k) ==
    /\ Row(flow, k) # NoRow
    /\ states' = states \cup {[flow |-> flow, key |-> k]}
    /\ UNCHANGED <<load, dataVars, rowVars, sessions, hs, grants, waitVars>>

Undo(row) == [row EXCEPT !.authenticated = FALSE, !.error = TRUE]

(* A browser brings an auth key: that of user u, or none that is valid. *)
StartAuthWithKey(h, k, u) ==
    LET row == Row("r", k)
        owner == u # NoUser /\ u.who \in TagOwners
    IN
    /\ Does("authkey")
    /\ hs[h] = Idle
    /\ row # NoRow
    /\ Busy(h, [Idle EXCEPT !.key = k, !.user = u,
                            !.pc = IF owner THEN "save" ELSE "refuse",
                            !.row = IF owner THEN row ELSE Undo(row)])
    /\ grants' = IF u = NoUser THEN grants
                 ELSE grants \cup {[flow |-> "r", key |-> k, who |-> u.who,
                                    tailnets |-> {u.tailnet}, admin |-> FALSE]}
    /\ UNCHANGED <<load, dataVars, rowVars, states, sessions, waitVars>>

Refuse(h, s, row) ==
    IF row = NoRow THEN UNCHANGED hs
    ELSE Busy(h, [Idle EXCEPT !.pc = "refuse", !.flow = s.flow, !.key = s.key,
                              !.row = [row EXCEPT !.error = TRUE]])

End(h, s, row, i, t, asAdmin) ==
    IF row = NoRow THEN UNCHANGED hs
    ELSE Busy(h, [Idle EXCEPT !.pc = "end", !.flow = s.flow, !.key = s.key,
                              !.row = row, !.who = i, !.tailnet = t,
                              !.admin = asAdmin])

CallbackSSHAny(h, s, i) == \* Mutant: anybody who logs in is let in
    LET row == Row("s", s.key) IN
    /\ IF row = NoRow THEN UNCHANGED hs
       ELSE Busy(h, [Idle EXCEPT !.pc = "ssh", !.flow = "s", !.key = s.key,
                         !.user = row.src.user,
                         !.row = [row EXCEPT !.action = "accept"]])
    /\ UNCHANGED sessions

(* The SSH branch of Callback: the owner of the source is let in when the  *)
(* source has no tags (it may have got some by registering again), anybody *)
(* else is refused; without the source machine the handler dies.           *)
CallbackSSH(h, s, i) ==
    LET row == Row("s", s.key) IN
    /\ IF row = NoRow THEN UNCHANGED hs
       ELSE IF row.src \notin machines THEN UNCHANGED hs
       ELSE \E hasTags \in BOOLEAN :
            Busy(h, [Idle EXCEPT !.pc = "ssh", !.flow = "s", !.key = s.key,
                         !.user = row.src.user,
                         !.row = [row EXCEPT !.action =
                             IF ~hasTags /\ row.src.user.who = i
                             THEN "accept" ELSE "reject"]])
    /\ UNCHANGED sessions

(* The other branches: no tailnet is a refusal, a single one ends the      *)
(* login, a choice (or being a system admin, on the command line) is sealed*)
(* into a session.                                                         *)
CallbackLogin(h, s, i) ==
    LET row == Row(s.flow, s.key)
        avail == Avail(i)
        sysadmin == s.flow = "c" /\ i \in SystemAdmins
    IN
    \/ /\ avail = {} /\ ~sysadmin
       /\ Refuse(h, s, row)
       /\ UNCHANGED sessions
    \/ /\ Cardinality(avail) = 1 /\ ~sysadmin
       /\ \E t \in avail : End(h, s, row, i, t, FALSE)
       /\ UNCHANGED sessions
    \/ /\ Cardinality(avail) > 1 \/ sysadmin
       /\ sessions' = sessions \cup {[flow |-> s.flow, key |-> s.key, who |-> i,
                                      admin |-> sysadmin, tailnets |-> avail]}
       /\ UNCHANGED hs

(* Callback: identity i comes back from the provider with sealed state s. *)
Callback(h, s, i) ==
    /\ hs[h] = Idle
    /\ s \in states
    /\ grants' = grants \cup {[flow |-> s.flow, key |-> s.key, who |-> i,
                               tailnets |-> Avail(i), admin |-> i \in SystemAdmins]}
    /\ IF s.flow = "s" THEN CallbackSSH(h, s, i) ELSE CallbackLogin(h, s, i)
    /\ UNCHANGED <<load, dataVars, rowVars, states, waitVars>>

EndAuthAnySession(h, s, c, t, asAdmin) == \* Mutant: state and session may differ
    /\ hs[h] = Idle
    /\ s \in states /\ c \in sessions
    /\ IF asAdmin THEN c.admin /\ t = NoTailnet ELSE t \in c.tailnets
    /\ s.flow \in {"r", "c"}
    /\ Row(s.flow, s.key) # NoRow
    /\ End(h, s, Row(s.flow, s.key), c.who, t, asAdmin)
    /\ UNCHANGED <<load, dataVars, rowVars, states, sessions, grants, waitVars>>

(* EndAuth: the form's state and session must belong together, and its     *)
(* choice must be one that the session grants.                             *)
EndAuth(h, s, c, t, asAdmin) ==
    /\ hs[h] = Idle
    /\ s \in states /\ c \in sessions
    /\ c.flow = s.flow /\ c.key = s.key
    /\ IF asAdmin THEN c.admin /\ t = NoTailnet ELSE t \in c.tailnets
    /\ s.flow \in {"r", "c"}
    /\ Row(s.flow, s.key) # NoRow
    /\ End(h, s, Row(s.flow, s.key), c.who, t, asAdmin)
    /\ UNCHANGED <<load, dataVars, rowVars, states, sessions, grants, waitVars>>

(* A device whose tags the user does not own is refused. *)
WithUser(h, user) ==
    LET r == hs[h] IN
    IF r.flow = "r" /\ r.who \notin TagOwners
    THEN Busy(h, [r EXCEPT !.pc = "refuse", !.row = Undo(r.row)])
    ELSE Busy(h, [r EXCEPT !.pc = "save", !.user = user])

(* Both ends of a login first find the tailnet, without which the handler  *)
(* dies, and look for the user.                                            *)
GetUserWithAccount(h) ==
    LET r == hs[h]
        found == {u \in users : u.who = r.who /\ u.tailnet = r.tailnet}
    IN
    /\ r.pc = "end" /\ ~r.admin
    /\ IF r.tailnet \notin tailnets THEN Busy(h, Idle)
       ELSE IF found = {} THEN Busy(h, [r EXCEPT !.pc = "create"])
       ELSE WithUser(h, CHOOSE u \in found : \A v \in found : u.id =< v.id)
    /\ UNCHANGED <<load, dataVars, rowVars, states, sessions, grants, waitVars>>

(* The second half of GetOrCreateUserWithAccount: nothing keeps two of     *)
(* them from inserting a user each; the database asks for the tailnet.     *)
CreateUserWithAccount(h) ==
    LET r == hs[h]
        user == [id |-> lastUser + 1, who |-> r.who, tailnet |-> r.tailnet]
    IN
    /\ r.pc = "create"
    /\ IF r.tailnet \notin tailnets THEN Busy(h, Idle) /\ UNCHANGED <<users, lastUser>>
       ELSE /\ lastUser < MaxUser
            /\ users' = users \cup {user}
            /\ lastUser' = lastUser + 1
            /\ WithUser(h, user)
    /\ UNCHANGED <<load, access, tailnets, fresh, machines, removed, admin, rowVars,
                   states, sessions, grants, waitVars>>

(* The refusal and the decision on an SSH session save the row; accepting  *)
(* an SSH session also marks the user as authenticated.                    *)
SaveDecision(h) ==
    LET r == hs[h] IN
    /\ r.pc \in {"refuse", "ssh"}
    /\ SaveRow(r.flow, r.key, r.row)
    /\ fresh' = IF r.pc = "ssh" /\ r.row.action = "accept" /\ r.user \in users
                THEN fresh \cup {r.user} ELSE fresh
    /\ Busy(h, Idle)
    /\ UNCHANGED <<load, access, tailnets, users, machines, removed, lastUser, admin,
                   tokens, states, sessions, grants, waitVars>>

SaveMachineOnly(h) == \* Mutant: the row is saved although the machine was not
    LET r == hs[h] IN
    /\ r.pc = "save" /\ r.flow = "r"
    /\ fresh' = fresh \cup ({r.user} \cap users)
    /\ machines' = IF r.user \in users
                   THEN machines \cup {[device |-> r.row.device, user |-> r.user]}
                   ELSE machines
    /\ SaveRow("r", r.key, [r.row EXCEPT !.authenticated = TRUE, !.error = FALSE,
                                         !.user = r.user])
    /\ Busy(h, Idle)
    /\ UNCHANGED <<load, access, tailnets, users, removed, lastUser, admin, tokens,
                   states, sessions, grants, waitVars>>

(* The transaction of endMachineRegistrationFlow.  A machine row needs its *)
(* user: when that is gone the transaction is rolled back.                 *)
SaveRegistration(h) ==
    LET r == hs[h] IN
    /\ r.pc = "save" /\ r.flow = "r"
    /\ IF r.user \in users
       THEN /\ fresh' = fresh \cup {r.user}
            /\ machines' = machines \cup {[device |-> r.row.device, user |-> r.user]}
            /\ SaveRow("r", r.key, [r.row EXCEPT !.authenticated = TRUE,
                                                 !.error = FALSE, !.user = r.user])
       ELSE UNCHANGED <<fresh, machines, regs, auths, sshs>>
    /\ Busy(h, Idle)
    /\ UNCHANGED <<load, access, tailnets, users, removed, lastUser, admin, tokens,
                   states, sessions, grants, waitVars>>

SaveTokenUnsaved(h) == \* Mutant: the api key itself is not saved
    LET r == hs[h]
        token == [key |-> r.key, who |-> r.who, user |-> r.user,
                  tailnet |-> IF r.admin THEN NoTailnet ELSE r.tailnet]
    IN
    /\ \/ r.pc = "save" /\ r.flow = "c"
       \/ r.pc = "end" /\ r.admin
    /\ SaveRow("c", r.key, [r.row EXCEPT !.token = token])
    /\ Busy(h, Idle)
    /\ UNCHANGED <<load, dataVars, tokens, states, sessions, grants, waitVars>>

(* The transactions of endCliAuthenticationFlow: an api key needs its user;*)
(* a system api key belongs to the account.                                *)
SaveToken(h) ==
    LET r == hs[h]
        token == [key |-> r.key, who |-> r.who, user |-> r.user,
                  tailnet |-> IF r.admin THEN NoTailnet ELSE r.tailnet]
    IN
    /\ \/ r.pc = "save" /\ r.flow = "c"
       \/ r.pc = "end" /\ r.admin
    /\ IF r.admin \/ r.user \in users
       THEN /\ tokens' = tokens \cup {token}
            /\ fresh' = IF r.admin THEN fresh ELSE fresh \cup {r.user}
            /\ SaveRow("c", r.key, [r.row EXCEPT !.token = token])
       ELSE UNCHANGED <<tokens, fresh, regs, auths, sshs>>
    /\ Busy(h, Idle)
    /\ UNCHANGED <<load, access, tailnets, users, machines, removed, lastUser, admin,
                   states, sessions, grants, waitVars>>

----------------------------------------------------------------------------
(* Time, administrators and restarts *)

StateExpires(s) ==
    /\ Does("lapse")
    /\ s \in states
    /\ states' = states \ {s}
    /\ UNCHANGED <<load, dataVars, rowVars, sessions, hs, grants, waitVars>>

SessionExpires(c) ==
    /\ Does("lapse")
    /\ c \in sessions
    /\ sessions' = sessions \ {c}
    /\ UNCHANGED <<load, dataVars, rowVars, states, hs, grants, waitVars>>

CheckPeriodLapses(u) ==
    /\ Does("ssh")
    /\ u \in fresh
    /\ fresh' = fresh \ {u}
    /\ UNCHANGED <<load, access, tailnets, users, machines, removed, lastUser, admin,
                   rowVars, browserVars, waitVars>>

Intervene == /\ admin < MaxAdmin
             /\ admin' = admin + 1

(* SetIAMPolicy, as far as a login can tell. *)
ChangeAccess(i, t) ==
    /\ Does("policy")
    /\ Intervene
    /\ access' = IF <<i, t>> \in access THEN access \ {<<i, t>>}
                 ELSE access \cup {<<i, t>>}
    /\ UNCHANGED <<load, tailnets, users, fresh, machines, removed, lastUser, rowVars,
                   browserVars, waitVars>>

(* The transactions of DeleteUser and of DeleteTailnet. *)
RemoveUsers(gone) ==
    /\ users' = users \ gone
    /\ fresh' = fresh \ gone
    /\ machines' = {m \in machines : m.user \notin gone}
    /\ removed' = removed \cup {m \in machines : m.user \in gone}
    /\ tokens' = {x \in tokens : x.user \notin gone}
    /\ UNCHANGED <<load, access, lastUser, regs, auths, sshs, browserVars, waitVars>>

DeleteUser(u) ==
    /\ Does("delete")
    /\ Intervene
    /\ RemoveUsers({u})
    /\ UNCHANGED tailnets

DeleteTailnet(t) ==
    /\ Does("delete")
    /\ Intervene
    /\ tailnets' = tailnets \ {t}
    /\ RemoveUsers({u \in users : u.tailnet = t})

(* The server restarts: the handlers and the held requests die, the rows   *)
(* and what the browsers carry stay.                                       *)
Restart ==
    /\ Does("restart")
    /\ Intervene
    /\ hs' = [h \in Handlers |-> Idle]
    /\ follow' = [d \in Devices |-> IF follow[d].st = "waiting"
                                    THEN [follow[d] EXCEPT !.st = "told"]
                                    ELSE follow[d]]
    /\ stream' = [k \in Keys |-> IF stream[k].st = "open"
                                 THEN [stream[k] EXCEPT !.st = "cut"] ELSE stream[k]]
    /\ check' = [k \in Keys |-> IF check[k].st = "waiting"
                                THEN [check[k] EXCEPT !.st = "hung"] ELSE check[k]]
    /\ UNCHANGED <<load, access, tailnets, users, fresh, machines, removed, lastUser,
                   rowVars, states, sessions, grants, asked, lastKey>>

----------------------------------------------------------------------------
LoginInit ==
    /\ load \in Loads
    /\ access = load.access
    /\ tailnets = Tailnets
    /\ users = load.users /\ fresh = load.users
    /\ machines = load.machines /\ removed = {}
    /\ regs = [d \in Devices |-> NoRow]
    /\ auths = [k \in Keys |-> NoRow] /\ sshs = [k \in Keys |-> NoRow]
    /\ tokens = {} /\ states = {} /\ sessions = {} /\ grants = {}
    /\ hs = [h \in Handlers |-> Idle]
    /\ follow = [d \in Devices |-> [st |-> "told", user |-> NoUser]]
    /\ stream = [k \in Keys |-> [st |-> "none", token |-> NoToken]]
    /\ check = [k \in Keys |-> [st |-> "none", src |-> NoRow]]
    /\ asked = [k \in Keys |-> NoRow]
    /\ lastKey = 0 /\ admin = 0
    /\ lastUser = Cardinality(load.users)

Waiting ==
    \/ \E d \in Devices : \/ AuthenticateMachine(d) \/ Followup(d)
                          \/ FollowupAnswer(d) \/ FollowupHangUp(d)
    \/ \E sent \in BOOLEAN : Authenticate(sent)
    \/ \E m \in machines : SSHStartAuth(m)
    \/ \E k \in Keys : \/ AuthenticateAnswer(k) \/ AuthenticateHangUp(k)
                       \/ CheckAnswer(k) \/ CheckHangUp(k)

Browsing ==
    \/ \E flow \in {"r", "c", "s"}, k \in Keys : StartAuth(flow, k)
    \/ \E h \in load.handlers :
        \/ \E k \in Keys, u \in users \cup {NoUser} : StartAuthWithKey(h, k, u)
        \/ \E s \in states, i \in load.people : Callback(h, s, i)
        \/ \E s \in states, c \in sessions, t \in Tailnets : EndAuth(h, s, c, t, FALSE)
        \/ \E s \in states, c \in sessions : EndAuth(h, s, c, NoTailnet, TRUE)
        \/ GetUserWithAccount(h) \/ CreateUserWithAccount(h) \/ SaveDecision(h)
        \/ SaveRegistration(h) \/ SaveToken(h)

Surroundings ==
    \/ \E s \in states : StateExpires(s)
    \/ \E c \in sessions : SessionExpires(c)
    \/ \E u \in fresh : CheckPeriodLapses(u)
    \/ \E i \in load.people, t \in Tailnets : ChangeAccess(i, t)
    \/ \E u \in users : DeleteUser(u)
    \/ \E t \in tailnets : DeleteTailnet(t)
    \/ Restart

LoginNext == Waiting \/ Browsing \/ Surroundings

(* The tickers of the held requests keep ticking. *)
LoginSpec ==
    /\ LoginInit /\ [][LoginNext]_loginVars
    /\ \A d \in Devices : WF_loginVars(FollowupAnswer(d))
    /\ \A k \in Keys : WF_loginVars(AuthenticateAnswer(k)) /\ WF_loginVars(CheckAnswer(k))

----------------------------------------------------------------------------
(* Properties *)

(* What a login leaves behind was granted to it.  Every machine belongs to *)
(* a person who logged in with a URL made for that device, and every token *)
(* to one who logged in with the URL of that very stream, into a tailnet   *)
(* the policies admitted them to at that login (or as a system admin).     *)
(* EndAuth comes later, with a state and a session from the browser.       *)
LoginsAreGranted ==
    /\ \A m \in machines \ load.machines :
        \E g \in grants : /\ g.flow = "r" /\ asked[g.key] = m.device
                          /\ g.who = m.user.who /\ m.user.tailnet \in g.tailnets
    /\ \A x \in tokens :
        \E g \in grants : /\ g.flow = "c" /\ g.key = x.key /\ g.who = x.who
                          /\ IF x.tailnet = NoTailnet THEN g.admin
                             ELSE x.tailnet \in g.tailnets

(* A row that says a device is registered tells the truth: its machine was *)
(* saved for that user, whatever ran between the reads and the transaction *)
(* of endMachineRegistrationFlow.                                          *)
DoneMeansRegistered ==
    \A d \in Devices :
        regs[d] # NoRow /\ regs[d].authenticated =>
            [device |-> d, user |-> regs[d].user] \in machines \cup removed

(* A token goes to the client that asked for it, and while its user is     *)
(* there the token works: the api key was saved with it.                   *)
TokensReachTheirClient ==
    \A k \in Keys :
        LET x == stream[k].token IN
        x # NoToken => /\ x.key = k
                       /\ (x.user \in users \/ x.user = NoUser) => x \in tokens

(* A held SSH session is let in only when the owner of the source machine  *)
(* logged in for that very request.                                        *)
SSHNeedsItsOwner ==
    \A k \in Keys :
        check[k].st = "accepted" =>
            \E g \in grants : /\ g.flow = "s" /\ g.key = k
                              /\ g.who = check[k].src.user.who

(* Every held request whose row is decided (or gone) is answered, unless   *)
(* its client hangs up first.                                              *)
DecisionsAreDelivered ==
    /\ \A d \in Devices :
        (follow[d].st = "waiting" /\ (regs[d] # NoRow => Decided("r", regs[d])))
            ~> follow[d].st # "waiting"
    /\ \A k \in Keys :
        /\ (stream[k].st = "open" /\ (auths[k] # NoRow => Decided("c", auths[k])))
            ~> stream[k].st # "open"
        /\ (check[k].st = "waiting" /\ (sshs[k] # NoRow => Decided("s", sshs[k])))
            ~> check[k].st # "waiting"
================================================================================
