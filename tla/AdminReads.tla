------------------------------- MODULE AdminReads -------------------------------
(***************************************************************************)
(* The calls that only read (internal/service), made by a principal that   *)
(* the interceptor resolved when the request came in: by the time the      *)
(* handler reads, the key may be deleted, the role taken back, the tailnet *)
(* gone (internal/service/interceptors.go, internal/domain/api_key.go).    *)
(***************************************************************************)
EXTENDS TailnetAdmin

Rows(kind, t) == {k \in owned : k.kind = kind /\ k.tailnet = t}

(* The calls that name a tailnet: what they return of it, when it exists   *)
(* and the principal may ask.                                              *)
OfTailnet(p, t, rows) == IF MayAdminister(p, t) /\ t \in Live THEN rows ELSE {}

GetTailnet(p, t) == OfTailnet(p, t, {[tailnet |-> t]})
GetDERPMap(p, t) == OfTailnet(p, t, {[tailnet |-> t]})
GetTailnetLockStatus(p, t) == OfTailnet(p, t, {[tailnet |-> t]} \cup Rows("machine", t))
GetACLPolicy(p, t) == OfTailnet(p, t, {[tailnet |-> t]})
GetIAMPolicy(p, t) == OfTailnet(p, t, {[tailnet |-> t]})
GetDNSConfig(p, t) == OfTailnet(p, t, {[tailnet |-> t]})
ListMachines(p, t) == OfTailnet(p, t, Rows("machine", t))
ListUsers(p, t) == OfTailnet(p, t, {u \in users : u.tailnet = t /\ u.account # Service})

(* A tailnet admin lists the auth keys they made themselves. *)
ListAuthKeys(p, t) ==
    OfTailnet(p, t, {k \in Rows("auth", t) : ~p.system => k.user = p.user.id})

GetMachineOfOwn(p, k) == \* Mutant: the role is not looked at
    IF k.kind = "machine" /\ (p.system \/ p.user.tailnet = k.tailnet) THEN {k} ELSE {}

(* The calls that name a row: it is read first, then its tailnet decides.  *)
GetMachine(p, k) == IF k.kind = "machine" /\ MayAdminister(p, k.tailnet) THEN {k} ELSE {}
GetMachineRoutes(p, k) == GetMachine(p, k)
GetAuthKey(p, k) == IF k.kind = "auth" /\ MayAdminister(p, k.tailnet) THEN {k} ELSE {}

(* The first row of the organization. *)
GetTailnetByOrganization(p, o) ==
    IF p.system /\ o # NoName
    THEN {[tailnet |-> t] :
             t \in {s \in ByOrganization(o) : \A r \in ByOrganization(o) : s =< r}}
    ELSE {}

(* With an organization for a system admin only; without one everybody     *)
(* sees their own tailnet.                                                 *)
ListTailnets(p, o) ==
    IF p.system
    THEN {[tailnet |-> t] : t \in {s \in Live : o # NoName => tailnets[s].org = o}}
    ELSE IF o # NoName THEN {} ELSE {[tailnet |-> t] : t \in {p.user.tailnet} \cap Live}

(* What every call of a principal returns at this moment. *)
Answers(p) ==
    (UNION {GetTailnet(p, t) \cup GetDERPMap(p, t) \cup GetTailnetLockStatus(p, t)
              \cup GetACLPolicy(p, t) \cup GetIAMPolicy(p, t) \cup GetDNSConfig(p, t)
              \cup ListMachines(p, t) \cup ListUsers(p, t) \cup ListAuthKeys(p, t) :
            t \in TailnetIds})
    \cup (UNION {GetMachine(p, k) \cup GetMachineRoutes(p, k) \cup GetAuthKey(p, k) :
                 k \in owned})
    \cup (UNION {GetTailnetByOrganization(p, o) \cup ListTailnets(p, o) :
                 o \in Orgs \cup {NoName}})

----------------------------------------------------------------------------
(* The interceptor has resolved the token; the handler has not yet read. *)
AuthenticationInterceptor(c, p) ==
    /\ Does("read")
    /\ Begin(c, [op |-> "read", by |-> p])
    /\ UNCHANGED <<load, tailnets, lastTailnet, accounts, users, owned, lastId, stale,
                   edited, revoked>>

Read(c) ==
    /\ calls[c] # NoCall /\ calls[c].op = "read"
    /\ Finish(c)
    /\ UNCHANGED <<load, tailnets, lastTailnet, accounts, users, owned, lastId, made,
                   stale, edited, revoked>>

ReadNext ==
    \/ AdminNext
    \/ \E c \in Callers : Read(c) \/ \E p \in Principals : AuthenticationInterceptor(c, p)

ReadSpec == AdminInit /\ [][ReadNext]_adminVars

----------------------------------------------------------------------------
(* Nobody but a system admin is answered with a row of another tailnet,    *)
(* and who was no admin of their own tailnet when the request came in only *)
(* learns which tailnet that is -- also when the key, the role, the user   *)
(* or the tailnet went while the request was on its way.                   *)
ReadsStayInside ==
    \A c \in Callers :
        calls[c] # NoCall /\ calls[c].op = "read" /\ ~calls[c].by.system =>
            \A row \in Answers(calls[c].by) :
                /\ row.tailnet = calls[c].by.user.tailnet
                /\ calls[c].by.role # "admin" => DOMAIN row = {"tailnet"}
================================================================================
