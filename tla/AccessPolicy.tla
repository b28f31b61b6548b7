----------------------------- MODULE AccessPolicy -----------------------------
(***************************************************************************)
(* Who may enter a tailnet and with which role: the IAM policy             *)
(* (internal/domain/iam.go), the organization boundary and the role claims *)
(* (internal/handlers/authentication.go), the principal of an API call     *)
(* (internal/domain/principal.go, internal/service/interceptors.go).       *)
(*                                                                         *)
(* An identity is [sub, name, username, org, roles]; NoName stands for     *)
(* the empty string.  A policy is [subs, emails, filters, roles]; a filter *)
(* is "*" or the set of attributes it asks for, roles a function on names. *)
(***************************************************************************)
EXTENDS Naturals, FiniteSets, Functions

CONSTANT NoName

EmptyRoles == [x \in {} |-> "member"]

EmptyPolicy == [subs |-> {}, emails |-> {}, filters |-> {}, roles |-> EmptyRoles]

----------------------------------------------------------------------------
(* What the provider says: [sub, email, token, userinfo], the last two     *)
(* functions from the claims that were sent to their values.               *)

(* lookupClaim: the claims of the id_token before those of userinfo; a     *)
(* claim that is sent counts even if it is empty.                          *)
lookupClaim(name, id) ==
    CASE name \in DOMAIN id.token -> id.token[name]
      [] name \notin DOMAIN id.token /\ name \in DOMAIN id.userinfo -> id.userinfo[name]
      [] OTHER -> NoName

claimAsStringSlice(v) == IF v = NoName THEN {} ELSE v \ {NoName}

(* Exchange, for a token that verifies; without an email the name is the   *)
(* subject.  orgs is the configuration [enabled, rolesClaim, required]:    *)
(* whether the claims of organizations and of roles are named, and whether *)
(* an organization is required.                                            *)
Exchange(id, orgs) ==
    [sub |-> id.sub,
     name |-> IF id.email # NoName THEN id.email ELSE id.sub,
     username |-> lookupClaim("username", id),
     org |-> IF orgs.enabled THEN lookupClaim("org", id) ELSE NoName,
     roles |-> IF orgs.enabled /\ orgs.rolesClaim
               THEN claimAsStringSlice(lookupClaim("roles", id)) ELSE {}]

(* An identity without a subject is refused, and one without organization  *)
(* if that is required.                                                    *)
Admitted(id, orgs) ==
    id.sub # NoName /\ (orgs.enabled /\ orgs.required => Exchange(id, orgs).org # NoName)

(* What a login name is: the username when the provider sends one.         *)
LoginName(u) == IF u.username # NoName THEN u.username ELSE u.name

(* EvaluatePolicy; a filter holds of the attributes that Exchange put      *)
(* beside the claims (here the organization and the roles).                *)
FilterMatches(f, u) == f = "*" \/ f = <<"org", u.org>> \/ \E r \in u.roles : f = <<"role", r>>

EvaluatePolicy(p, u) ==
    \/ u.sub \in p.subs
    \/ u.name \in p.emails
    \/ \E f \in p.filters : FilterMatches(f, u)

(* A policy that lets everybody in. *)
OpenPolicy == [EmptyPolicy EXCEPT !.filters = {"*"}]

IsEmptyIAMPolicy(p) == p.subs = {} /\ p.emails = {} /\ p.filters = {}

AccessibleUnbound(scoping, t, u) == \* Mutant: a policy lets in other organizations
    IF t.org # NoName
    THEN /\ scoping
         /\ IF IsEmptyIAMPolicy(t.policy) THEN u.org = t.org ELSE EvaluatePolicy(t.policy, u)
    ELSE /\ ~(scoping /\ u.org # NoName)
         /\ EvaluatePolicy(t.policy, u)

(* tailnetAccessible: t is [org, policy], scoping says whether an          *)
(* organization claim is configured.                                       *)
TailnetAccessible(scoping, t, u) ==
    IF t.org # NoName
    THEN /\ scoping /\ u.org = t.org
         /\ IsEmptyIAMPolicy(t.policy) \/ EvaluatePolicy(t.policy, u)
    ELSE /\ ~(scoping /\ u.org # NoName)
         /\ EvaluatePolicy(t.policy, u)

(* GetRole: the role of a user of that name. *)
GetRole(p, name) == IF name \in DOMAIN p.roles THEN p.roles[name] ELSE "member"

SyncedNeverRevokes(p, u, adminRoles) == \* Mutant: a lost role claim is not noticed
    IF u.roles \cap adminRoles # {}
    THEN [p EXCEPT !.roles = [n \in DOMAIN p.roles \cup {u.name} |->
                                 IF n = u.name THEN "admin" ELSE p.roles[n]]]
    ELSE p

(* syncOrgRoles, for one tailnet of the identity's organization: the role  *)
(* is kept under the identity's Name.                                      *)
SyncedPolicy(p, u, adminRoles) ==
    LET isAdmin == u.roles \cap adminRoles # {}
        name == u.name
    IN
    CASE isAdmin /\ GetRole(p, name) # "admin" ->
            [p EXCEPT !.roles = [n \in DOMAIN p.roles \cup {name} |->
                                    IF n = name THEN "admin" ELSE p.roles[n]]]
      [] ~isAdmin /\ GetRole(p, name) = "admin" ->
            [p EXCEPT !.roles = Restrict(p.roles, DOMAIN p.roles \ {name})]
      [] OTHER -> p

----------------------------------------------------------------------------
(* Principals: a system admin has no user; every other has one. *)

SystemAdmin == [system |-> TRUE, user |-> NoName, role |-> "none"]

IsTailnetAdmin(p, t) == ~p.system /\ p.user.tailnet = t /\ p.role = "admin"

(* The guard of the calls on one tailnet. *)
MayAdminister(p, t) == p.system \/ IsTailnetAdmin(p, t)

(* exchangeToken for the api key of a user: the role is looked up in the   *)
(* tailnet's policy as it is now.                                          *)
ExchangeToken(user, policy) ==
    [system |-> FALSE, user |-> user, role |-> GetRole(policy, user.name)]
===============================================================================
