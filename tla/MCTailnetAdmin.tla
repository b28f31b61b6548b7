----------------------------- MODULE MCTailnetAdmin -----------------------------
(* The workloads TLC checks TailnetAdmin with. *)
EXTENDS CommandLine, TLC

CONSTANTS o1, o2, n1, n2, email, uname, boss

Row(n, o) == FreshRow(n, o, EmptyPolicy, {})
OpenRow(n) == FreshRow(n, NoName, OpenPolicy, {})
Closed == [EmptyPolicy EXCEPT !.subs = {"bob"}]
Chaired == [OpenPolicy EXCEPT !.roles = (email :> "admin")]

(* What the provider sends: everything in the id_token, unless said        *)
(* otherwise.                                                              *)
Person(user, o, roles) ==
    [sub |-> "ann", email |-> email, userinfo |-> <<>>,
     token |-> ("username" :> user @@ "org" :> o @@ "roles" :> roles)]

Ann == Person(NoName, o1, {boss})
AnnMember == Person(NoName, o1, {})
AnnElsewhere == Person(NoName, o2, {})
AnnNamed == Person(uname, o1, {boss})
AnnNoOrg == Person(NoName, NoName, {})

AnnInfo == [sub |-> "ann", email |-> NoName, token |-> <<>>,
            userinfo |-> ("org" :> o1 @@ "roles" :> {boss})]
AnnTwice == [Ann EXCEPT !.userinfo = ("org" :> o2)]

Scoped == [enabled |-> TRUE, rolesClaim |-> TRUE, required |-> FALSE]

L(does, rows, people, policies) ==
    [does |-> does, rows |-> rows, people |-> people, policies |-> policies, most |-> 4,
     orgs |-> Scoped, given |-> {<<>>}, approval |-> FALSE]

AtMost(n, l) == [l EXCEPT !.most = n]
Required(l) == [l EXCEPT !.orgs.required = TRUE]
NoRoles(l) == [l EXCEPT !.orgs.rolesClaim = FALSE]
Unscoped(l) == [l EXCEPT !.orgs = [Scoped EXCEPT !.enabled = FALSE]]
Given(g, l) == [l EXCEPT !.given = g, !.approval = TRUE]

MCLoads == {
    Given({<<>>, "ssh" :> TRUE}, AtMost(3, L({"create", "delete"}, <<>>, {}, {Closed}))),
    Given({"ssh" :> TRUE @@ "approval" :> FALSE},
          L({"create", "update", "delete"}, <<Row(n1, o1)>>, {}, {})),
    L({"acl", "ssh", "dns", "files", "services", "approval", "derp"}, <<Row(n1, o1)>>, {}, {}),
    L({"iam", "login", "ssh"}, <<Row(n1, o1)>>, {Ann, AnnMember}, {EmptyPolicy, Closed}),
    AtMost(3, L({"login", "revoke", "deluser"}, <<Row(n1, o1), Row(n2, o2)>>,
                {Ann, AnnElsewhere}, {})),
    L({"login", "revoke", "delete"}, <<Row(n1, o1)>>, {Ann}, {}),
    L({"login", "authkey", "delete", "deluser"}, <<Row(n1, o1)>>, {Ann}, {}),
    L({"login"}, <<Row(n1, o1)>>, {AnnMember, AnnNamed, AnnElsewhere}, {}),
    L({"login", "iam"}, <<Row(n1, NoName), Row(n2, o1)>>, {AnnNoOrg, AnnNamed}, {OpenPolicy}),
    AtMost(3, L({"login", "create", "update"}, <<Row(n1, o1)>>, {Ann}, {Chaired})),
    NoRoles(AtMost(3, L({"login", "iam"}, <<Row(n1, o1)>>, {Ann, AnnElsewhere}, {Chaired}))),
    Unscoped(AtMost(3, L({"login", "update"}, <<OpenRow(n1), Row(n2, o1)>>, {Ann}, {Chaired}))),
    AtMost(3, L({"login", "create"}, <<>>, {Ann}, {})),
    L({"login", "read", "deluser"}, <<Row(n1, o1), Row(n2, o2)>>, {Ann, AnnElsewhere}, {}),
    L({"login", "read", "delete", "authkey"}, <<Row(n1, o1)>>, {Ann}, {}),
    AtMost(3, L({"cli", "update", "create", "delete"}, <<Row(n1, o1)>>, {}, {})),
    AtMost(2, L({"cli", "acl", "ssh", "dns", "files", "services", "approval", "derp"},
                <<Row(n1, o1), Row(n2, o2)>>, {}, {})),
    AtMost(3, L({"cli", "login", "iam", "authkey"}, <<Row(n1, o1)>>, {Ann}, {Closed})),
    Required(L({"login"}, <<Row(n1, o1), Row(n2, o2)>>, {AnnInfo, AnnTwice, AnnNoOrg}, {}))}

MCClaims == {L({"login"}, <<Row(n1, o1)>>, {AnnNamed}, {})}
===============================================================================
