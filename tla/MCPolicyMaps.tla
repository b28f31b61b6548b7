------------------------------ MODULE MCPolicyMaps ------------------------------
(* Instances of PolicyMaps for TLC: three-bit addresses, two-bit ports. *)
EXTENDS PolicyMaps

CONSTANTS n1, n2

MCId == [x \in {n1, n2} |-> IF x = n1 THEN 1 ELSE 2]

Row(user, ip, tags, manual) ==
    [user |-> user, service |-> FALSE, ip |-> ip, registered |-> tags, tags |-> tags,
     manual |-> manual, allow |-> manual, routable |-> manual]

(* The polling machine and n1 belong to ann, n2 to bob. *)
Home == [x \in {n1, n2, "self"} |->
            CASE x = n1 -> Row("ann", 2, {}, {})
              [] x = n2 -> Row("bob", 3, {}, {})
              [] OTHER -> Row("ann", 1, {}, {})]
(* Three machines of three people. *)
Strangers == [Home EXCEPT ![n1].user = "eve"]
(* n1 routes the upper half and is an exit node. *)
Routers == [Home EXCEPT ![n1] = Row("ann", 2, {}, {<<4, 1>>, <<0, 0>>}),
                        ![n2] = Row("bob", 3, {}, {})]

(* n2 was registered with a key of a system admin. *)
Served == [Home EXCEPT ![n2] = [Row("tailnet", 3, {"srv"}, {<<4, 2>>}) EXCEPT !.service = TRUE]]

N(x) == <<"name", x>>
T(x) == <<"tag", x>>
G(x) == <<"group", x>>
All(a) == [alias |-> a, ports |-> {}]
At80(a) == [alias |-> a, ports |-> {<<2>>, <<1, 3>>}]
Beyond(a) == [alias |-> a, ports |-> {<<9>>}]
Acl(src, dst) == [src |-> src, dst |-> dst, proto |-> {"tcp"}]
Grant(src, dst, app) == [src |-> src, dst |-> dst, app |-> app,
                         ip |-> {[proto |-> {}, ports |-> <<0, 3>>]}]
Ssh(action, src, dst, rec) ==
    [action |-> action, src |-> src, dst |-> dst, users |-> {"autogroup:nonroot", "dev"},
     recorder |-> rec, enforce |-> TRUE]

Nothing == [acls |-> {}, grants |-> {}, ssh |-> {},
            groups |-> [g \in {"devs"} |-> {"ann"}],
            hosts |-> [h \in {"printer"} |-> <<"ip", 5>>],
            tagOwners |-> [t \in {"srv", "rec"} |->
                              IF t = "srv" THEN <<G("gone"), N("bob"), G("devs")>> ELSE <<G("gone"), G("devs")>>],
            approvers |-> [routes |-> {[net |-> <<4, 1>>, who |-> {N("bob"), T("srv")}]},
                           exit |-> {G("devs")}, parses |-> TRUE],
            attrs |-> {[target |-> {Member}, attr |-> {"funnel", "beta"}]}]

P(acls, grants, sshs) == [Nothing EXCEPT !.acls = acls, !.grants = grants, !.ssh = sshs]

PAll == P({Acl({Any}, {All(Any)})}, {}, {})
PFromBob == P({Acl({N("bob")}, {All(N("ann"))})}, {}, {})
PFromEve == P({Acl({N("eve")}, {All(N("ann"))})}, {}, {})
PSelf == P({Acl({Any}, {All(AutoSelf)})}, {Grant({Any}, {AutoSelf}, TRUE)},
           {Ssh("check", {T("srv"), Member, N("bob")}, {AutoSelf, T("srv")}, {T("rec")})})
PTags == P({Acl({G("devs"), Tagged}, {At80(T("srv"))})}, {},
           {Ssh("accept", {T("srv"), G("devs")}, {T("srv"), N("ann")}, {T("rec")})})
PNet == [P({Acl({N("bob")}, {All(<<"net", <<4, 1>>>>), All(N("printer"))}),
           Acl({DangerAll}, {All(Internet), Beyond(Any)})}, {}, {})
         EXCEPT !.approvers.routes = {[net |-> <<4, 2>>, who |-> {N("bob"), T("srv")}]}]
PGrant == P({}, {Grant({N("bob"), T("srv")}, {N("ann"), T("srv")}, TRUE)}, {})
PBroken == [PTags EXCEPT !.approvers.parses = FALSE]

Nobody == [x \in {n1, n2, "self"} |-> {}]

MCLoads ==
    {[fleet |-> Strangers, policies |-> {Nothing, PFromBob, PFromEve, PAll}, asks |-> Nobody,
      keys |-> Nobody, offers |-> Nobody, does |-> does] :
        does \in {{"rows", "cut", "derp"}, {"cut", "ssh"}, {"rows", "tka"}}}
      \cup {[fleet |-> Home, policies |-> {PSelf, PTags, PGrant, Nothing},
             asks |-> [Nobody EXCEPT !["self"] = {{}, {"srv"}}, ![n2] = {{}, {"srv"}, {"rec"}}],
             keys |-> [x \in {n1, n2, "self"} |-> {{}}], offers |-> Nobody, does |-> {"ssh"}]}
      \cup {[fleet |-> Home, policies |-> {PSelf, PTags},
             asks |-> [Nobody EXCEPT ![n1] = {{}, {"rec"}}, ![n2] = {{}, {"srv"}}],
             keys |-> [x \in {n1, n2, "self"} |-> {{}}], offers |-> Nobody, does |-> {"ssh"}]}
      \cup {[fleet |-> Served, policies |-> {PSelf, PTags, Nothing},
             asks |-> [Nobody EXCEPT !["self"] = {{}, {"rec"}}, ![n2] = {{}, {"rec"}}],
             keys |-> [Nobody EXCEPT !["self"] = {{}, {"srv"}}, ![n2] = {{"srv"}, {"new"}}],
             offers |-> Nobody, does |-> {}]}
      \cup {[fleet |-> Routers, policies |-> {PAll, PNet, PBroken}, asks |-> Nobody,
             keys |-> Nobody, offers |-> [Nobody EXCEPT ![n1] = {{}, {<<4, 2>>, <<0, 0>>}},
                                       ![n2] = {{<<2, 2>>, <<4, 1>>}, {<<6, 2>>, <<0, 0>>}}],
             does |-> {"sessions"}]}
==================================================================================
