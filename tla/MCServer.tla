------------------------------- MODULE MCServer --------------------------------
(* Instances of Credentials for TLC: situations of a server and its database. *)
EXTENDS Credentials

CONSTANTS s1, s2, a1, a2

NoZone == [zone |-> FALSE, name |-> "", path |-> FALSE, inside |-> FALSE, parses |-> FALSE]
Builtin == [zone |-> TRUE, name |-> "known", path |-> FALSE, inside |-> TRUE, parses |-> TRUE]
Plugin == [zone |-> TRUE, name |-> "", path |-> TRUE, inside |-> TRUE, parses |-> TRUE]
AnyDns == [zone : BOOLEAN, name : {"", "known", "unknown"}, path : BOOLEAN,
           inside : BOOLEAN, parses : BOOLEAN]

Token(name, token) == [name |-> name, token |-> token, prefixed |-> TRUE, long |-> TRUE]
Config == [env |-> TRUE, acl |-> TRUE, tokens |-> <<Token("a", "t1"), Token("b", "t2")>>, web |-> TRUE,
           stun |-> TRUE, sameHost |-> TRUE, sources |-> <<>>, keys |-> TRUE, issuer |-> "",
           tls |-> "off", cert |-> FALSE]
Configs ==
    {[Config EXCEPT !.env = FALSE], [Config EXCEPT !.acl = FALSE], [Config EXCEPT !.web = FALSE],
     [Config EXCEPT !.stun = FALSE], [Config EXCEPT !.keys = FALSE],
     [Config EXCEPT !.issuer = "down"],
     [Config EXCEPT !.issuer = "answers", !.tls = "acme"],
     [Config EXCEPT !.tls = "files"], [Config EXCEPT !.tls = "files", !.cert = TRUE],
     [Config EXCEPT !.tokens = <<Token("a", "t1"), Token("b", "t1")>>],
     [Config EXCEPT !.tokens = <<Token("a", "t1"), Token("a", "t2")>>],
     [Config EXCEPT !.tokens = <<Token("", "t1")>>],
     [Config EXCEPT !.tokens = <<[Token("a", "t1") EXCEPT !.prefixed = FALSE]>>],
     [Config EXCEPT !.sources = <<{1, OwnRegion}, {1, 2}>>],
     [Config EXCEPT !.sources = <<{OwnRegion}>>, !.sameHost = FALSE]}

NoUsers == [a \in {a1, a2} |-> {}]
(* Tailnets from before the column; the organizations of two accounts. *)
Unknown == [a \in {a1, a2} |-> {NULL}]
Orgs(x, y) == [a \in {a1, a2} |-> IF a = a1 THEN x ELSE y]

Named(name, type, value) == [name |-> name, type |-> type, value |-> value]
Configuration(magic, certs, routes, records) ==
    [magic |-> magic, certs |-> certs, override |-> FALSE, nameservers |-> {"ns"},
     routes |-> routes, records |-> records]
MCDNSConfigs ==
    {Configuration(magic, certs, routes, records) :
        magic \in BOOLEAN, certs \in BOOLEAN, routes \in SUBSET {"x"},
        records \in {{}, {Named("x", "a", "v4")}, {Named("y", "AAAA", "v6")},
                     {Named("y", "AAAA", "v4")}, {Named("y", "MX", "v4")},
                     {Named("", "A", "v4")}, {Named("y", "", "no address")}}}

MCMachines == [m \in {1, 2, 3} |-> <<"user", "tagged", "unknown">>[m]]

MCAtoms == <<"p", "q", "r", "s">>

(* A server that is up to date. *)
Steady == [kind |-> "sqlite", servers |-> {s1}, recorded |-> 19, orgs |-> NoUsers, twins |-> FALSE,
           key |-> 0, config |-> Config, dns |-> NoZone, stun |-> TRUE, ends |-> 0, does |-> {}]

FirstStart == [Steady EXCEPT !.recorded = 0, !.ends = 2, !.does = {"crash", "stop", "tokens"}]

(* First starts, upgrades of a version before use_os_hostname and of one   *)
(* before the index of the names was unique, servers that replace each     *)
(* other, two servers on an empty Postgres database, every DNS             *)
(* configuration, other configurations, and a plugin under load.           *)
MCLoads ==
    {FirstStart, [FirstStart EXCEPT !.key = 9]}
      \cup {[Steady EXCEPT !.recorded = 14, !.orgs = Unknown, !.ends = 2, !.does = {"crash"}]}
      \cup {[Steady EXCEPT !.recorded = 18, !.orgs = orgs, !.ends = 2, !.does = {"crash"}] :
              orgs \in {Orgs({"A"}, {"A", "B"}), Orgs({"", "A"}, {NULL, "A"}),
                        Orgs({NULL, ""}, {"C,D"})}}
      \cup {[Steady EXCEPT !.recorded = 10, !.twins = twins, !.ends = 1, !.does = {"crash"}] :
              twins \in BOOLEAN}
      \cup {[Steady EXCEPT !.servers = {s1, s2}, !.ends = 2, !.does = {"crash", "stop"}],
            [Steady EXCEPT !.kind = "postgres", !.servers = {s1, s2}, !.recorded = 0, !.ends = 1,
                           !.does = {"crash", "tokens"}],
            [Steady EXCEPT !.dns = Builtin, !.ends = 1, !.does = {"crash", "nodes"}]}
      \cup {[Steady EXCEPT !.dns = dns] : dns \in AnyDns}
      \cup {[Steady EXCEPT !.config = c, !.stun = stun] : c \in Configs, stun \in BOOLEAN}
      \cup {[Steady EXCEPT !.dns = Builtin, !.stun = stun, !.ends = 1,
                           !.does = {"dns", "acme", "stop"}] : stun \in BOOLEAN}
      \cup {[Steady EXCEPT !.ends = 1, !.does = {"creds", "stop"}]}
      \cup {[Steady EXCEPT !.dns = Plugin, !.ends = 1, !.does = {"dns", "die", "stop"}]}
================================================================================
