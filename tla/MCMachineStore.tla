--------------------------- MODULE MCMachineStore ---------------------------
(* Small instances of MachineStore. *)
EXTENDS MachineStore

CONSTANTS i1, i2, d1, d2, u1, u2, n1, n2, a1, a2

Machine(d, n, a, eph, seen) ==
    [client |-> <<d, u1>>, name |-> n, idx |-> 0, useOSHostname |-> TRUE, host |-> n,
     addr |-> a, authorized |-> FALSE, keyExpiryDisabled |-> FALSE,
     lapsed |-> FALSE, ephemeral |-> eph, lastSeen |-> seen,
     routable |-> {}, allow |-> {}, autoAllow |-> {}]

OneMachine == [i \in Ids |-> IF i = i1 THEN Machine(d1, n1, a1, FALSE, "recently")
                             ELSE NoRow]

OneEphemeral == [i \in Ids |-> IF i = i1 THEN Machine(d1, n1, a1, TRUE, "recently")
                               ELSE NoRow]

Key(u, special) ==
    [user |-> u, ephemeral |-> special, preAuthorized |-> special, tagged |-> special]
PlainKey == {Key(u1, FALSE)}
TwoKeys == {Key(u1, FALSE), Key(u1, TRUE)}
TwoUsers == {Key(u1, FALSE), Key(u2, FALSE)}

Load(kinds, names, routes, keys, start) ==
    [kinds |-> kinds, names |-> names, routes |-> routes, keys |-> keys, start |-> start]

(* Names and addresses; keys of two users; routes; approval and expiry;    *)
(* the reaper.                                                             *)
Situations ==
    {Load(kinds, {n1, n2}, {}, PlainKey, OneMachine) :
        kinds \in {{"register", "report"}, {"register", "rename", "delete"},
                  {"register", "osName", "rename"}, {"report", "rename", "osName", "delete"}}}
      \cup
    {Load({"register", "rekey", "delete"}, {n1}, {}, TwoUsers, OneMachine),
     Load({"rekey", "report", "enable", "disable"}, {n1}, Prefixes, PlainKey, OneMachine),
     Load({"rekey", "reregister", "report", "logout", "authorize", "expire",
           "keyExpiry"}, {n1}, {}, TwoKeys, OneEphemeral)}
      \cup
    {Load(kinds, {n1}, {}, TwoKeys, OneEphemeral) :
        kinds \in {{"register", "report", "seen"}, {"rekey", "report", "seen"}}}

ReportAndExpire == {Load({"report", "expire"}, {n1}, {}, PlainKey, OneMachine)}
=============================================================================
