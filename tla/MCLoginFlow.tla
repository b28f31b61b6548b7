----------------------------- MODULE MCLoginFlow -----------------------------
(* Two people, two tailnets, two browser requests at a time. *)
EXTENDS LoginFlow

CONSTANTS i1, i2, t1, t2, d1

User(n, i, t) == [id |-> n, who |-> i, tailnet |-> t]

(* A device registers, twice: with somebody who chooses between tailnets,  *)
(* with somebody beside them who may enter none, and with somebody who     *)
(* does not own the tags it asks for.                                      *)
Choosing == [access |-> {<<i1, t1>>, <<i1, t2>>}, users |-> {}, machines |-> {},
             people |-> {i1}, handlers |-> {1},
             keys |-> 2, does |-> {"register", "lapse"}]

Refusing == [access |-> {<<i1, t1>>}, users |-> {}, machines |-> {},
             people |-> {i1, i2}, handlers |-> {1, 2}, keys |-> 1, does |-> {"register"}]

RefusingAgain == [Refusing EXCEPT !.handlers = {1}, !.keys = 2]

Tagging == [access |-> {<<i2, t1>>}, users |-> {}, machines |-> {},
            people |-> {i2}, handlers |-> {1}, keys |-> 2, does |-> {"register"}]

(* Users and tailnets go away meanwhile. *)
Deleting == [access |-> {<<i1, t1>>}, users |-> {}, machines |-> {},
             people |-> {i1}, handlers |-> {1},
             keys |-> 2, does |-> {"register", "delete", "authkey"}]

(* Command line logins: while a policy changes, by a system admin, and     *)
(* beside deletions and restarts.                                          *)
CommandLine == [access |-> {<<i1, t1>>}, users |-> {}, machines |-> {},
                people |-> {i1}, handlers |-> {1, 2}, keys |-> 1,
                does |-> {"cli", "policy"}]

CommandLineAdmin == [access |-> {<<i2, t1>>}, users |-> {}, machines |-> {},
                     people |-> {i2}, handlers |-> {1}, keys |-> 2, does |-> {"cli"}]

CommandLineCut == [access |-> {<<i1, t1>>}, users |-> {}, machines |-> {},
                   people |-> {i1}, handlers |-> {1},
                   keys |-> 2, does |-> {"cli", "restart", "delete"}]

(* SSH sessions of a machine of the first person. *)
Checking == [access |-> {}, users |-> {User(1, i1, t1)},
             machines |-> {[device |-> d1, user |-> User(1, i1, t1)]},
             people |-> {i1, i2}, handlers |-> {1},
             keys |-> 2, does |-> {"ssh", "delete"}]

MCLoads == {Choosing, Refusing, RefusingAgain, Tagging, Deleting, CommandLine, CommandLineAdmin,
            CommandLineCut, Checking}
==============================================================================
