---------------------------- MODULE MCTailnetLock ----------------------------
(* Two nodes that are registered to begin with and a third that joins. *)
EXTENDS TailnetLock

CONSTANTS a, b, c

MCStartRows ==
    [i \in Ids |-> CASE i = 1 -> [device |-> a, key |-> 1, sig |-> NoSig]
                     [] i = 2 -> [device |-> b, key |-> 1, sig |-> NoSig]
                     [] OTHER -> NoRow]

(* The lock is set up while a third node joins or rotates its key and the  *)
(* switch is used.                                                         *)
Joining == [admins |-> {a}, newcomers |-> {c}, geneses |-> {1}, updates |-> {},
            keys |-> {1, 2}, does |-> {"switch", "sign"}]

(* The switch is used while other calls save the tailnet's row. *)
Editing == [admins |-> {a}, newcomers |-> {}, geneses |-> {1}, updates |-> {1},
            keys |-> {}, does |-> {"switch", "edit", "disable"}]

(* Two nodes set it up and grow the chain at the same time. *)
Growing == [admins |-> {a, b}, newcomers |-> {}, geneses |-> {1}, updates |-> {1, 2},
            keys |-> {}, does |-> {}]

(* Two nodes set it up, disable it and set it up anew. *)
Renewing == [admins |-> {a, b}, newcomers |-> {}, geneses |-> {1, 2}, updates |-> {1},
             keys |-> {}, does |-> {"disable"}]

(* Machines are signed, rotate their keys and are deleted. *)
Signing == [admins |-> {a}, newcomers |-> {b}, geneses |-> {1}, updates |-> {},
            keys |-> {1, 2}, does |-> {"sign", "delete", "disable"}]

MCLoads == {Joining, Editing, Growing, Renewing, Signing}
==============================================================================
