------------------------------ MODULE MCNetMap ------------------------------
(* Small instances of NetMap for TLC. *)
EXTENDS NetMap, TLC

CONSTANTS m1, m2, c1, c2, c3

(* One client per machine. *)
OnePollEach == c1 :> m1 @@ c2 :> m2

(* The client of m1 may reconnect while its old poll is still running. *)
TwoPollsOfFirst == c1 :> m1 @@ c2 :> m1 @@ c3 :> m2

Start(new, lapse, auth, time, nChanges, nPolls) ==
    [newcomers |-> new, lapsing |-> lapse, approved |-> {m1},
     authRequired |-> auth, clock |-> time, changes |-> nChanges, polls |-> nPolls]

(* One administrative change; a key that lapses and two changes; a client  *)
(* that reconnects; a machine that registers and is approved.              *)
Situations == {Start({}, {}, auth, 2, 1, 2) : auth \in BOOLEAN} \cup
              {Start({}, {m2}, FALSE, 1, 2, 1),
               Start({}, {}, FALSE, 2, 0, 3), Start({m2}, {}, TRUE, 2, 2, 1)}
OneLapses == {Start({}, {m2}, FALSE, 1, 0, 2)}

(* c1 and c2 are polls of the same client. *)
Symmetry == Permutations(Procs) \cup Permutations({c1, c2})
=============================================================================
