---------------------------- MODULE SessionTable ----------------------------
(***************************************************************************)
(* What the poll session manager promises the handlers that use it:       *)
(* machines have at most one session each, a session ends only when its    *)
(* own handler closes it or a newer poll of the same machine replaces it,  *)
(* a replaced handler is told so, and a ping reaches only handlers of      *)
(* current sessions.  Locks, timers, goroutines, the walk over the map and *)
(* the number of buffered pings are left out.                              *)
(***************************************************************************)
CONSTANTS Machines, Chans, NoChan

VARIABLES
    session,    \* machine -> channel of its current session
    live,       \* channels whose handler is running
    ended,      \* channels whose handler has been told it was replaced
    pinged      \* channels with a ping waiting

tableVars == <<session, live, ended, pinged>>

Init ==
    /\ session = [m \in Machines |-> NoChan]
    /\ live = {}
    /\ ended = {}
    /\ pinged = {}

Open(m, c) ==
    /\ c \notin live
    /\ \A n \in Machines : session[n] # c
    /\ session' = [session EXCEPT ![m] = c]
    /\ live' = live \cup {c}
    /\ ended' = (ended \cup ({session[m]} \ {NoChan})) \ {c}
    /\ pinged' = pinged \ {c}

Close(m, c) ==
    /\ c \in live
    /\ session[m] = c
    /\ session' = [session EXCEPT ![m] = NoChan]
    /\ live' = live \ {c}
    /\ UNCHANGED <<ended, pinged>>

(* A replaced handler returns, or one returns and leaks its session. *)
Leave(c) ==
    /\ c \in live
    /\ live' = live \ {c}
    /\ UNCHANGED <<session, ended, pinged>>

Ping(m) ==
    /\ session[m] # NoChan
    /\ session[m] \notin ended
    /\ pinged' = pinged \cup {session[m]}
    /\ UNCHANGED <<session, live, ended>>

Take(c) ==
    /\ c \in live \cap pinged
    /\ pinged' = pinged \ {c}
    /\ UNCHANGED <<session, live, ended>>

Next ==
    \/ \E m \in Machines, c \in Chans : Open(m, c) \/ Close(m, c)
    \/ \E c \in Chans : Leave(c) \/ Take(c)
    \/ \E m \in Machines : Ping(m)

Spec == Init /\ [][Next]_tableVars
=============================================================================
