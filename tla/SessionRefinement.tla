------------------------- MODULE SessionRefinement -------------------------
(***************************************************************************)
(* The refinement mapping from SessionManager to SessionTable.             *)
(***************************************************************************)
EXTENDS SessionManager

Table == INSTANCE SessionTable WITH
            session <- targets,
            live <- {c \in Chans : handler[c] # "none"},
            ended <- closed,
            pinged <- {c \in Chans : buf[c] > 0}

(* The session manager implements the session table: every step of a       *)
(* handler, a timer goroutine or a NotifyAll under the RWMutex is one step *)
(* of the table, or changes nothing a handler can see.                     *)
ImplementsSessionTable == Table!Spec
=============================================================================
