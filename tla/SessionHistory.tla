--------------------------- MODULE SessionHistory ---------------------------
(***************************************************************************)
(* SessionManager with a history variable: unaware holds <<m, n>> when     *)
(* machine m's session has changed and no NotifyAll has since offered a    *)
(* ping to the session machine n had at that time.                         *)
(***************************************************************************)
EXTENDS SessionRefinement

VARIABLE unaware

hVars == <<smVars, unaware>>

SessionChanged(m) == targets'[m] # targets[m]

Offered(n) == \E p \in Procs : targets[n] \in todo[p] \ todo'[p]

HInit == SMInit /\ unaware = {}

HNext ==
    /\ SMNext
    /\ unaware' =
         {<<m, n>> \in Machines \X Machines :
            /\ m # n
            /\ targets'[n] # NoChan
            /\ ~SessionChanged(n)
            /\ \/ SessionChanged(m)
               \/ <<m, n>> \in unaware /\ ~Offered(n)}

(* A goroutine is enabled to take at most one kind of step at a time. *)
ProcStep(p) ==
    \/ Fire(p) \/ CheckSession(p)
    \/ NotifyAllBegin(p) \/ NotifyAllEnd(p)
    \/ \E c \in Chans : NotifyAllSend(p, c)

HFairness == \A p \in Procs : WF_hVars(ProcStep(p) /\ HNext)

HSpec == HInit /\ [][HNext]_hVars /\ HFairness

(* Every session change is announced: when machine m connects or           *)
(* disconnects and then stays as it is, the goroutine behind its 5 or 10   *)
(* second timer offers a ping to every other session that was open, unless *)
(* that session ends first.  Timers stopped by a quick reconnect, checks   *)
(* that find the session changed and NotifyAlls that ignore a machine      *)
(* never lose the announcement.                                            *)
SessionChangeIsAnnounced ==
    \A m \in Machines : \A n \in Machines \ {m} :
        \/ []<><<SessionChanged(m)>>_hVars
        \/ <<m, n>> \in unaware ~> <<m, n>> \notin unaware
=============================================================================
