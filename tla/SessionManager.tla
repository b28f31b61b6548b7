--------------------------- MODULE SessionManager ---------------------------
(***************************************************************************)
(* The poll sessions of one tailnet: internal/core/session_manager.go.     *)
(*                                                                         *)
(* A poll handler makes a channel, registers it for its machine, drains    *)
(* pings from it and deregisters it when it returns.  Any handler, and the *)
(* timer goroutine that every Register and Deregister starts, may call     *)
(* NotifyAll, which walks the registered channels under the read lock.     *)
(*                                                                         *)
(* A channel stands for the handler that made it.  A process p stands for  *)
(* a goroutine that waits on a timer or executes NotifyAll; its program    *)
(* counter is pc[p].  A stopped timer leaves its goroutine blocked for     *)
(* ever on timer.C, so the process is free to stand for another one.       *)
(***************************************************************************)
EXTENDS Naturals, FiniteSets

CONSTANTS
    Machines,   \* machine ids of the tailnet
    Chans,      \* update channels, one per running poll handler
    Procs,      \* goroutines that exist at the same time (a bound)
    BufCap,     \* capacity of an update channel (20 in the code)
    NoChan,     \* a missing entry of targets
    NoProc,     \* a missing, stopped or fired entry of timers
    NoMachine   \* an idle process is about no machine

ASSUME SessionAssumption ==
    /\ NoChan \notin Chans
    /\ NoProc \notin Procs
    /\ NoMachine \notin Machines
    /\ BufCap \in Nat \ {0}

VARIABLES
    targets,    \* machine -> registered channel
    sessions,   \* machine -> what HasSession answers
    timers,     \* machine -> goroutine of its pending timer
    closed,     \* channels that have been closed
    buf,        \* channel -> number of buffered pings
    owner,      \* channel -> machine of the handler that made it
    handler,    \* channel -> where the handler that made it is
    pc,         \* process -> where it is
    role,       \* process -> why it calls NotifyAll
    about,      \* process -> machine whose timer it waits on
    todo        \* process -> channels its NotifyAll has still to ping

chanVars == <<closed, buf, owner, handler>>
procVars == <<pc, role, about, todo>>
smVars == <<targets, sessions, timers, chanVars, procVars>>

(* "starting": registered, the deferred Deregister not yet installed. *)
HandlerValues == {"none", "starting", "looping"}
PcValues == {"idle", "armed", "woken", "calling", "notifying"}
Roles == {"connect", "disconnect", "caller"}

SMInit ==
    /\ targets = [m \in Machines |-> NoChan]
    /\ sessions = [m \in Machines |-> FALSE]
    /\ timers = [m \in Machines |-> NoProc]
    /\ closed = {}
    /\ buf = [c \in Chans |-> 0]
    /\ owner = [c \in Chans |-> NoMachine]
    /\ handler = [c \in Chans |-> "none"]
    /\ pc = [p \in Procs |-> "idle"]
    /\ role = [p \in Procs |-> "caller"]
    /\ about = [p \in Procs |-> NoMachine]
    /\ todo = [p \in Procs |-> {}]

----------------------------------------------------------------------------
(* The write lock is free when no NotifyAll holds the read lock. *)
WriteLockFree == \A p \in Procs : pc[p] # "notifying"

(* A channel that no handler and no map entry refers to: make(chan) may    *)
(* return it.                                                              *)
Fresh(c) == handler[c] = "none" /\ \A m \in Machines : targets[m] # c

HasSession(m) == sessions[m]

(* p's goroutine has returned. *)
Finish(p) ==
    /\ pc' = [pc EXCEPT ![p] = "idle"]
    /\ role' = [role EXCEPT ![p] = "caller"]
    /\ about' = [about EXCEPT ![p] = NoMachine]

(* Stop machine m's pending timer and start another one, on which p waits. *)
RestartTimer(m, p, why) ==
    /\ timers' = [timers EXCEPT ![m] = p]
    /\ pc' = [q \in Procs |-> IF q = p THEN "armed"
                              ELSE IF q = timers[m] THEN "idle" ELSE pc[q]]
    /\ role' = [q \in Procs |-> IF q = p THEN why
                                ELSE IF q = timers[m] THEN "caller" ELSE role[q]]
    /\ about' = [q \in Procs |-> IF q = p THEN m
                                 ELSE IF q = timers[m] THEN NoMachine ELSE about[q]]
    /\ UNCHANGED todo

(* Mutant: Register does not take the lock. *)
RegisterNoLock(m, c, p) ==
    /\ Fresh(c)
    /\ pc[p] = "idle"
    /\ closed' = (closed \cup ({targets[m]} \ {NoChan})) \ {c}
    /\ targets' = [targets EXCEPT ![m] = c]
    /\ sessions' = [sessions EXCEPT ![m] = TRUE]
    /\ RestartTimer(m, p, "connect")
    /\ buf' = [buf EXCEPT ![c] = 0]
    /\ owner' = [owner EXCEPT ![c] = m]
    /\ handler' = [handler EXCEPT ![c] = "starting"]

(* Mutant: Register does not close the channel it replaces. *)
RegisterNoClose(m, c, p) ==
    /\ Fresh(c)
    /\ pc[p] = "idle"
    /\ WriteLockFree
    /\ closed' = closed \ {c}
    /\ targets' = [targets EXCEPT ![m] = c]
    /\ sessions' = [sessions EXCEPT ![m] = TRUE]
    /\ RestartTimer(m, p, "connect")
    /\ buf' = [buf EXCEPT ![c] = 0]
    /\ owner' = [owner EXCEPT ![c] = m]
    /\ handler' = [handler EXCEPT ![c] = "starting"]

Register(m, c, p) ==
    /\ Fresh(c)
    /\ pc[p] = "idle"
    /\ WriteLockFree
    /\ closed' = (closed \cup ({targets[m]} \ {NoChan})) \ {c}
    /\ targets' = [targets EXCEPT ![m] = c]
    /\ sessions' = [sessions EXCEPT ![m] = TRUE]
    /\ RestartTimer(m, p, "connect")
    /\ buf' = [buf EXCEPT ![c] = 0]
    /\ owner' = [owner EXCEPT ![c] = m]
    /\ handler' = [handler EXCEPT ![c] = "starting"]

(* The first map is written, Deregister is deferred, the loop starts. *)
EnterLoop(c) ==
    /\ handler[c] = "starting"
    /\ handler' = [handler EXCEPT ![c] = "looping"]
    /\ UNCHANGED <<targets, sessions, timers, closed, buf, owner, procVars>>

(* The handler fails before its Deregister is deferred: it returns and     *)
(* leaves its channel registered.                                          *)
Abandon(c) ==
    /\ handler[c] = "starting"
    /\ handler' = [handler EXCEPT ![c] = "none"]
    /\ UNCHANGED <<targets, sessions, timers, closed, buf, owner, procVars>>

(* The handler takes one buffered ping; a closed channel drains first. *)
Receive(c) ==
    /\ handler[c] = "looping"
    /\ buf[c] > 0
    /\ buf' = [buf EXCEPT ![c] = @ - 1]
    /\ UNCHANGED <<targets, sessions, timers, closed, owner, handler, procVars>>

(* Another handler has registered for the machine meanwhile: leave it be. *)
DeregisterSuperseded(c) ==
    /\ handler[c] = "looping"
    /\ WriteLockFree
    /\ targets[owner[c]] \notin {NoChan, c}
    /\ handler' = [handler EXCEPT ![c] = "none"]
    /\ UNCHANGED <<targets, sessions, timers, closed, buf, owner, procVars>>

DeregisterCurrent(c, p) ==
    /\ handler[c] = "looping"
    /\ pc[p] = "idle"
    /\ WriteLockFree
    /\ targets[owner[c]] \in {NoChan, c}
    /\ targets' = [targets EXCEPT ![owner[c]] = NoChan]
    /\ sessions' = [sessions EXCEPT ![owner[c]] = FALSE]
    /\ RestartTimer(owner[c], p, "disconnect")
    /\ handler' = [handler EXCEPT ![c] = "none"]
    /\ UNCHANGED <<closed, buf, owner>>

----------------------------------------------------------------------------
(* p's timer expires and p leaves <-timer.C; a later Stop has no effect. *)
Fire(p) ==
    /\ pc[p] = "armed"
    /\ pc' = [pc EXCEPT ![p] = "woken"]
    /\ timers' = [timers EXCEPT ![about[p]] = NoProc]
    /\ UNCHANGED <<targets, sessions, chanVars, role, about, todo>>

(* Mutant: both goroutines ask for a session to be there. *)
CheckSessionCopied(p) ==
    /\ pc[p] = "woken"
    /\ IF HasSession(about[p])
         THEN pc' = [pc EXCEPT ![p] = "calling"] /\ UNCHANGED <<role, about>>
         ELSE Finish(p)
    /\ UNCHANGED <<targets, sessions, timers, chanVars, todo>>

(* The goroutine asks, without the lock, whether what it was started for   *)
(* still holds, and gives up when it does not.                             *)
CheckSession(p) ==
    /\ pc[p] = "woken"
    /\ IF HasSession(about[p]) <=> role[p] = "connect"
         THEN pc' = [pc EXCEPT ![p] = "calling"] /\ UNCHANGED <<role, about>>
         ELSE Finish(p)
    /\ UNCHANGED <<targets, sessions, timers, chanVars, todo>>

(* A handler of the server calls NotifyAll with no machine to ignore. *)
CallNotifyAll(p) ==
    /\ pc[p] = "idle"
    /\ pc' = [pc EXCEPT ![p] = "calling"]
    /\ UNCHANGED <<targets, sessions, timers, chanVars, role, about, todo>>

Ignored(p) == IF role[p] = "connect" THEN {about[p]} ELSE {}

(* NotifyAll takes the read lock and starts to range over targets. *)
NotifyAllBegin(p) ==
    /\ pc[p] = "calling"
    /\ pc' = [pc EXCEPT ![p] = "notifying"]
    /\ todo' = [todo EXCEPT ![p] =
                  {targets[m] : m \in Machines \ Ignored(p)} \ {NoChan}]
    /\ UNCHANGED <<targets, sessions, timers, chanVars, role, about>>

(* One non-blocking send; a ping that finds the buffer full is dropped. *)
NotifyAllSend(p, c) ==
    /\ pc[p] = "notifying"
    /\ c \in todo[p]
    /\ todo' = [todo EXCEPT ![p] = @ \ {c}]
    /\ buf' = [buf EXCEPT ![c] = IF @ < BufCap THEN @ + 1 ELSE @]
    /\ UNCHANGED <<targets, sessions, timers, closed, owner, handler,
                   pc, role, about>>

NotifyAllEnd(p) ==
    /\ pc[p] = "notifying"
    /\ todo[p] = {}
    /\ Finish(p)
    /\ UNCHANGED <<targets, sessions, timers, chanVars, todo>>

----------------------------------------------------------------------------
HandlerNext ==
    \E c \in Chans :
        \/ \E m \in Machines, p \in Procs : Register(m, c, p)
        \/ DeregisterSuperseded(c)
        \/ \E p \in Procs : DeregisterCurrent(c, p)
        \/ EnterLoop(c)
        \/ Abandon(c)
        \/ Receive(c)

ProcNext ==
    \E p \in Procs :
        \/ Fire(p)
        \/ CheckSession(p)
        \/ CallNotifyAll(p)
        \/ NotifyAllBegin(p)
        \/ \E c \in Chans : NotifyAllSend(p, c)
        \/ NotifyAllEnd(p)

SMNext == HandlerNext \/ ProcNext

SMSpec == SMInit /\ [][SMNext]_smVars
----------------------------------------------------------------------------
TypeOK ==
    /\ targets \in [Machines -> Chans \cup {NoChan}]
    /\ sessions \in [Machines -> BOOLEAN]
    /\ timers \in [Machines -> Procs \cup {NoProc}]
    /\ closed \subseteq Chans
    /\ buf \in [Chans -> 0 .. BufCap]
    /\ owner \in [Chans -> Machines \cup {NoMachine}]
    /\ handler \in [Chans -> HandlerValues]
    /\ pc \in [Procs -> PcValues]
    /\ role \in [Procs -> Roles]
    /\ about \in [Procs -> Machines \cup {NoMachine}]
    /\ todo \in [Procs -> SUBSET Chans]

(* Register never closes a channel twice and NotifyAll never sends on a    *)
(* closed one: either would panic, in NotifyAll's case in a timer          *)
(* goroutine that nothing recovers.                                        *)
NoClosedChannelInUse ==
    /\ \A m \in Machines : targets[m] \notin closed
    /\ \A p \in Procs : todo[p] \cap closed = {}

(* No poll is forgotten: a handler that is no longer the one NotifyAll     *)
(* reaches for its machine has had its channel closed, which makes it      *)
(* return; so a client never hangs on a stream that gets no updates.       *)
NoOrphanPoll ==
    \A c \in Chans : handler[c] # "none" =>
        targets[owner[c]] = c \/ c \in closed

(* HasSession, which the peers' Online flag and the timer goroutines read  *)
(* without the lock, agrees with the map NotifyAll ranges over.            *)
SessionIffTarget ==
    \A m \in Machines : HasSession(m) <=> targets[m] # NoChan

(* A pending timer is the only one of its machine and was started for the  *)
(* session state the machine is in now, so its check will succeed unless   *)
(* the session changes again.                                              *)
PendingTimerIsCurrent ==
    \A p \in Procs : pc[p] = "armed" =>
        /\ about[p] \in Machines
        /\ timers[about[p]] = p
        /\ HasSession(about[p]) <=> role[p] = "connect"

(* Only the handler that registered a channel, or a newer poll of the same *)
(* machine, takes the channel out of targets: a late Deregister of a       *)
(* superseded handler never ends the session that replaced it.             *)
OnlyOwnSessionEnds ==
    [][\A m \in Machines :
         targets[m] # NoChan /\ targets'[m] = NoChan =>
           /\ handler[targets[m]] = "looping"
           /\ handler'[targets[m]] = "none"
           /\ owner[targets[m]] = m]_smVars
=============================================================================
