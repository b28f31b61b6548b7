---------------------------- MODULE NetMapProofs ----------------------------
(***************************************************************************)
(* Theorems about SessionManager, for any sets of machines, channels and   *)
(* goroutines and any channel capacity, and about NetMap, which uses it,   *)
(* for any polls, starting situations and bounds.                          *)
(***************************************************************************)
EXTENDS NetMap, SessionRefinement, TLAPS

----------------------------------------------------------------------------
(* SessionManager *)

(* A registered channel was made by a handler of that machine. *)
TargetsOwned ==
    \A m \in Machines : targets[m] # NoChan => owner[targets[m]] = m

(* A running handler is of some machine. *)
HandlersOwned ==
    \A c \in Chans : handler[c] # "none" => owner[c] \in Machines

(* What a NotifyAll has still to ping is registered; the read lock keeps   *)
(* it so.  Nobody else has anything to ping.                               *)
TodoRegistered ==
    \A p \in Procs :
        /\ pc[p] # "notifying" => todo[p] = {}
        /\ \A c \in todo[p] : \E m \in Machines : targets[m] = c

(* A timer that can still be stopped has a goroutine waiting on it. *)
TimersArmed ==
    \A m \in Machines : timers[m] # NoProc =>
        pc[timers[m]] = "armed" /\ about[timers[m]] = m

(* The inductive invariant. *)
SMInv ==
    /\ TypeOK
    /\ TargetsOwned
    /\ HandlersOwned
    /\ TodoRegistered
    /\ TimersArmed
    /\ NoClosedChannelInUse
    /\ NoOrphanPoll
    /\ SessionIffTarget
    /\ PendingTimerIsCurrent

----------------------------------------------------------------------------
(* Every step of the session manager keeps its variables in their types. *)
LEMMA TypeStep == TypeOK /\ [SMNext]_smVars => TypeOK'
<1> SUFFICES ASSUME TypeOK, [SMNext]_smVars PROVE TypeOK'
  BY Zenon
<1> USE SessionAssumption DEF TypeOK, HandlerValues, PcValues, Roles
<1>1. ASSUME NEW c \in Chans, NEW m \in Machines, NEW p \in Procs,
             Register(m, c, p)
      PROVE  TypeOK'
  BY <1>1 DEF Register, RestartTimer
<1>2. ASSUME NEW c \in Chans, DeregisterSuperseded(c)
      PROVE  TypeOK'
  BY <1>2, Zenon DEF DeregisterSuperseded, procVars
<1>3. ASSUME NEW c \in Chans, NEW p \in Procs, DeregisterCurrent(c, p)
      PROVE  TypeOK'
  <2>1. owner[c] \in Machines \cup {NoMachine}
    BY Zenon
  <2>2. /\ targets' \in [Machines -> Chans \cup {NoChan}]
        /\ sessions' \in [Machines -> BOOLEAN]
    BY <1>3, <2>1, Zenon DEF DeregisterCurrent
  <2>3. /\ timers' \in [Machines -> Procs \cup {NoProc}]
        /\ pc' \in [Procs -> PcValues]
        /\ role' \in [Procs -> Roles]
        /\ about' \in [Procs -> Machines \cup {NoMachine}]
        /\ todo' \in [Procs -> SUBSET Chans]
    BY <1>3, <2>1, Zenon DEF DeregisterCurrent, RestartTimer
  <2> QED
    BY <1>3, <2>2, <2>3, Zenon DEF DeregisterCurrent
<1>4. ASSUME NEW c \in Chans, EnterLoop(c) \/ Abandon(c)
      PROVE  TypeOK'
  BY <1>4, Zenon DEF EnterLoop, Abandon, procVars
<1>5. ASSUME NEW c \in Chans, Receive(c)
      PROVE  TypeOK'
  <2>1. buf[c] - 1 \in 0 .. BufCap
    BY <1>5 DEF Receive
  <2> QED
    BY <1>5, <2>1, Zenon DEF Receive, procVars
<1>6. ASSUME NEW p \in Procs, Fire(p)
      PROVE  TypeOK'
  BY <1>6, Zenon DEF Fire, chanVars
<1>7. ASSUME NEW p \in Procs, CheckSession(p)
      PROVE  TypeOK'
  BY <1>7 DEF CheckSession, Finish, chanVars
<1>8. ASSUME NEW p \in Procs, CallNotifyAll(p)
      PROVE  TypeOK'
  BY <1>8, Zenon DEF CallNotifyAll, chanVars
<1>9. ASSUME NEW p \in Procs, NotifyAllBegin(p)
      PROVE  TypeOK'
  <2>1. {targets[m] : m \in Machines \ Ignored(p)} \ {NoChan} \subseteq Chans
    OBVIOUS
  <2> QED
    BY <1>9, <2>1, Zenon DEF NotifyAllBegin, chanVars
<1>10. ASSUME NEW p \in Procs, NEW c \in Chans, NotifyAllSend(p, c)
       PROVE  TypeOK'
  BY <1>10 DEF NotifyAllSend
<1>11. ASSUME NEW p \in Procs, NotifyAllEnd(p)
       PROVE  TypeOK'
  BY <1>11, Zenon DEF NotifyAllEnd, Finish, chanVars
<1>12. CASE UNCHANGED smVars
  BY <1>12, Zenon DEF smVars, chanVars, procVars
<1> QED
  BY <1>1, <1>2, <1>3, <1>4, <1>5, <1>6, <1>7, <1>8, <1>9, <1>10, <1>11, <1>12, Zenon
  DEF SMNext, HandlerNext, ProcNext

(* The session manager's variables always have their types; in particular  *)
(* no update channel ever holds more pings than its capacity.              *)
THEOREM TypeCorrect == SMSpec => []TypeOK
<1>1. SMInit => TypeOK
  BY SessionAssumption
  DEF SMInit, TypeOK, HandlerValues, PcValues, Roles
<1> QED
  BY <1>1, TypeStep, PTL DEF SMSpec

----------------------------------------------------------------------------
(* The inductive invariant holds when the server has started. *)
LEMMA InvInit == SMInit => SMInv
  BY SessionAssumption
  DEF SMInit, SMInv, TypeOK, HandlerValues, PcValues, Roles, TargetsOwned,
      HandlersOwned, TodoRegistered, TimersArmed, NoClosedChannelInUse,
      NoOrphanPoll, SessionIffTarget, PendingTimerIsCurrent, HasSession

(* Every critical section and every step of a goroutine keeps it. *)
LEMMA InvStep == SMInv /\ [SMNext]_smVars => SMInv'
<1> SUFFICES ASSUME SMInv, [SMNext]_smVars PROVE SMInv'
  BY Zenon
<1>t. TypeOK'
  BY TypeStep, Zenon DEF SMInv
<1> USE SessionAssumption, <1>t
    DEF TypeOK, HandlerValues, PcValues, Roles, SMInv, TargetsOwned,
        HandlersOwned, TodoRegistered, TimersArmed, NoClosedChannelInUse,
        NoOrphanPoll, SessionIffTarget, PendingTimerIsCurrent, HasSession
<1>1. ASSUME NEW c \in Chans, NEW m \in Machines, NEW p \in Procs,
             Register(m, c, p)
      PROVE  SMInv'
  <2> USE <1>1 DEF Register, RestartTimer, Fresh, WriteLockFree
  <2>1. TargetsOwned'
    OBVIOUS
  <2>2. HandlersOwned'
    OBVIOUS
  <2>3. TodoRegistered'
    OBVIOUS
  <2>4. TimersArmed'
    OBVIOUS
  <2>5. NoClosedChannelInUse'
    OBVIOUS
  <2>6. NoOrphanPoll'
    OBVIOUS
  <2>7. SessionIffTarget'
    OBVIOUS
  <2>8. PendingTimerIsCurrent'
    OBVIOUS
  <2> QED
    BY <2>1, <2>2, <2>3, <2>4, <2>5, <2>6, <2>7, <2>8, Zenon
<1>2. ASSUME NEW c \in Chans, DeregisterSuperseded(c)
      PROVE  SMInv'
  BY <1>2 DEF DeregisterSuperseded, procVars
<1>3. ASSUME NEW c \in Chans, NEW p \in Procs, DeregisterCurrent(c, p)
      PROVE  SMInv'
  <2> USE <1>3 DEF DeregisterCurrent, RestartTimer, WriteLockFree
  <2>1. TargetsOwned'
    OBVIOUS
  <2>2. HandlersOwned'
    OBVIOUS
  <2>3. TodoRegistered'
    OBVIOUS
  <2>4. TimersArmed'
    OBVIOUS
  <2>5. NoClosedChannelInUse'
    OBVIOUS
  <2>6. NoOrphanPoll'
    OBVIOUS
  <2>7. SessionIffTarget'
    OBVIOUS
  <2>8. PendingTimerIsCurrent'
    OBVIOUS
  <2> QED
    BY <2>1, <2>2, <2>3, <2>4, <2>5, <2>6, <2>7, <2>8, Zenon
<1>4. ASSUME NEW c \in Chans, EnterLoop(c) \/ Abandon(c)
      PROVE  SMInv'
  BY <1>4 DEF EnterLoop, Abandon, procVars
<1>5. ASSUME NEW c \in Chans, Receive(c)
      PROVE  SMInv'
  BY <1>5 DEF Receive, procVars
<1>6. ASSUME NEW p \in Procs, Fire(p)
      PROVE  SMInv'
  BY <1>6 DEF Fire, chanVars
<1>7. ASSUME NEW p \in Procs, CheckSession(p)
      PROVE  SMInv'
  BY <1>7 DEF CheckSession, Finish, chanVars
<1>8. ASSUME NEW p \in Procs, CallNotifyAll(p)
      PROVE  SMInv'
  BY <1>8 DEF CallNotifyAll, chanVars
<1>9. ASSUME NEW p \in Procs, NotifyAllBegin(p)
      PROVE  SMInv'
  BY <1>9 DEF NotifyAllBegin, chanVars
<1>10. ASSUME NEW p \in Procs, NEW c \in Chans, NotifyAllSend(p, c)
       PROVE  SMInv'
  BY <1>10 DEF NotifyAllSend
<1>11. ASSUME NEW p \in Procs, NotifyAllEnd(p)
       PROVE  SMInv'
  BY <1>11 DEF NotifyAllEnd, Finish, chanVars
<1>12. CASE UNCHANGED smVars
  BY <1>12 DEF smVars, chanVars, procVars
<1> HIDE SessionAssumption, <1>t
    DEF TypeOK, HandlerValues, PcValues, Roles, SMInv, TargetsOwned,
        HandlersOwned, TodoRegistered, TimersArmed, NoClosedChannelInUse,
        NoOrphanPoll, SessionIffTarget, PendingTimerIsCurrent, HasSession
<1> QED
  BY <1>1, <1>2, <1>3, <1>4, <1>5, <1>6, <1>7, <1>8, <1>9, <1>10, <1>11, <1>12, Zenon
  DEF SMNext, HandlerNext, ProcNext

(* The inductive invariant holds throughout. *)
LEMMA Inductive == SMSpec => []SMInv
  BY InvInit, InvStep, PTL DEF SMSpec

(* No channel is closed twice and no ping is sent on a closed channel,     *)
(* whatever Register, Deregister, NotifyAll and the timer goroutines do:   *)
(* the RWMutex keeps what NotifyAll ranges over registered, and what is    *)
(* registered is open.                                                     *)
THEOREM ChannelsSafe == SMSpec => []NoClosedChannelInUse
  BY Inductive, PTL DEF SMInv

(* Every running poll handler is reached by NotifyAll or has had its       *)
(* channel closed.                                                         *)
THEOREM NoPollForgotten == SMSpec => []NoOrphanPoll
  BY Inductive, PTL DEF SMInv

(* HasSession agrees with the registered channels, and a pending timer was *)
(* started for the state its machine is in.                                *)
THEOREM PresenceConsistent ==
    SMSpec => [](SessionIffTarget /\ PendingTimerIsCurrent)
  BY Inductive, PTL DEF SMInv

(* A session ends only by its own handler's Deregister. *)
THEOREM OwnSessionOnly == SMSpec => OnlyOwnSessionEnds
<1> DEFINE EndsOwn ==
      \A m \in Machines : targets[m] # NoChan /\ targets'[m] = NoChan =>
        /\ handler[targets[m]] = "looping"
        /\ handler'[targets[m]] = "none"
        /\ owner[targets[m]] = m
<1>1. SMInv /\ [SMNext]_smVars => [EndsOwn]_smVars
  <2> SUFFICES ASSUME SMInv, SMNext PROVE EndsOwn
    BY Zenon DEF EndsOwn
  <2> USE SessionAssumption DEF SMInv, TypeOK, TargetsOwned
  <2>1. ASSUME NEW c \in Chans, NEW m \in Machines, NEW p \in Procs,
               Register(m, c, p)
        PROVE  EndsOwn
    BY <2>1, Zenon DEF Register
  <2>2. ASSUME NEW c \in Chans, NEW p \in Procs, DeregisterCurrent(c, p)
        PROVE  EndsOwn
    BY <2>2, Zenon DEF DeregisterCurrent, HandlersOwned
  <2>3. ASSUME UNCHANGED targets
        PROVE  EndsOwn
    BY <2>3, Zenon
  <2> QED
    BY <2>1, <2>2, <2>3, Zenon
    DEF SMNext, HandlerNext, ProcNext, DeregisterSuperseded, EnterLoop, Abandon,
        Receive, Fire, CheckSession, CallNotifyAll, NotifyAllBegin,
        NotifyAllSend, NotifyAllEnd
<1> QED
  BY <1>1, Inductive, PTL DEF SMSpec, OnlyOwnSessionEnds

----------------------------------------------------------------------------
(* The refinement: initial states map to initial states, and every step    *)
(* maps to a step of the table or to a stuttering step.                    *)
LEMMA RefinesInit == SMInit => Table!Init
  BY DEF SMInit, Table!Init

(* Every step of the session manager is one of the table, or none. *)
LEMMA RefinesStep ==
    SMInv /\ [SMNext]_smVars => [Table!Next]_(Table!tableVars)
<1> SUFFICES ASSUME SMInv, [SMNext]_smVars PROVE [Table!Next]_(Table!tableVars)
  BY Zenon
<1> USE SessionAssumption DEF SMInv, TypeOK, Table!tableVars
<1>1. ASSUME NEW c \in Chans, NEW m \in Machines, NEW p \in Procs,
             Register(m, c, p)
      PROVE  Table!Open(m, c)
  BY <1>1 DEF Register, Fresh, Table!Open
<1>2. ASSUME NEW c \in Chans, DeregisterSuperseded(c) \/ Abandon(c)
      PROVE  Table!Leave(c)
  BY <1>2, Zenon DEF DeregisterSuperseded, Abandon, Table!Leave
<1>3. ASSUME NEW c \in Chans, NEW p \in Procs, DeregisterCurrent(c, p)
      PROVE  \/ owner[c] \in Machines /\ Table!Close(owner[c], c)
             \/ Table!Leave(c)
  BY <1>3, Zenon DEF DeregisterCurrent, HandlersOwned, Table!Close, Table!Leave
<1>4. ASSUME NEW c \in Chans, EnterLoop(c)
      PROVE  UNCHANGED Table!tableVars
  BY <1>4, Zenon DEF EnterLoop
<1>5. ASSUME NEW c \in Chans, Receive(c)
      PROVE  Table!Take(c) \/ UNCHANGED Table!tableVars
  BY <1>5, Zenon DEF Receive, Table!Take
<1>6. ASSUME NEW p \in Procs, NEW c \in Chans, NotifyAllSend(p, c)
      PROVE  \E m \in Machines : Table!Ping(m)
  BY <1>6 DEF NotifyAllSend, TodoRegistered, NoClosedChannelInUse, Table!Ping
<1>7. ASSUME UNCHANGED <<targets, chanVars>>
      PROVE  UNCHANGED Table!tableVars
  BY <1>7, Zenon DEF chanVars
<1>8. CASE HandlerNext
  <2>1. PICK c \in Chans :
          \/ \E m \in Machines, p \in Procs : Register(m, c, p)
          \/ DeregisterSuperseded(c)
          \/ \E p \in Procs : DeregisterCurrent(c, p)
          \/ EnterLoop(c) \/ Abandon(c) \/ Receive(c)
    BY <1>8, Zenon DEF HandlerNext
  <2> QED
    BY <2>1, <1>1, <1>2, <1>3, <1>4, <1>5, Zenon DEF Table!Next
<1>9. CASE ProcNext
  <2>1. (\E p \in Procs, c \in Chans : NotifyAllSend(p, c))
          \/ UNCHANGED <<targets, chanVars>>
    BY <1>9, Zenon
    DEF ProcNext, Fire, CheckSession, CallNotifyAll, NotifyAllBegin, NotifyAllEnd
  <2> QED
    BY <2>1, <1>6, <1>7, Zenon DEF Table!Next
<1>10. CASE UNCHANGED smVars
  BY <1>10, <1>7, Zenon DEF smVars
<1> QED
  BY <1>8, <1>9, <1>10, Zenon DEF SMNext

(* The session manager implements the session table, for any number of     *)
(* machines, handlers and goroutines.                                      *)
THEOREM Refinement == SMSpec => ImplementsSessionTable
  BY RefinesInit, RefinesStep, Inductive, PTL
  DEF SMSpec, ImplementsSessionTable, Table!Spec

----------------------------------------------------------------------------
(* NetMap *)

(* What a row holds, and what a map tells of a machine. *)
Rows == [status : {"unborn", "live", "deleted"}, authorized : BOOLEAN,
         expiryDisabled : BOOLEAN, expiresAt : Nat]
Told == {"hidden", "offline", "online"}
Stages == {"none", "mapping", "mapped", "looping", "syncing"}

(* Rows, clocks and maps have their shape; no window of the sweeper ends   *)
(* in the future; no map tells a client of itself.                         *)
NMShape ==
    /\ row \in [Machines -> Rows]
    /\ clock \in Nat /\ prev \in Nat /\ prev < clock
    /\ stage \in [Chans -> Stages]
    /\ DOMAIN snap = Chans
    /\ map \in [Chans -> [Machines -> Told]]
    /\ DOMAIN shouldUpdate = Chans
    /\ DOMAIN excused = Chans
    /\ \A c \in Chans : map[c][PollerOf[c]] = "hidden"

(* A handler's stage fits what the session manager knows of its channel: a *)
(* poll makes its first map before it registers, on a channel that is its  *)
(* own, and a handler that builds another map has been asked to.           *)
StageFits(c) ==
    /\ owner[c] \in {NoMachine, PollerOf[c]}
    /\ handler[c] = "starting" => stage[c] = "mapped"
    /\ handler[c] = "looping" <=> stage[c] \in {"looping", "syncing"}
    /\ stage[c] \in {"mapping", "mapped"} /\ handler[c] = "none" => Fresh(c)
    /\ stage[c] = "syncing" => shouldUpdate[c]

StagesFit == \A c \in Chans : StageFits(c)

(* A goroutine that is free to stand for another calls for no machine. *)
IdleIsCaller == \A p \in Procs : pc[p] = "idle" => role[p] = "caller"

(* A poll that no NotifyAll has missed so far. *)
Watched(c) ==
    /\ stage[c] # "none"
    /\ excused[c] = {}
    /\ Live(PollerOf[c])
    /\ handler[c] = "none" \/ targets[PollerOf[c]] = c

(* A NotifyAll that does not ignore c's machine is about to begin. *)
Called(c) == \E p \in Procs : pc[p] = "calling" /\ PollerOf[c] \notin Ignored(p)

(* A ping for c is in its buffer or on its way there. *)
Announced(c) ==
    \/ handler[c] # "none" /\ buf[c] > 0
    \/ \E p \in Procs : c \in todo[p]
    \/ Called(c)

(* A goroutine will announce the state that machine n's session is in. *)
TimerOwed(c, n) ==
    \E p \in Procs :
        /\ PollerOf[c] \notin Ignored(p)
        /\ pc[p] \in {"armed", "woken"}
        /\ about[p] = n
        /\ HasSession(n) <=> role[p] = "connect"

(* The sweeper has still to see that n's key has expired. *)
SweepOwed(n) == Live(n) /\ IsExpired(row[n]) /\ row[n].expiresAt > prev

(* What a client polling on c would be told of n if it asked now. *)
ToldNow(c, n) == Peers(PollerOf[c], Snapshot(PollerOf[c]))[n]

(* What a handler has read before it builds a map is still so, or it will  *)
(* have to build another one.                                              *)
SnapOK(c) ==
    \/ snap[c] = Snapshot(PollerOf[c])
    \/ Announced(c)
    \/ SweepOwed(PollerOf[c])

(* So is every entry of the last map.  An entry's excuse is of the machine *)
(* it tells of: the timer of another machine, which may be stopped, is     *)
(* none.                                                                   *)
MapOK(c) ==
    \/ Announced(c)
    \/ shouldUpdate[c]
    \/ SweepOwed(PollerOf[c])
    \/ \A n \in Machines \ {PollerOf[c]} :
        map[c][n] = ToldNow(c, n) \/ TimerOwed(c, n) \/ SweepOwed(n)

WatchOK(c) ==
    Watched(c) =>
        /\ stage[c] \in {"mapping", "syncing"} => SnapOK(c)
        /\ stage[c] \in {"mapped", "looping"} => MapOK(c)

Watch == \A c \in Chans : WatchOK(c)

(* The inductive invariant. *)
NMInv == SMInv /\ NMShape /\ StagesFit /\ IdleIsCaller /\ Watch

----------------------------------------------------------------------------
(* Every step of the composition is one of the session manager, or changes *)
(* none of its variables.                                                  *)
LEMMA SessionsRun == [NMNext]_nmVars => [SMNext]_smVars
<1> SUFFICES ASSUME [NMNext]_nmVars PROVE [SMNext]_smVars
  BY Zenon
<1>1. ASSUME NEW c \in Chans, NEW p \in Procs, RegisterPoll(c, p)
      PROVE  SMNext
  <2>1. PollerOf[c] \in Machines
    BY NetMapAssumption, Zenon
  <2> QED
    BY <1>1, <2>1, Zenon DEF RegisterPoll, SMNext, HandlerNext
<1>2. ASSUME NEW c \in Chans,
             WriteFirstMap(c) \/ FailFirstWrite(c) \/ ReceivePing(c) \/ LeavePoll(c)
      PROVE  SMNext
  BY <1>2, Zenon
  DEF WriteFirstMap, FailFirstWrite, ReceivePing, LeavePoll, SMNext, HandlerNext
<1>3. ASSUME NEW c \in Chans,
             \/ StartPoll(c) \/ FailFirstMap(c) \/ BuildFirstMap(c)
             \/ BeginSync(c) \/ EndSync(c)
      PROVE  UNCHANGED smVars
  BY <1>3, Zenon DEF StartPoll, FailFirstMap, BuildFirstMap, BeginSync, EndSync
<1>4. ASSUME NEW p \in Procs, BeginNotify(p) \/ ProcStep(p)
      PROVE  SMNext
  BY <1>4, Zenon DEF BeginNotify, ProcStep, SMNext, ProcNext
<1>5. CASE AdminStep
  <2>1. (\E p \in Procs : CallNotifyAll(p)) \/ UNCHANGED smVars
    BY <1>5, Zenon
    DEF AdminStep, AuthorizeMachine, ExpireMachine, SetMachineKeyExpiry, Logout,
        DeleteMachine, ReportEndpoints, SaveMachineAndNotify, UpdateTailnet,
        SetMachineAuthorization, RegisterMachine
  <2> QED
    BY <2>1, Zenon DEF SMNext, ProcNext
<1>6. CASE SweepStep \/ (\E to \in SweepTicks : SweepFails(to)) \/ Tick
  <2>1. (\E p \in Procs : CallNotifyAll(p)) \/ UNCHANGED smVars
    BY <1>6, Zenon DEF SweepStep, SweepAndNotify, SweepNothing, SweepFails, Tick
  <2> QED
    BY <2>1, Zenon DEF SMNext, ProcNext
<1>7. CASE UNCHANGED nmVars
  BY <1>7, Zenon DEF nmVars
<1> QED
  BY <1>1, <1>2, <1>3, <1>4, <1>5, <1>6, <1>7, Zenon DEF NMNext, PollStep

----------------------------------------------------------------------------
(* A map tells of every machine but the client's own. *)
LEMMA PeersShape ==
    ASSUME NEW m \in Machines, NEW s
    PROVE  Peers(m, s) \in [Machines -> Told] /\ Peers(m, s)[m] = "hidden"
  BY Zenon DEF Peers, Told

(* A handler's step keeps rows, clocks and maps in shape. *)
LEMMA PollShape ==
    ASSUME NMShape, UNCHANGED <<row, clock, prev>>, NEW c \in Chans,
           \/ map' = map
           \/ map' = [map EXCEPT ![c] = Nothing]
           \/ \E s : map' = [map EXCEPT ![c] = Peers(PollerOf[c], s)],
           stage' \in [Chans -> Stages], DOMAIN snap' = Chans,
           DOMAIN shouldUpdate' = Chans, DOMAIN excused' = Chans
    PROVE  NMShape'
<1>1. PollerOf \in [Chans -> Machines]
  BY NetMapAssumption, Zenon
<1>2. Nothing \in [Machines -> Told] /\ Nothing[PollerOf[c]] = "hidden"
  BY <1>1, Zenon DEF Nothing, Told
<1>3. \A s : /\ Peers(PollerOf[c], s) \in [Machines -> Told]
             /\ Peers(PollerOf[c], s)[PollerOf[c]] = "hidden"
  BY <1>1, PeersShape, Zenon
<1>4. /\ map' \in [Chans -> [Machines -> Told]]
      /\ \A d \in Chans : map'[d][PollerOf[d]] = "hidden"
  <2>1. CASE map' = map
    BY <2>1, Zenon DEF NMShape
  <2>2. ASSUME NEW e \in [Machines -> Told], e[PollerOf[c]] = "hidden",
               map' = [map EXCEPT ![c] = e]
        PROVE  /\ map' \in [Chans -> [Machines -> Told]]
               /\ \A d \in Chans : map'[d][PollerOf[d]] = "hidden"
    BY <2>2, Zenon DEF NMShape
  <2> QED
    BY <2>1, <2>2, <1>2, <1>3, Zenon
<1> QED
  BY <1>4, Zenon DEF NMShape

(* So does every change of a row to one of the same shape. *)
LEMMA RowShape ==
    ASSUME NMShape, UNCHANGED <<clock, prev, stage, snap, map, shouldUpdate>>,
           DOMAIN excused' = Chans, NEW m \in Machines, NEW r \in Rows,
           row' = row \/ row' = [row EXCEPT ![m] = r]
    PROVE  NMShape'
<1>1. row' \in [Machines -> Rows]
  BY Zenon DEF NMShape
<1> QED
  BY <1>1, Zenon DEF NMShape

(* Every step keeps rows, clocks and maps in shape. *)
LEMMA ShapeStep == NMShape /\ [NMNext]_nmVars => NMShape'
<1> SUFFICES ASSUME NMShape, [NMNext]_nmVars PROVE NMShape'
  BY Zenon
<1>0. /\ stage \in [Chans -> Stages] /\ DOMAIN snap = Chans
      /\ DOMAIN shouldUpdate = Chans /\ DOMAIN excused = Chans
  BY Zenon DEF NMShape
<1>1. ASSUME NEW c \in Chans,
             \/ StartPoll(c) \/ FailFirstMap(c) \/ FailFirstWrite(c)
             \/ PollStep(c) \/ LeavePoll(c)
      PROVE  NMShape'
  <2>1. UNCHANGED <<row, clock, prev>>
    BY <1>1, Zenon
    DEF StartPoll, FailFirstMap, FailFirstWrite, PollStep, LeavePoll,
        BuildFirstMap, RegisterPoll, WriteFirstMap, ReceivePing, BeginSync,
        EndSync, dbVars, timeVars
  <2>2. \/ map' = map
        \/ map' = [map EXCEPT ![c] = Nothing]
        \/ map' = [map EXCEPT ![c] = Peers(PollerOf[c], snap[c])]
    BY <1>1, Zenon
    DEF StartPoll, FailFirstMap, FailFirstWrite, PollStep, LeavePoll,
        BuildFirstMap, RegisterPoll, WriteFirstMap, ReceivePing, BeginSync,
        EndSync, EndPoll, pollVars
  <2>0. /\ "none" \in Stages /\ "mapping" \in Stages /\ "mapped" \in Stages
        /\ "looping" \in Stages /\ "syncing" \in Stages
    BY Zenon DEF Stages
  <2>3. /\ stage' = stage \/ \E v \in Stages : stage' = [stage EXCEPT ![c] = v]
        /\ snap' = snap \/ \E v : snap' = [snap EXCEPT ![c] = v]
        /\ shouldUpdate' = shouldUpdate
             \/ \E v : shouldUpdate' = [shouldUpdate EXCEPT ![c] = v]
        /\ excused' = excused \/ \E v : excused' = [excused EXCEPT ![c] = v]
    BY <1>1, <2>0, Zenon
    DEF StartPoll, FailFirstMap, FailFirstWrite, PollStep, LeavePoll,
        BuildFirstMap, RegisterPoll, WriteFirstMap, ReceivePing, BeginSync,
        EndSync, EndPoll, pollVars
  <2>4. /\ stage' \in [Chans -> Stages] /\ DOMAIN snap' = Chans
        /\ DOMAIN shouldUpdate' = Chans /\ DOMAIN excused' = Chans
    BY <2>3, <1>0, Zenon
  <2> QED
    BY <2>1, <2>2, <2>4, PollShape, Zenon
<1>2. ASSUME NEW p \in Procs, BeginNotify(p) \/ ProcStep(p)
      PROVE  NMShape'
  <2>1. UNCHANGED <<row, clock, prev, stage, snap, map, shouldUpdate>>
    BY <1>2, Zenon DEF BeginNotify, ProcStep, dbVars, timeVars, pollVars
  <2>2. DOMAIN excused' = Chans
    BY <1>2, <1>0, Zenon DEF BeginNotify, ProcStep
  <2> QED
    BY <2>1, <2>2, Zenon DEF NMShape
<1>3. CASE AdminStep
  <2>1. ASSUME NEW m \in Machines, NEW r \in Rows, NEW p \in Procs,
               SaveMachineAndNotify(m, r, p)
        PROVE  NMShape'
    <3>1. /\ UNCHANGED <<clock, prev, stage, snap, map, shouldUpdate, excused>>
          /\ row' = [row EXCEPT ![m] = r]
      BY <2>1, Zenon DEF SaveMachineAndNotify, timeVars, pollVars
    <3> QED
      BY <3>1, <1>0, RowShape, Zenon
  <2>2. ASSUME NEW m \in Machines, NEW p \in Procs,
               \/ AuthorizeMachine(m, p) \/ ExpireMachine(m, p)
               \/ \E disabled \in BOOLEAN : SetMachineKeyExpiry(m, disabled, p)
               \/ \E ephemeral \in BOOLEAN : Logout(m, ephemeral, p)
               \/ DeleteMachine(m, p) \/ ReportEndpoints(m, p)
        PROVE  NMShape'
    <3>1. row[m] \in Rows
      BY Zenon DEF NMShape
    <3>2. /\ [row[m] EXCEPT !.authorized = TRUE] \in Rows
          /\ [row[m] EXCEPT !.expiresAt = 0, !.expiryDisabled = FALSE] \in Rows
          /\ \A disabled \in BOOLEAN : [row[m] EXCEPT !.expiryDisabled = disabled] \in Rows
          /\ [row[m] EXCEPT !.status = "deleted"] \in Rows
          /\ [row[m] EXCEPT !.expiresAt = 0] \in Rows
      BY <3>1, Zenon DEF Rows
    <3>3. \E r \in Rows : SaveMachineAndNotify(m, r, p)
      BY <2>2, <3>1, <3>2, Zenon
      DEF AuthorizeMachine, ExpireMachine, SetMachineKeyExpiry, Logout,
          DeleteMachine, ReportEndpoints
    <3> QED
      BY <3>3, <2>1, Zenon
  <2>3. ASSUME NEW required \in BOOLEAN,
               \/ \E p \in Procs : UpdateTailnet(required, p)
               \/ SetMachineAuthorization(required)
        PROVE  NMShape'
    <3>1. UNCHANGED <<row, clock, prev, stage, snap, map, shouldUpdate>>
      BY <2>3, Zenon DEF UpdateTailnet, SetMachineAuthorization, timeVars, pollVars
    <3>2. DOMAIN excused' = Chans
      BY <2>3, <1>0, Zenon DEF UpdateTailnet, SetMachineAuthorization, Unannounced
    <3> QED
      BY <3>1, <3>2, Zenon DEF NMShape
  <2>4. ASSUME NEW m \in Machines, NEW preAuthorized \in BOOLEAN,
               NEW tagged \in BOOLEAN, NEW expiry \in 0 .. MaxClock,
               RegisterMachine(m, preAuthorized, tagged, expiry)
        PROVE  NMShape'
    <3>1. row[m] \in Rows /\ MaxClock \in Nat
      BY NetMapAssumption, Zenon DEF NMShape
    <3>a. expiry \in Nat
      BY <3>1, SMT
    <3>2. PICK r : /\ row' = [row EXCEPT ![m] = r]
                   /\ r = IF row[m].status = "live"
                            THEN [row[m] EXCEPT !.expiresAt = MaxClock]
                            ELSE [status |-> "live",
                                  authorized |-> ~authRequired \/ preAuthorized,
                                  expiryDisabled |-> tagged,
                                  expiresAt |-> expiry]
      BY <2>4, <1>0, Zenon DEF RegisterMachine
    <3>3. r \in Rows
      BY <3>1, <3>a, <3>2, Zenon DEF Rows
    <3>4. /\ UNCHANGED <<clock, prev, stage, snap, map, shouldUpdate>>
          /\ DOMAIN excused' = Chans
      BY <2>4, Zenon DEF RegisterMachine, Unannounced, timeVars, pollVars
    <3> QED
      BY <3>2, <3>3, <3>4, RowShape, Zenon
  <2> QED
    BY <1>3, <2>2, <2>3, <2>4, Zenon DEF AdminStep
<1>4. CASE SweepStep \/ (\E to \in SweepTicks : SweepFails(to)) \/ Tick
  <2>1. UNCHANGED <<row, stage, snap, map, shouldUpdate>> /\ DOMAIN excused' = Chans
    BY <1>4, <1>0, Zenon
    DEF SweepStep, SweepAndNotify, SweepNothing, SweepFails, Tick, Unannounced,
        dbVars, pollVars
  <2>2. \/ clock' = clock /\ \E to \in SweepTicks : prev' = to
        \/ clock' = clock + 1 /\ prev' = prev
    BY <1>4, Zenon DEF SweepStep, SweepAndNotify, SweepNothing, SweepFails, Tick
  <2>3. clock \in Nat /\ prev \in Nat /\ prev < clock
    BY Zenon DEF NMShape
  <2>4. clock' \in Nat /\ prev' \in Nat /\ prev' < clock'
    BY <2>2, <2>3 DEF SweepTicks
  <2> QED
    BY <2>1, <2>4, Zenon DEF NMShape
<1>5. CASE UNCHANGED nmVars
  BY <1>5, Zenon DEF nmVars, NMShape, dbVars, timeVars, pollVars
<1> QED
  BY <1>1, <1>2, <1>3, <1>4, <1>5, Zenon DEF NMNext

----------------------------------------------------------------------------
(* A goroutine that returns, or whose timer is stopped, is the next one's. *)
LEMMA IdleStep == SMInv /\ IdleIsCaller /\ [SMNext]_smVars => IdleIsCaller'
<1> SUFFICES ASSUME SMInv, IdleIsCaller, [SMNext]_smVars PROVE IdleIsCaller'
  BY Zenon
<1>0. /\ DOMAIN pc = Procs /\ DOMAIN role = Procs
      /\ \A p \in Procs : pc[p] = "idle" => role[p] = "caller"
  BY Zenon DEF SMInv, TypeOK, IdleIsCaller
<1>1. ASSUME NEW m, NEW q, NEW why, RestartTimer(m, q, why)
      PROVE  IdleIsCaller'
  BY <1>0, <1>1, Zenon DEF RestartTimer, IdleIsCaller
<1>2. ASSUME NEW p \in Procs, Finish(p)
      PROVE  IdleIsCaller'
  BY <1>0, <1>2, Zenon DEF Finish, IdleIsCaller
<1>3. ASSUME NEW p \in Procs, NEW v, v # "idle", pc' = [pc EXCEPT ![p] = v],
             role' = role
      PROVE  IdleIsCaller'
  BY <1>0, <1>3, Zenon DEF IdleIsCaller
<1>4. ASSUME UNCHANGED <<pc, role>>
      PROVE  IdleIsCaller'
  BY <1>0, <1>4, Zenon DEF IdleIsCaller
<1>5. CASE HandlerNext
  BY <1>1, <1>4, <1>5, Zenon
  DEF HandlerNext, Register, DeregisterSuperseded, DeregisterCurrent, EnterLoop,
      Abandon, Receive, procVars
<1>6. CASE ProcNext
  BY <1>2, <1>3, <1>4, <1>6, Zenon
  DEF ProcNext, Fire, CheckSession, CallNotifyAll, NotifyAllBegin, NotifyAllSend,
      NotifyAllEnd
<1>7. CASE UNCHANGED smVars
  BY <1>4, <1>7, Zenon DEF smVars, procVars
<1> QED
  BY <1>5, <1>6, <1>7, Zenon DEF SMNext

(* A step that leaves a channel and its handler alone, and registers no    *)
(* channel but those that are in use, keeps the handler's stage fitting.   *)
LEMMA OtherFits ==
    ASSUME StagesFit, NEW c \in Chans, StageFits(c),
           owner'[c] = owner[c], handler'[c] = handler[c],
           stage'[c] = stage[c], shouldUpdate'[c] = shouldUpdate[c],
           \A m \in Machines : targets[m] # c => targets'[m] # c
    PROVE  StageFits(c)'
  BY Zenon DEF StageFits, Fresh

(* Every step keeps stages and handlers fitting. *)
LEMMA FitStep ==
    SMInv /\ NMShape /\ StagesFit /\ [NMNext]_nmVars => StagesFit'
<1> SUFFICES ASSUME SMInv, NMShape, StagesFit, [NMNext]_nmVars PROVE StagesFit'
  BY Zenon
<1>0. /\ DOMAIN stage = Chans /\ DOMAIN shouldUpdate = Chans
      /\ DOMAIN owner = Chans /\ DOMAIN handler = Chans /\ DOMAIN targets = Machines
      /\ PollerOf \in [Chans -> Machines]
      /\ \A c \in Chans : handler[c] \in {"none", "starting", "looping"}
      /\ NoChan \notin Chans
  BY NetMapAssumption, SessionAssumption, Zenon
  DEF NMShape, SMInv, TypeOK, HandlerValues
<1>1. ASSUME UNCHANGED <<owner, handler, targets, stage>>,
             \A c \in Chans : shouldUpdate[c] => shouldUpdate'[c]
      PROVE  StagesFit'
  BY <1>1, Zenon DEF StagesFit, StageFits, Fresh
<1>2. ASSUME NEW c \in Chans, UNCHANGED <<owner, handler, targets>>,
             NEW v \in {"mapping", "mapped", "looping", "syncing", "none"},
             stage' = [stage EXCEPT ![c] = v],
             \A d \in Chans \ {c} : shouldUpdate'[d] = shouldUpdate[d],
             handler[c] = "looping" <=> v \in {"looping", "syncing"},
             handler[c] = "starting" => v = "mapped",
             v \in {"mapping", "mapped"} /\ handler[c] = "none" => Fresh(c),
             v = "syncing" => shouldUpdate'[c]
      PROVE  StagesFit'
  <2> SUFFICES ASSUME NEW d \in Chans PROVE StageFits(d)'
    BY Zenon DEF StagesFit
  <2>1. CASE d = c
    BY <1>0, <1>2, <2>1, Zenon DEF StagesFit, StageFits, Fresh
  <2>2. CASE d # c
    BY <1>0, <1>2, <2>2, Zenon DEF StagesFit, StageFits, Fresh
  <2> QED
    BY <2>1, <2>2, Zenon
<1>3. ASSUME NEW c \in Chans,
             \/ StartPoll(c) \/ BuildFirstMap(c) \/ BeginSync(c) \/ EndSync(c)
      PROVE  StagesFit'
  <2>1. UNCHANGED <<owner, handler, targets>>
    BY <1>3, Zenon
    DEF StartPoll, BuildFirstMap, BeginSync, EndSync, smVars, chanVars
  <2>2. StageFits(c)
    BY Zenon DEF StagesFit
  <2>3. CASE StartPoll(c)
    BY <2>1, <2>3, <1>2, Zenon DEF StartPoll, Fresh
  <2>4. CASE BuildFirstMap(c)
    BY <1>0, <2>1, <2>2, <2>4, <1>2, Zenon DEF BuildFirstMap, StageFits
  <2>5. CASE BeginSync(c)
    BY <1>0, <2>1, <2>2, <2>5, <1>2, Zenon DEF BeginSync, StageFits
  <2>6. CASE EndSync(c)
    <3>1. \A d \in Chans \ {c} : shouldUpdate'[d] = shouldUpdate[d]
      BY <1>0, <2>6, Zenon DEF EndSync
    <3> QED
      BY <1>0, <2>1, <2>2, <2>6, <3>1, <1>2, Zenon DEF EndSync, StageFits
  <2> QED
    BY <1>3, <2>3, <2>4, <2>5, <2>6, Zenon
<1>4. ASSUME NEW c \in Chans, EndPoll(c), owner' = owner,
             handler' = [handler EXCEPT ![c] = "none"],
             \A m \in Machines, d \in Chans : targets[m] # d => targets'[m] # d
      PROVE  StagesFit'
  <2> SUFFICES ASSUME NEW d \in Chans PROVE StageFits(d)'
    BY Zenon DEF StagesFit
  <2>1. CASE d = c
    BY <1>0, <1>4, <2>1, Zenon DEF StagesFit, StageFits, EndPoll
  <2>2. CASE d # c
    BY <1>0, <1>4, <2>2, OtherFits, Zenon DEF StagesFit, EndPoll
  <2> QED
    BY <2>1, <2>2, Zenon
<1>5. ASSUME NEW c \in Chans, FailFirstMap(c) \/ FailFirstWrite(c) \/ LeavePoll(c)
      PROVE  StagesFit'
  <2>1. EndPoll(c) /\ owner' = owner
    BY <1>5, Zenon
    DEF FailFirstMap, FailFirstWrite, LeavePoll, Abandon, DeregisterSuperseded,
        DeregisterCurrent, smVars, chanVars
  <2>2. handler' = [handler EXCEPT ![c] = "none"]
    <3>1. CASE FailFirstMap(c)
      <4>1. handler \in [Chans -> HandlerValues] /\ handler[c] = "none" /\ handler' = handler
        BY <3>1, Zenon DEF FailFirstMap, SMInv, TypeOK, smVars, chanVars
      <4> QED
        BY <4>1, Zenon
    <3> QED
      BY <1>5, <3>1, Zenon
      DEF FailFirstWrite, LeavePoll, Abandon, DeregisterSuperseded,
          DeregisterCurrent
  <2>3. targets' = targets \/ \E m : targets' = [targets EXCEPT ![m] = NoChan]
    BY <1>5, Zenon
    DEF FailFirstMap, FailFirstWrite, LeavePoll, Abandon, DeregisterSuperseded,
        DeregisterCurrent, smVars
  <2>4. \A m \in Machines, d \in Chans : targets[m] # d => targets'[m] # d
    BY <1>0, <2>3, Zenon
  <2> QED
    BY <2>1, <2>2, <2>4, <1>4, Zenon
<1>6. ASSUME NEW c \in Chans, NEW p \in Procs, RegisterPoll(c, p)
      PROVE  StagesFit'
  <2>1. /\ owner' = [owner EXCEPT ![c] = PollerOf[c]]
        /\ handler' = [handler EXCEPT ![c] = "starting"]
        /\ targets' = [targets EXCEPT ![PollerOf[c]] = c]
        /\ stage' = stage /\ shouldUpdate' = shouldUpdate
        /\ stage[c] = "mapped"
    BY <1>6, Zenon DEF RegisterPoll, Register, pollVars
  <2> SUFFICES ASSUME NEW d \in Chans PROVE StageFits(d)'
    BY Zenon DEF StagesFit
  <2>2. CASE d = c
    BY <1>0, <2>1, <2>2, Zenon DEF StageFits
  <2>3. CASE d # c
    BY <1>0, <2>1, <2>3, OtherFits, Zenon DEF StagesFit
  <2> QED
    BY <2>2, <2>3, Zenon
<1>7. ASSUME NEW c \in Chans, WriteFirstMap(c)
      PROVE  StagesFit'
  <2>1. /\ handler' = [handler EXCEPT ![c] = "looping"]
        /\ stage' = [stage EXCEPT ![c] = "looping"]
        /\ UNCHANGED <<owner, targets, shouldUpdate>>
    BY <1>7, Zenon DEF WriteFirstMap, EnterLoop
  <2> SUFFICES ASSUME NEW d \in Chans PROVE StageFits(d)'
    BY Zenon DEF StagesFit
  <2>2. CASE d = c
    BY <1>0, <2>1, <2>2, Zenon DEF StageFits, StagesFit
  <2>3. CASE d # c
    BY <1>0, <2>1, <2>3, OtherFits, Zenon DEF StagesFit
  <2> QED
    BY <2>2, <2>3, Zenon
<1>8. ASSUME NEW c \in Chans, ReceivePing(c)
      PROVE  StagesFit'
  <2>1. /\ UNCHANGED <<owner, handler, targets, stage>>
        /\ shouldUpdate' = [shouldUpdate EXCEPT ![c] = TRUE]
    BY <1>8, Zenon DEF ReceivePing, Receive
  <2>2. \A d \in Chans : shouldUpdate[d] => shouldUpdate'[d]
    BY <1>0, <2>1, Zenon
  <2> QED
    BY <1>1, <2>1, <2>2, Zenon
<1>9. ASSUME UNCHANGED <<owner, handler, targets, stage, shouldUpdate>>
      PROVE  StagesFit'
  BY <1>1, <1>9, Zenon
<1>10. ASSUME NEW p \in Procs, BeginNotify(p) \/ ProcStep(p)
       PROVE  StagesFit'
  BY <1>9, <1>10, Zenon
  DEF BeginNotify, ProcStep, Fire, CheckSession, NotifyAllBegin, NotifyAllSend,
      NotifyAllEnd, chanVars, pollVars
<1>11. CASE AdminStep
  <2>1. /\ (\E p \in Procs : CallNotifyAll(p)) \/ UNCHANGED smVars
        /\ UNCHANGED pollVars
    BY <1>11, Zenon
    DEF AdminStep, AuthorizeMachine, ExpireMachine, SetMachineKeyExpiry, Logout,
        DeleteMachine, ReportEndpoints, SaveMachineAndNotify, UpdateTailnet,
        SetMachineAuthorization, RegisterMachine
  <2> QED
    BY <2>1, <1>9, Zenon DEF CallNotifyAll, smVars, chanVars, pollVars
<1>12. CASE SweepStep \/ (\E to \in SweepTicks : SweepFails(to)) \/ Tick
  BY <1>9, <1>12, Zenon
  DEF SweepStep, SweepAndNotify, SweepNothing, SweepFails, Tick, CallNotifyAll,
      smVars, chanVars, pollVars
<1>13. CASE UNCHANGED nmVars
  BY <1>9, <1>13, Zenon DEF nmVars, smVars, chanVars, pollVars
<1> QED
  BY <1>3, <1>5, <1>6, <1>7, <1>8, <1>10, <1>11, <1>12, <1>13, Zenon
  DEF NMNext, PollStep

----------------------------------------------------------------------------
(* No timer of a machine is lost: when a machine's session changes, or a   *)
(* goroutine that was to announce it stops, another goroutine announces it *)
(* or a NotifyAll is about to begin.                                       *)
LEMMA TimersRun ==
    ASSUME SMInv, [SMNext]_smVars, NEW c, NEW n \in Machines, n # PollerOf[c]
    PROVE  \/ TimerOwed(c, n)' \/ Called(c)'
           \/ sessions'[n] = sessions[n] /\ ~TimerOwed(c, n)
<1>0. /\ DOMAIN pc = Procs /\ DOMAIN role = Procs /\ DOMAIN about = Procs
      /\ DOMAIN sessions = Machines
      /\ \A m \in Machines : timers[m] # NoProc => about[timers[m]] = m
      /\ NoProc \notin Procs
  BY SessionAssumption, Zenon DEF SMInv, TypeOK, TimersArmed
<1>1. ASSUME UNCHANGED <<sessions, pc, role, about>>
      PROVE  TimerOwed(c, n)' \/ (sessions'[n] = sessions[n] /\ ~TimerOwed(c, n))
  BY <1>1, Zenon DEF TimerOwed, HasSession, Ignored
<1>2. ASSUME NEW m, NEW p \in Procs, NEW why, RestartTimer(m, p, why), m \in Machines,
             why = "connect" => sessions' = [sessions EXCEPT ![m] = TRUE],
             why # "connect" => sessions' = [sessions EXCEPT ![m] = FALSE],
             pc[p] = "idle"
      PROVE  TimerOwed(c, n)' \/ (sessions'[n] = sessions[n] /\ ~TimerOwed(c, n))
  <2>1. /\ pc'[p] = "armed" /\ role'[p] = why /\ about'[p] = m
        /\ \A q \in Procs : q # p /\ q # timers[m] =>
              pc'[q] = pc[q] /\ role'[q] = role[q] /\ about'[q] = about[q]
    BY <1>2, Zenon DEF RestartTimer
  <2>2. CASE m = n
    <3>1. sessions'[n] <=> why = "connect"
      BY <1>0, <1>2, <2>2, Zenon
    <3> QED
      BY <2>1, <2>2, <3>1, Zenon DEF TimerOwed, HasSession, Ignored
  <2>3. CASE m # n
    <3>1. sessions'[n] = sessions[n]
      BY <1>0, <1>2, <2>3, Zenon
    <3>2. ASSUME NEW q \in Procs, about[q] = n, pc[q] \in {"armed", "woken"}
          PROVE  q # p /\ q # timers[m]
      BY <1>0, <1>2, <2>3, <3>2, Zenon
    <3> QED
      BY <2>1, <3>1, <3>2, Zenon DEF TimerOwed, HasSession, Ignored
  <2> QED
    BY <2>2, <2>3, Zenon
<1>3. ASSUME NEW p \in Procs, UNCHANGED <<sessions, role, about>>, NEW v,
             pc' = [pc EXCEPT ![p] = v],
             pc[p] \notin {"armed", "woken"} \/ v \in {"armed", "woken"}
      PROVE  TimerOwed(c, n)' \/ (sessions'[n] = sessions[n] /\ ~TimerOwed(c, n))
  <2>1. ASSUME NEW q \in Procs, pc[q] \in {"armed", "woken"}
        PROVE  pc'[q] \in {"armed", "woken"}
    BY <1>0, <1>3, <2>1, Zenon
  <2> QED
    BY <1>3, <2>1, Zenon DEF TimerOwed, HasSession, Ignored
<1>4. ASSUME NEW p \in Procs, Finish(p), UNCHANGED sessions,
             \/ pc[p] \notin {"armed", "woken"}
             \/ ~(HasSession(about[p]) <=> role[p] = "connect")
      PROVE  TimerOwed(c, n)' \/ (sessions'[n] = sessions[n] /\ ~TimerOwed(c, n))
  <2>1. \A q \in Procs : q # p =>
           pc'[q] = pc[q] /\ role'[q] = role[q] /\ about'[q] = about[q]
    BY <1>0, <1>4, Zenon DEF Finish
  <2> QED
    BY <1>4, <2>1, Zenon DEF TimerOwed, HasSession, Ignored
<1>5. ASSUME NEW p \in Procs, CheckSession(p)
      PROVE  \/ TimerOwed(c, n)' \/ Called(c)'
             \/ sessions'[n] = sessions[n] /\ ~TimerOwed(c, n)
  <2>1. CASE HasSession(about[p]) <=> role[p] = "connect"
    <3>1. /\ pc' = [pc EXCEPT ![p] = "calling"]
          /\ UNCHANGED <<role, about, sessions>>
      BY <1>5, <2>1, Zenon DEF CheckSession
    <3>2. CASE PollerOf[c] \in Ignored(p)
      <4>1. \A q \in Procs : q # p => pc'[q] = pc[q]
        BY <1>0, <3>1, Zenon
      <4> QED
        BY <3>1, <3>2, <4>1, Zenon DEF TimerOwed, HasSession, Ignored
    <3>3. CASE PollerOf[c] \notin Ignored(p)
      BY <1>0, <3>1, <3>3, Zenon DEF Called, Ignored
    <3> QED
      BY <3>2, <3>3, Zenon
  <2>2. CASE ~(HasSession(about[p]) <=> role[p] = "connect")
    <3>1. Finish(p) /\ UNCHANGED sessions
      BY <1>5, <2>2, Zenon DEF CheckSession
    <3> QED
      BY <1>4, <2>2, <3>1, Zenon
  <2> QED
    BY <2>1, <2>2, Zenon
<1>6. CASE HandlerNext
  <2>1. PICK d \in Chans :
          \/ \E m \in Machines, p \in Procs : Register(m, d, p)
          \/ DeregisterSuperseded(d)
          \/ \E p \in Procs : DeregisterCurrent(d, p)
          \/ EnterLoop(d) \/ Abandon(d) \/ Receive(d)
    BY <1>6, Zenon DEF HandlerNext
  <2>2. ASSUME NEW m \in Machines, NEW p \in Procs, Register(m, d, p)
        PROVE  TimerOwed(c, n)' \/ (sessions'[n] = sessions[n] /\ ~TimerOwed(c, n))
    BY <1>2, <2>2, Zenon DEF Register
  <2>3. ASSUME NEW p \in Procs, DeregisterCurrent(d, p)
        PROVE  TimerOwed(c, n)' \/ (sessions'[n] = sessions[n] /\ ~TimerOwed(c, n))
    <3>1. owner[d] \in Machines
      BY <2>3, Zenon DEF DeregisterCurrent, SMInv, HandlersOwned
    <3> QED
      BY <1>2, <2>3, <3>1, Zenon DEF DeregisterCurrent
  <2>4. CASE DeregisterSuperseded(d) \/ EnterLoop(d) \/ Abandon(d) \/ Receive(d)
    BY <1>1, <2>4, Zenon DEF DeregisterSuperseded, EnterLoop, Abandon, Receive, procVars
  <2> QED
    BY <2>1, <2>2, <2>3, <2>4, Zenon
<1>7. CASE ProcNext
  <2>1. PICK p \in Procs :
          \/ Fire(p) \/ CheckSession(p) \/ CallNotifyAll(p) \/ NotifyAllBegin(p)
          \/ (\E d \in Chans : NotifyAllSend(p, d)) \/ NotifyAllEnd(p)
    BY <1>7, Zenon DEF ProcNext
  <2>2. CASE Fire(p)
    BY <1>3, <2>2, Zenon DEF Fire
  <2>3. CASE CallNotifyAll(p) \/ NotifyAllBegin(p)
    BY <1>3, <2>3, Zenon DEF CallNotifyAll, NotifyAllBegin
  <2>4. CASE \E d \in Chans : NotifyAllSend(p, d)
    BY <1>1, <2>4, Zenon DEF NotifyAllSend
  <2>5. CASE NotifyAllEnd(p)
    BY <1>4, <2>5, Zenon DEF NotifyAllEnd
  <2> QED
    BY <1>5, <2>1, <2>2, <2>3, <2>4, <2>5, Zenon
<1>8. CASE UNCHANGED smVars
  BY <1>1, <1>8, Zenon DEF smVars, procVars
<1> QED
  BY <1>6, <1>7, <1>8, Zenon DEF SMNext

----------------------------------------------------------------------------
(* A NotifyAll that is about to begin is not undone by the steps of poll   *)
(* handlers, which start and stop timers only.                             *)
LEMMA CallsKept ==
    ASSUME SMInv, HandlerNext, NEW c
    PROVE  /\ Called(c) => Called(c)'
           /\ todo' = todo
<1>0. /\ DOMAIN pc = Procs /\ DOMAIN role = Procs /\ DOMAIN about = Procs
      /\ \A m \in Machines : timers[m] # NoProc => pc[timers[m]] = "armed"
      /\ NoProc \notin Procs
  BY SessionAssumption, Zenon DEF SMInv, TypeOK, TimersArmed
<1>1. ASSUME NEW m \in Machines, NEW p \in Procs, NEW why, RestartTimer(m, p, why),
             pc[p] = "idle"
      PROVE  Called(c) => Called(c)'
  <2>1. \A q \in Procs : q # p /\ q # timers[m] =>
           pc'[q] = pc[q] /\ role'[q] = role[q] /\ about'[q] = about[q]
    BY <1>1, Zenon DEF RestartTimer
  <2>2. ASSUME NEW q \in Procs, pc[q] = "calling"
        PROVE  q # p /\ q # timers[m]
    BY <1>0, <1>1, <2>2, Zenon
  <2> QED
    BY <2>1, <2>2, Zenon DEF Called, Ignored
<1>2. ASSUME UNCHANGED procVars
      PROVE  Called(c) => Called(c)'
  BY <1>2, Zenon DEF Called, Ignored, procVars
<1>3. PICK d \in Chans :
        \/ \E m \in Machines, p \in Procs : Register(m, d, p)
        \/ DeregisterSuperseded(d)
        \/ \E p \in Procs : DeregisterCurrent(d, p)
        \/ EnterLoop(d) \/ Abandon(d) \/ Receive(d)
  BY Zenon DEF HandlerNext
<1>4. ASSUME NEW p \in Procs, DeregisterCurrent(d, p)
      PROVE  Called(c) => Called(c)'
  <2>1. owner[d] \in Machines
    BY <1>4, Zenon DEF DeregisterCurrent, SMInv, HandlersOwned
  <2> QED
    BY <1>1, <1>4, <2>1, Zenon DEF DeregisterCurrent
<1>5. ASSUME NEW m \in Machines, NEW p \in Procs, Register(m, d, p)
      PROVE  Called(c) => Called(c)'
  BY <1>1, <1>5, Zenon DEF Register
<1>6. todo' = todo
  BY <1>3, Zenon
  DEF Register, DeregisterCurrent, RestartTimer, DeregisterSuperseded, EnterLoop,
      Abandon, Receive, procVars
<1> QED
  BY <1>2, <1>3, <1>4, <1>5, <1>6, Zenon
  DEF DeregisterSuperseded, EnterLoop, Abandon, Receive

(* Pings under way stay under way while handlers of other channels work.   *)
LEMMA HandlersAnnounce ==
    ASSUME SMInv, HandlerNext, NEW c \in Chans,
           handler[c] # "none" => handler'[c] # "none" /\ buf'[c] = buf[c]
    PROVE  Announced(c) => Announced(c)'
  BY CallsKept, Zenon DEF Announced

(* And while the goroutines work: a NotifyAll takes up every registered    *)
(* channel, and a ping that finds the buffer full finds one before it.     *)
LEMMA ProcsAnnounce ==
    ASSUME SMInv, NEW c \in Chans, NEW p \in Procs,
           \/ Fire(p) \/ CheckSession(p) \/ NotifyAllBegin(p)
           \/ (\E d \in Chans : NotifyAllSend(p, d)) \/ NotifyAllEnd(p),
           \/ handler[c] # "none" /\ targets[PollerOf[c]] = c
           \/ Fresh(c) /\ pc[p] # "calling"
    PROVE  Announced(c) => Announced(c)'
<1> SUFFICES ASSUME Announced(c) PROVE Announced(c)'
  BY Zenon
<1>0. /\ DOMAIN pc = Procs /\ DOMAIN role = Procs /\ DOMAIN about = Procs
      /\ DOMAIN todo = Procs /\ DOMAIN buf = Chans
      /\ NoChan \notin Chans /\ PollerOf[c] \in Machines
  BY SessionAssumption, NetMapAssumption, Zenon DEF SMInv, TypeOK
<1>1. ASSUME UNCHANGED <<handler, buf, todo>>,
             \A q \in Procs : pc[q] = "calling" =>
                pc'[q] = "calling" /\ role'[q] = role[q] /\ about'[q] = about[q]
      PROVE  Announced(c)'
  BY <1>1, Zenon DEF Announced, Called, Ignored
<1>2. ASSUME pc[p] # "calling", UNCHANGED <<handler, buf, todo>>,
             \/ Finish(p)
             \/ UNCHANGED <<role, about>> /\ \E v : pc' = [pc EXCEPT ![p] = v]
      PROVE  Announced(c)'
  <2>1. \A q \in Procs : q # p =>
           pc'[q] = pc[q] /\ role'[q] = role[q] /\ about'[q] = about[q]
    BY <1>0, <1>2, Zenon DEF Finish
  <2> QED
    BY <1>1, <1>2, <2>1, Zenon
<1>4. CASE Fire(p) \/ CheckSession(p) \/ NotifyAllEnd(p)
  <2>1. pc[p] # "calling"
    BY <1>4, Zenon DEF Fire, CheckSession, NotifyAllEnd
  <2> QED
    BY <1>2, <1>4, <2>1, Zenon DEF Fire, CheckSession, NotifyAllEnd, chanVars
<1>5. CASE NotifyAllBegin(p)
  <2>1. handler[c] # "none" /\ targets[PollerOf[c]] = c
    BY <1>5, Zenon DEF NotifyAllBegin
  <2>2. /\ todo' = [todo EXCEPT ![p] =
              {targets[m] : m \in Machines \ Ignored(p)} \ {NoChan}]
        /\ pc' = [pc EXCEPT ![p] = "notifying"] /\ pc[p] = "calling"
        /\ UNCHANGED <<handler, buf, role, about>>
    BY <1>5, Zenon DEF NotifyAllBegin, chanVars
  <2>3. todo[p] = {}
    BY <2>2, Zenon DEF SMInv, TodoRegistered
  <2>4. \A q \in Procs : q # p => todo'[q] = todo[q] /\ pc'[q] = pc[q]
    BY <1>0, <2>2, Zenon
  <2>5. CASE PollerOf[c] \in Ignored(p)
    BY <2>2, <2>3, <2>4, <2>5, Zenon DEF Announced, Called, Ignored
  <2>6. CASE PollerOf[c] \notin Ignored(p)
    <3>1. c \in {targets[m] : m \in Machines \ Ignored(p)} \ {NoChan}
      BY <1>0, <2>1, <2>6, Zenon
    <3>2. c \in todo'[p]
      BY <1>0, <2>2, <3>1, Zenon
    <3> QED
      BY <3>2, Zenon DEF Announced
  <2> QED
    BY <2>5, <2>6, Zenon
<1>6. ASSUME NEW d \in Chans, NotifyAllSend(p, d)
      PROVE  Announced(c)'
  <2>1. /\ todo' = [todo EXCEPT ![p] = @ \ {d}] /\ d \in todo[p]
        /\ buf' = [buf EXCEPT ![d] = IF @ < BufCap THEN @ + 1 ELSE @]
        /\ UNCHANGED <<handler, pc, role, about>>
    BY <1>6, Zenon DEF NotifyAllSend
  <2>2. Called(c) => Called(c)'
    BY <2>1, Zenon DEF Called, Ignored
  <2>3. CASE d = c
    <3>1. handler[c] # "none"
      BY <2>1, <2>3, Zenon DEF Fresh, SMInv, TodoRegistered
    <3>2. buf[c] \in 0 .. BufCap /\ BufCap \in Nat \ {0}
      BY SessionAssumption, Zenon DEF SMInv, TypeOK
    <3>3. buf'[c] = IF buf[c] < BufCap THEN buf[c] + 1 ELSE buf[c]
      BY <1>0, <2>1, <2>3, Zenon
    <3>4. buf'[c] > 0
      BY <3>2, <3>3
    <3> QED
      BY <2>1, <3>1, <3>4, Zenon DEF Announced
  <2>4. CASE d # c
    <3>1. buf'[c] = buf[c]
      BY <1>0, <2>1, <2>4, Zenon
    <3>2. \A q \in Procs : c \in todo[q] => c \in todo'[q]
      BY <1>0, <2>1, <2>4, Zenon
    <3> QED
      BY <2>1, <2>2, <3>1, <3>2, Zenon DEF Announced
  <2> QED
    BY <2>3, <2>4, Zenon
<1> QED
  BY <1>4, <1>5, <1>6, Zenon

----------------------------------------------------------------------------
(* What a client would be told depends on the repository, the time and the *)
(* sessions only.                                                          *)
LEMMA SameRepository ==
    ASSUME UNCHANGED <<row, authRequired, clock, prev>>, NEW c \in Chans
    PROVE  /\ Snapshot(PollerOf[c])' = Snapshot(PollerOf[c])
           /\ \A n \in Machines : SweepOwed(n)' <=> SweepOwed(n)
           /\ \A n \in Machines : sessions'[n] = sessions[n] =>
                ToldNow(c, n)' = ToldNow(c, n)
<1>1. Snapshot(PollerOf[c])' = Snapshot(PollerOf[c])
  BY Zenon DEF Snapshot, IsQuarantined, IsExpired
<1>2. \A n \in Machines : SweepOwed(n)' <=> SweepOwed(n)
  BY Zenon DEF SweepOwed, Live, IsExpired
<1>3. ASSUME NEW n \in Machines, sessions'[n] = sessions[n]
      PROVE  ToldNow(c, n)' = ToldNow(c, n)
  BY <1>1, <1>3, Zenon DEF ToldNow, Peers, Live, IsQuarantined, IsExpired, HasSession
<1> QED
  BY <1>1, <1>2, <1>3, Zenon

(* A step that leaves the repository and the time alone keeps the watch    *)
(* over a poll when it keeps what was read and built for it and the pings  *)
(* under way.                                                              *)
LEMMA KeepsWatch ==
    ASSUME NMInv, [SMNext]_smVars, UNCHANGED <<row, authRequired, clock, prev>>,
           NEW c \in Chans, Watched(c)' => Watched(c),
           stage'[c] \in {"mapping", "syncing"} =>
             /\ stage'[c] = stage[c] /\ snap'[c] = snap[c]
             /\ Announced(c) => Announced(c)',
           stage'[c] \in {"mapped", "looping"} =>
             /\ stage[c] \in {"mapped", "looping"} /\ map'[c] = map[c]
             /\ shouldUpdate[c] => shouldUpdate'[c]
             /\ Announced(c) => Announced(c)' \/ shouldUpdate'[c]
    PROVE  WatchOK(c)'
<1> SUFFICES ASSUME Watched(c)'
             PROVE  /\ (stage[c] \in {"mapping", "syncing"})' => SnapOK(c)'
                    /\ (stage[c] \in {"mapped", "looping"})' => MapOK(c)'
  BY Zenon DEF WatchOK
<1>0. PollerOf[c] \in Machines /\ SMInv /\ WatchOK(c)
  BY NetMapAssumption, Zenon DEF NMInv, Watch
<1>1. ASSUME stage'[c] \in {"mapping", "syncing"}
      PROVE  SnapOK(c)'
  BY <1>0, <1>1, SameRepository, Zenon DEF WatchOK, SnapOK
<1>2. ASSUME stage'[c] \in {"mapped", "looping"}
      PROVE  MapOK(c)'
  <2>1. MapOK(c)
    BY <1>0, <1>2, Zenon DEF WatchOK
  <2>2. CASE Announced(c) \/ shouldUpdate[c]
    BY <1>2, <2>2, Zenon DEF MapOK
  <2>3. CASE SweepOwed(PollerOf[c])
    BY <1>0, <2>3, SameRepository, Zenon DEF MapOK
  <2>4. CASE ~Called(c)' /\ \A n \in Machines \ {PollerOf[c]} :
              map[c][n] = ToldNow(c, n) \/ TimerOwed(c, n) \/ SweepOwed(n)
    <3>1. ASSUME NEW n \in Machines \ {PollerOf[c]}
          PROVE  (map[c][n] = ToldNow(c, n) \/ TimerOwed(c, n) \/ SweepOwed(n))'
      <4>1. \/ TimerOwed(c, n)'
            \/ sessions'[n] = sessions[n] /\ ~TimerOwed(c, n)
        BY <1>0, <2>4, TimersRun, Zenon
      <4> QED
        BY <1>2, <2>4, <4>1, SameRepository, Zenon
    <3> QED
      BY <3>1, Zenon DEF MapOK
  <2> QED
    BY <2>1, <2>2, <2>3, <2>4, Zenon DEF MapOK, Announced
<1> QED
  BY <1>1, <1>2, Zenon

(* A map is built from what was read first and from what is so now. *)
LEMMA BuiltFromSnap ==
    ASSUME NMInv, NEW c \in Chans, Watched(c), SnapOK(c),
           UNCHANGED <<smVars, row, authRequired, clock, prev>>,
           map' = [map EXCEPT ![c] = Peers(PollerOf[c], snap[c])]
    PROVE  MapOK(c)'
<1>0. DOMAIN map = Chans /\ PollerOf[c] \in Machines
  BY NetMapAssumption, Zenon DEF NMInv, NMShape
<1>1. Announced(c) => Announced(c)'
  BY Zenon DEF Announced, Called, Ignored, smVars, chanVars, procVars
<1>2. CASE snap[c] = Snapshot(PollerOf[c])
  <2>1. ASSUME NEW n \in Machines
        PROVE  map'[c][n] = ToldNow(c, n)'
    <3>1. map'[c][n] = ToldNow(c, n)
      BY <1>0, <1>2, Zenon DEF ToldNow
    <3>2. sessions'[n] = sessions[n]
      BY Zenon DEF smVars
    <3> QED
      BY <3>1, <3>2, SameRepository, Zenon
  <2> QED
    BY <2>1, Zenon DEF MapOK
<1> QED
  BY <1>0, <1>1, <1>2, SameRepository, Zenon DEF SnapOK, MapOK

(* A step that announces its change to every client keeps the watch over   *)
(* every poll.                                                             *)
LEMMA AnnouncedToAll ==
    ASSUME NMInv, NEW p \in Procs, CallNotifyAll(p)
    PROVE  Watch'
<1>1. /\ pc'[p] = "calling" /\ role'[p] = "caller"
  BY Zenon DEF CallNotifyAll, NMInv, IdleIsCaller, SMInv, TypeOK
<1>2. \A c \in Chans : Announced(c)'
  BY <1>1, Zenon DEF Announced, Called, Ignored
<1> QED
  BY <1>2, Zenon DEF Watch, WatchOK, SnapOK, MapOK

(* A step that is announced to nobody excuses every poll. *)
LEMMA AnnouncedToNone ==
    ASSUME NEW why, Unannounced(why), UNCHANGED stage
    PROVE  Watch'
<1>1. \A c \in Chans : stage'[c] # "none" => excused'[c] # {}
  BY Zenon DEF Unannounced
<1> QED
  BY <1>1, Zenon DEF Watch, WatchOK, Watched

(* Time and an empty window of the sweeper change what is told only of     *)
(* machines whose keys have expired since the sweeper's last window.       *)
LEMMA TimePasses ==
    ASSUME NMInv, Tick \/ \E to \in SweepTicks : SweepNothing(to),
           NEW n \in Machines, Live(n)
    PROVE  /\ SweepOwed(n) => SweepOwed(n)'
           /\ SweepOwed(n)' \/ (IsExpired(row[n])' <=> IsExpired(row[n]))
<1>0. /\ row[n] \in Rows /\ clock \in Nat /\ prev \in Nat /\ prev < clock
      /\ row' = row
  BY Zenon DEF NMInv, NMShape, Tick, SweepNothing, dbVars
<1>1. row[n].expiresAt \in Nat /\ Live(n)'
  BY <1>0, Zenon DEF Rows, Live
<1>2. CASE Tick
  <2>1. clock' = clock + 1 /\ prev' = prev
    BY <1>2, Zenon DEF Tick
  <2> QED
    BY <1>0, <1>1, <2>1 DEF SweepOwed, IsExpired
<1>3. ASSUME NEW to \in SweepTicks, SweepNothing(to)
      PROVE  /\ SweepOwed(n) => SweepOwed(n)'
             /\ IsExpired(row[n])' <=> IsExpired(row[n])
  <2>1. /\ prev' = to /\ clock' = clock
        /\ ~(~row[n].expiryDisabled /\ prev < row[n].expiresAt /\ row[n].expiresAt <= to)
    BY <1>3, Zenon DEF SweepNothing, ExpiredBetween
  <2>2. to \in Nat
    BY <1>0 DEF SweepTicks
  <2> QED
    BY <1>0, <1>1, <2>1, <2>2 DEF SweepOwed, IsExpired
<1> QED
  BY <1>2, <1>3, Zenon

(* Neither time nor an empty window ends the watch over a poll. *)
LEMMA WatchInTime ==
    ASSUME NMInv, Tick \/ \E to \in SweepTicks : SweepNothing(to)
    PROVE  Watch'
<1> SUFFICES ASSUME NEW c \in Chans, Watched(c)' PROVE WatchOK(c)'
  BY Zenon DEF Watch, WatchOK
<1>0. /\ UNCHANGED <<smVars, row, authRequired, stage, snap, map, shouldUpdate, excused>>
      /\ PollerOf[c] \in Machines
  BY NetMapAssumption, Zenon DEF Tick, SweepNothing, dbVars, pollVars
<1>1. Watched(c) /\ WatchOK(c)
  BY <1>0, Zenon DEF NMInv, Watch, Watched, Live, smVars, chanVars
<1>2. /\ Announced(c) => Announced(c)'
      /\ \A n : TimerOwed(c, n) => TimerOwed(c, n)'
  BY <1>0, Zenon
  DEF Announced, Called, TimerOwed, Ignored, HasSession, smVars, chanVars, procVars
<1>3. Live(PollerOf[c])
  BY <1>1, Zenon DEF Watched
<1>4. \/ SweepOwed(PollerOf[c])'
      \/ /\ ~SweepOwed(PollerOf[c])
         /\ Snapshot(PollerOf[c])' = Snapshot(PollerOf[c])
  <2>1. \/ SweepOwed(PollerOf[c])'
        \/ /\ ~SweepOwed(PollerOf[c])
           /\ IsExpired(row[PollerOf[c]])' <=> IsExpired(row[PollerOf[c]])
    BY <1>0, <1>3, TimePasses, Zenon
  <2> QED
    BY <1>0, <2>1, Zenon DEF Snapshot, IsQuarantined
<1>5. CASE SweepOwed(PollerOf[c])'
  BY <1>5, Zenon DEF WatchOK, SnapOK, MapOK
<1>6. CASE /\ ~SweepOwed(PollerOf[c])
           /\ Snapshot(PollerOf[c])' = Snapshot(PollerOf[c])
  <2>1. ASSUME NEW n \in Machines \ {PollerOf[c]},
               map[c][n] = ToldNow(c, n) \/ TimerOwed(c, n) \/ SweepOwed(n)
        PROVE  (map[c][n] = ToldNow(c, n) \/ TimerOwed(c, n) \/ SweepOwed(n))'
    <3>1. CASE Live(n)
      <4>1. CASE IsExpired(row[n])' <=> IsExpired(row[n])
        <5>1. ToldNow(c, n)' = ToldNow(c, n)
          <6>1. sessions' = sessions
            BY <1>0, Zenon DEF smVars
          <6> QED
            BY <1>0, <1>6, <4>1, <6>1, Zenon
            DEF ToldNow, Peers, Live, IsQuarantined, HasSession
        <5> QED
          BY <1>0, <1>2, <2>1, <3>1, <5>1, TimePasses, Zenon
      <4>2. CASE SweepOwed(n)'
        BY <4>2, Zenon
      <4> QED
        BY <3>1, <4>1, <4>2, TimePasses, Zenon
    <3>2. CASE ~Live(n)
      <4>1. ToldNow(c, n) = "hidden" /\ ToldNow(c, n)' = "hidden" /\ ~SweepOwed(n)
        BY <1>0, <3>2, Zenon DEF ToldNow, Peers, Live, SweepOwed
      <4> QED
        BY <1>0, <1>2, <2>1, <4>1, Zenon
    <3> QED
      BY <3>1, <3>2, Zenon
  <2>2. MapOK(c) => MapOK(c)'
    BY <1>0, <1>2, <1>6, <2>1, Zenon DEF MapOK
  <2>3. SnapOK(c) => SnapOK(c)'
    BY <1>0, <1>2, <1>6, Zenon DEF SnapOK
  <2> QED
    BY <1>0, <1>1, <2>2, <2>3, Zenon DEF WatchOK
<1> QED
  BY <1>4, <1>5, <1>6, Zenon

----------------------------------------------------------------------------
(* A watched poll is registered, or its channel is still its own. *)
LEMMA WatchedReachable ==
    ASSUME NMInv, NEW c \in Chans, Watched(c)
    PROVE  \/ handler[c] # "none" /\ targets[PollerOf[c]] = c
           \/ handler[c] = "none" /\ Fresh(c)
<1>1. stage[c] \in {"mapping", "mapped", "looping", "syncing"}
  BY Zenon DEF Watched, NMInv, NMShape, Stages
<1>2. StageFits(c)
  BY Zenon DEF NMInv, StagesFit
<1> QED
  BY <1>1, <1>2, Zenon DEF StageFits, Watched

(* A handler's step keeps the watch over the polls of the other handlers. *)
LEMMA WatchOthers ==
    ASSUME NMInv, [SMNext]_smVars, NEW c \in Chans, NEW d \in Chans \ {c},
           \/ StartPoll(d) \/ FailFirstMap(d) \/ FailFirstWrite(d)
           \/ PollStep(d) \/ LeavePoll(d)
    PROVE  WatchOK(c)'
<1>0. /\ DOMAIN stage = Chans /\ DOMAIN snap = Chans /\ DOMAIN map = Chans
      /\ DOMAIN shouldUpdate = Chans /\ DOMAIN excused = Chans
      /\ DOMAIN handler = Chans /\ DOMAIN buf = Chans /\ DOMAIN targets = Machines
      /\ NoChan \notin Chans /\ PollerOf \in [Chans -> Machines]
  BY SessionAssumption, NetMapAssumption, Zenon DEF NMInv, NMShape, SMInv, TypeOK
<1>1. UNCHANGED <<row, authRequired, clock, prev>>
  BY Zenon
  DEF StartPoll, FailFirstMap, FailFirstWrite, PollStep, LeavePoll,
      BuildFirstMap, RegisterPoll, WriteFirstMap, ReceivePing, BeginSync,
      EndSync, dbVars, timeVars
<1>2. /\ stage'[c] = stage[c] /\ snap'[c] = snap[c] /\ map'[c] = map[c]
      /\ shouldUpdate'[c] = shouldUpdate[c] /\ excused'[c] = excused[c]
  <2>1. /\ stage' = stage \/ \E v : stage' = [stage EXCEPT ![d] = v]
        /\ snap' = snap \/ \E v : snap' = [snap EXCEPT ![d] = v]
        /\ map' = map \/ \E v : map' = [map EXCEPT ![d] = v]
        /\ shouldUpdate' = shouldUpdate
             \/ \E v : shouldUpdate' = [shouldUpdate EXCEPT ![d] = v]
        /\ excused' = excused \/ \E v : excused' = [excused EXCEPT ![d] = v]
    BY Zenon
    DEF StartPoll, FailFirstMap, FailFirstWrite, PollStep, LeavePoll,
        BuildFirstMap, RegisterPoll, WriteFirstMap, ReceivePing, BeginSync,
        EndSync, EndPoll, pollVars
  <2> QED
    BY <1>0, <2>1, Zenon
<1> DEFINE Elsewhere ==
      /\ HandlerNext
      /\ handler'[c] = handler[c] /\ buf'[c] = buf[c]
      /\ \A m \in Machines : targets'[m] = c => targets[m] = c
<1>3. UNCHANGED smVars \/ Elsewhere
  <2>1. CASE StartPoll(d) \/ FailFirstMap(d) \/ BuildFirstMap(d) \/ BeginSync(d) \/ EndSync(d)
    BY <2>1, Zenon DEF StartPoll, FailFirstMap, BuildFirstMap, BeginSync, EndSync
  <2>2. ASSUME NEW p \in Procs, RegisterPoll(d, p)
        PROVE  Elsewhere
    <3>1. Register(PollerOf[d], d, p) /\ PollerOf[d] \in Machines
      BY <1>0, <2>2, Zenon DEF RegisterPoll
    <3>2. HandlerNext
      BY <3>1, Zenon DEF HandlerNext
    <3> QED
      BY <1>0, <3>1, <3>2, Zenon DEF Register
  <2>3. CASE WriteFirstMap(d) \/ FailFirstWrite(d)
    BY <1>0, <2>3, Zenon
    DEF WriteFirstMap, FailFirstWrite, EnterLoop, Abandon, HandlerNext
  <2>4. CASE ReceivePing(d)
    BY <1>0, <2>4, Zenon DEF ReceivePing, Receive, HandlerNext
  <2>5. CASE LeavePoll(d)
    <3>1. CASE DeregisterSuperseded(d)
      BY <1>0, <3>1, Zenon DEF DeregisterSuperseded, HandlerNext
    <3>2. ASSUME NEW p \in Procs, DeregisterCurrent(d, p)
          PROVE  Elsewhere
      BY <1>0, <3>2, Zenon DEF DeregisterCurrent, HandlerNext
    <3> QED
      BY <2>5, <3>1, <3>2, Zenon DEF LeavePoll
  <2> QED
    BY <2>1, <2>2, <2>3, <2>4, <2>5, Zenon DEF PollStep
<1>4. Watched(c)' => Watched(c)
  BY <1>0, <1>1, <1>2, <1>3, Zenon DEF Watched, Live, smVars, chanVars
<1>5. Announced(c) => Announced(c)'
  BY <1>3, HandlersAnnounce, Zenon
  DEF NMInv, Announced, Called, Ignored, smVars, chanVars, procVars
<1> QED
  BY <1>1, <1>2, <1>4, <1>5, KeepsWatch, Zenon

(* And over its own. *)
LEMMA WatchOwn ==
    ASSUME NMInv, [SMNext]_smVars, NEW c \in Chans,
           \/ StartPoll(c) \/ FailFirstMap(c) \/ FailFirstWrite(c)
           \/ PollStep(c) \/ LeavePoll(c)
    PROVE  WatchOK(c)'
<1>0. /\ DOMAIN stage = Chans /\ DOMAIN snap = Chans /\ DOMAIN excused = Chans
      /\ DOMAIN shouldUpdate = Chans /\ DOMAIN handler = Chans
      /\ WatchOK(c) /\ SMInv
  BY Zenon DEF NMInv, NMShape, Watch, SMInv, TypeOK
<1>1. CASE StartPoll(c) \/ BeginSync(c)
  <2>1. /\ stage'[c] \in {"mapping", "syncing"} /\ snap'[c] = Snapshot(PollerOf[c])
        /\ UNCHANGED <<row, authRequired, clock, prev>>
    BY <1>0, <1>1, Zenon DEF StartPoll, BeginSync, dbVars, timeVars
  <2>2. SnapOK(c)'
    BY <2>1, SameRepository, Zenon DEF SnapOK
  <2> QED
    BY <2>1, <2>2, Zenon DEF WatchOK
<1>2. CASE BuildFirstMap(c) \/ EndSync(c)
  <2>1. /\ stage[c] \in {"mapping", "syncing"} /\ stage'[c] \in {"mapped", "looping"}
        /\ map' = [map EXCEPT ![c] = Peers(PollerOf[c], snap[c])]
        /\ UNCHANGED <<smVars, row, authRequired, clock, prev, excused>>
    BY <1>0, <1>2, Zenon DEF BuildFirstMap, EndSync, dbVars, timeVars
  <2>2. Watched(c)' => Watched(c)
    BY <2>1, Zenon DEF Watched, Live, smVars, chanVars
  <2>3. Watched(c) => MapOK(c)'
    BY <1>0, <2>1, BuiltFromSnap, Zenon DEF WatchOK
  <2> QED
    BY <2>1, <2>2, <2>3, Zenon DEF WatchOK
<1>3. CASE FailFirstMap(c) \/ FailFirstWrite(c) \/ LeavePoll(c)
  <2>1. stage'[c] = "none"
    BY <1>0, <1>3, Zenon DEF FailFirstMap, FailFirstWrite, LeavePoll, EndPoll
  <2> QED
    BY <2>1, Zenon DEF WatchOK, Watched
<1>4. ASSUME NEW p \in Procs, RegisterPoll(c, p)
      PROVE  WatchOK(c)'
  <2>1. /\ Register(PollerOf[c], c, p) /\ PollerOf[c] \in Machines /\ stage[c] = "mapped"
        /\ UNCHANGED <<row, authRequired, clock, prev, stage, snap, map, shouldUpdate,
                       excused>>
    BY <1>4, NetMapAssumption, Zenon DEF RegisterPoll, dbVars, timeVars, pollVars
  <2>2. handler[c] = "none"
    BY <2>1, Zenon DEF Register, Fresh
  <2>3. Watched(c)' => Watched(c)
    BY <2>1, <2>2, Zenon DEF Watched, Live
  <2>4. HandlerNext
    BY <2>1, Zenon DEF HandlerNext
  <2>5. Announced(c) => Announced(c)'
    BY <1>0, <2>2, <2>4, HandlersAnnounce, Zenon
  <2> QED
    BY <2>1, <2>3, <2>5, KeepsWatch, Zenon
<1>5. CASE WriteFirstMap(c)
  <2>1. /\ EnterLoop(c) /\ stage'[c] = "looping"
        /\ UNCHANGED <<row, authRequired, clock, prev, map, shouldUpdate, excused>>
    BY <1>0, <1>5, Zenon DEF WriteFirstMap, dbVars, timeVars
  <2>2. /\ handler[c] = "starting" /\ handler'[c] = "looping"
        /\ UNCHANGED <<targets, buf>>
    BY <1>0, <2>1, Zenon DEF EnterLoop
  <2>3. stage[c] = "mapped"
    BY <2>2, Zenon DEF NMInv, StagesFit, StageFits
  <2>4. Watched(c)' => Watched(c)
    BY <2>1, <2>2, <2>3, Zenon DEF Watched, Live
  <2>5. HandlerNext
    BY <2>1, Zenon DEF HandlerNext
  <2>6. Announced(c) => Announced(c)'
    BY <1>0, <2>2, <2>5, HandlersAnnounce, Zenon
  <2> QED
    BY <2>1, <2>3, <2>4, <2>6, KeepsWatch, Zenon
<1>6. CASE ReceivePing(c)
  <2>1. /\ stage[c] = "looping" /\ shouldUpdate'[c] /\ Receive(c)
        /\ UNCHANGED <<row, authRequired, clock, prev, stage, map, excused>>
    BY <1>0, <1>6, Zenon DEF ReceivePing, dbVars, timeVars
  <2> QED
    BY <2>1, Zenon DEF WatchOK, MapOK
<1> QED
  BY <1>1, <1>2, <1>3, <1>4, <1>5, <1>6, Zenon DEF PollStep

(* A NotifyAll that begins excuses the polls it misses and takes up those  *)
(* it reaches; the other steps of goroutines keep the watch, too.          *)
LEMMA WatchProcs ==
    ASSUME NMInv, [SMNext]_smVars, NEW p \in Procs, BeginNotify(p) \/ ProcStep(p)
    PROVE  Watch'
<1> SUFFICES ASSUME NEW c \in Chans, Watched(c)' PROVE WatchOK(c)'
  BY Zenon DEF Watch, WatchOK
<1>1. /\ UNCHANGED <<row, authRequired, clock, prev, stage, snap, map, shouldUpdate>>
      /\ UNCHANGED <<targets, handler>>
  BY Zenon
  DEF BeginNotify, ProcStep, Fire, CheckSession, NotifyAllBegin, NotifyAllSend,
      NotifyAllEnd, chanVars, dbVars, timeVars, pollVars
<1>2. /\ excused[c] = {}
      /\ handler[c] # "none" \/ ProcStep(p)
  <2>1. CASE BeginNotify(p)
    <3>1. excused'[c] = IF stage[c] # "none" /\ handler[c] = "none"
                        THEN excused[c] \cup {"window"} ELSE excused[c]
      BY <2>1, Zenon DEF BeginNotify
    <3>2. excused'[c] = {} /\ stage[c] # "none"
      BY <1>1, Zenon DEF Watched
    <3> QED
      BY <3>1, <3>2, Zenon
  <2>2. CASE ProcStep(p)
    BY <2>2, Zenon DEF ProcStep, Watched
  <2> QED
    BY <2>1, <2>2, Zenon
<1>3. Watched(c)
  BY <1>1, <1>2, Zenon DEF Watched, Live
<1>4. \/ handler[c] # "none" /\ targets[PollerOf[c]] = c
      \/ Fresh(c) /\ ProcStep(p)
  BY <1>2, <1>3, WatchedReachable, Zenon
<1>5. Announced(c) => Announced(c)'
  <2>1. \/ Fire(p) \/ CheckSession(p) \/ NotifyAllBegin(p)
        \/ (\E d \in Chans : NotifyAllSend(p, d)) \/ NotifyAllEnd(p)
    BY Zenon DEF BeginNotify, ProcStep
  <2>2. ProcStep(p) => pc[p] # "calling"
    BY Zenon DEF ProcStep, Fire, CheckSession, NotifyAllSend, NotifyAllEnd
  <2> QED
    BY <1>4, <2>1, <2>2, ProcsAnnounce, Zenon DEF NMInv
<1> QED
  BY <1>1, <1>3, <1>5, KeepsWatch, Zenon

(* Every step keeps the watch over every poll. *)
LEMMA WatchStep == NMInv /\ [NMNext]_nmVars => Watch'
<1> SUFFICES ASSUME NMInv, [NMNext]_nmVars PROVE Watch'
  BY Zenon
<1>0. [SMNext]_smVars
  BY SessionsRun, Zenon
<1>1. ASSUME NEW d \in Chans,
             \/ StartPoll(d) \/ FailFirstMap(d) \/ FailFirstWrite(d)
             \/ PollStep(d) \/ LeavePoll(d)
      PROVE  Watch'
  <2> SUFFICES ASSUME NEW c \in Chans PROVE WatchOK(c)'
    BY Zenon DEF Watch
  <2>1. CASE c = d
    BY <1>0, <1>1, <2>1, WatchOwn, Zenon
  <2>2. CASE c # d
    BY <1>0, <1>1, <2>2, WatchOthers, Zenon
  <2> QED
    BY <2>1, <2>2, Zenon
<1>2. ASSUME NEW p \in Procs, BeginNotify(p) \/ ProcStep(p)
      PROVE  Watch'
  BY <1>0, <1>2, WatchProcs, Zenon
<1>3. CASE AdminStep
  <2>1. \/ \E p \in Procs : CallNotifyAll(p)
        \/ Unannounced("silent") /\ UNCHANGED stage
    BY <1>3, Zenon
    DEF AdminStep, AuthorizeMachine, ExpireMachine, SetMachineKeyExpiry, Logout,
        DeleteMachine, ReportEndpoints, SaveMachineAndNotify, UpdateTailnet,
        SetMachineAuthorization, RegisterMachine, pollVars
  <2> QED
    BY <2>1, AnnouncedToAll, AnnouncedToNone, Zenon
<1>4. CASE SweepStep \/ (\E to \in SweepTicks : SweepFails(to)) \/ Tick
  <2>1. \/ \E p \in Procs : CallNotifyAll(p)
        \/ Unannounced("failed") /\ UNCHANGED stage
        \/ Tick \/ \E to \in SweepTicks : SweepNothing(to)
    BY <1>4, Zenon DEF SweepStep, SweepAndNotify, SweepFails, pollVars
  <2> QED
    BY <2>1, AnnouncedToAll, AnnouncedToNone, WatchInTime, Zenon
<1>5. CASE UNCHANGED nmVars
  <2> SUFFICES ASSUME NEW c \in Chans PROVE WatchOK(c)'
    BY Zenon DEF Watch
  <2>1. /\ UNCHANGED <<row, authRequired, clock, prev, stage, snap, map, shouldUpdate>>
        /\ UNCHANGED <<smVars, excused>>
    BY <1>5, Zenon DEF nmVars, dbVars, timeVars, pollVars
  <2>2. Watched(c)' => Watched(c)
    BY <2>1, Zenon DEF Watched, Live, smVars, chanVars
  <2>3. Announced(c) => Announced(c)'
    BY <2>1, Zenon DEF Announced, Called, Ignored, smVars, chanVars, procVars
  <2> QED
    BY <1>0, <2>1, <2>2, <2>3, KeepsWatch, Zenon
<1> QED
  BY <1>1, <1>2, <1>3, <1>4, <1>5, Zenon DEF NMNext

(* The inductive invariant holds when the server has started. *)
LEMMA NMStarts == NMInit => NMInv
<1> SUFFICES ASSUME NMInit PROVE NMInv
  BY Zenon
<1>1. SMInv
  BY InvInit, Zenon DEF NMInit
<1>2. /\ stage = [c \in Chans |-> "none"] /\ snap = [c \in Chans |-> NoSnap]
      /\ map = [c \in Chans |-> Nothing] /\ shouldUpdate = [c \in Chans |-> FALSE]
      /\ excused = [c \in Chans |-> {}]
      /\ owner = [c \in Chans |-> NoMachine] /\ handler = [c \in Chans |-> "none"]
      /\ role = [p \in Procs |-> "caller"]
  BY Zenon DEF NMInit, SMInit
<1>3. NMShape
  <2>1. PICK start \in Starts :
          /\ row = [m \in Machines |->
                [status |-> IF m \in start.newcomers THEN "unborn" ELSE "live",
                 authorized |-> m \in start.approved,
                 expiryDisabled |-> FALSE,
                 expiresAt |-> IF m \in start.lapsing THEN 1 ELSE MaxClock]]
          /\ clock = start.clock
          /\ prev = start.clock - 1
    BY Zenon DEF NMInit
  <2>2. MaxClock \in Nat /\ start.clock \in 1 .. MaxClock
    BY NetMapAssumption, Zenon
  <2>3. row \in [Machines -> Rows]
    <3>1. PICK ex : ex = [m \in Machines |-> IF m \in start.lapsing THEN 1 ELSE MaxClock]
      BY Zenon
    <3>2. \A m \in Machines : ex[m] \in Nat
      <4>1. 1 \in Nat
        BY SMT
      <4> QED
        BY <2>2, <3>1, <4>1, Zenon
    <3>3. \A m \in Machines : row[m] =
            [status |-> IF m \in start.newcomers THEN "unborn" ELSE "live",
             authorized |-> m \in start.approved, expiryDisabled |-> FALSE,
             expiresAt |-> ex[m]]
      BY <2>1, <3>1, Zenon
    <3>4. ASSUME NEW m \in Machines PROVE row[m] \in Rows
      <4>1. PICK st \in {"unborn", "live", "deleted"} :
              st = IF m \in start.newcomers THEN "unborn" ELSE "live"
        BY Zenon
      <4>2. PICK e \in Nat : e = ex[m]
        BY <3>2, Zenon
      <4>3. PICK A : A = start.approved
        BY Zenon
      <4>4. row[m] = [status |-> st, authorized |-> m \in A, expiryDisabled |-> FALSE, expiresAt |-> e]
        BY <3>3, <4>1, <4>2, <4>3, Zenon
      <4> QED
        BY <4>4, SMT DEF Rows
    <3>5. row = [m \in Machines |-> row[m]]
      BY <2>1, Zenon
    <3> QED
      BY <3>4, <3>5, Zenon
  <2>4. clock \in Nat /\ prev \in Nat /\ prev < clock
    <3>1. PICK k : k = start.clock
      BY Zenon
    <3>2. k \in 1 .. MaxClock /\ MaxClock \in Nat
      BY <2>2, <3>1, Zenon
    <3>3. k \in Nat /\ k - 1 \in Nat /\ k - 1 < k
      BY <3>2, SMT
    <3> QED
      BY <2>1, <3>1, <3>3, Zenon
  <2>5. /\ stage \in [Chans -> Stages]
        /\ map \in [Chans -> [Machines -> Told]]
        /\ \A c \in Chans : map[c][PollerOf[c]] = "hidden"
    BY <1>2, NetMapAssumption, Zenon DEF Stages, Told, Nothing
  <2> QED
    BY <1>2, <2>3, <2>4, <2>5, Zenon DEF NMShape
<1>4. StagesFit
  BY <1>2, Zenon DEF StagesFit, StageFits
<1>5. IdleIsCaller
  BY <1>2, Zenon DEF IdleIsCaller
<1>6. Watch
  BY <1>2, Zenon DEF Watch, WatchOK, Watched
<1> QED
  BY <1>1, <1>3, <1>4, <1>5, <1>6, Zenon DEF NMInv

(* A watched poll that serves its client has the current map or an update  *)
(* coming.                                                                 *)
LEMMA WatchSuffices == NMInv => NoLostUpdate
<1> SUFFICES ASSUME NMInv, NEW c \in Chans, Serving(c), excused[c] = {},
                    ~UpdateOwed(c)
             PROVE  UpToDate(c)
  BY Zenon DEF NoLostUpdate
<1>0. PollerOf[c] \in Machines
  BY NetMapAssumption, Zenon
<1>1. /\ stage[c] \in {"looping", "syncing"} /\ Watched(c) /\ WatchOK(c)
  BY Zenon DEF Serving, Watched, NMInv, Watch
<1>2. ~shouldUpdate[c] /\ ~Announced(c)
  BY Zenon DEF UpdateOwed, Announced, Called
<1>3. \A n \in Machines : ~TimerOwed(c, n)
  BY Zenon DEF UpdateOwed, TimerOwed
<1>4. \A n \in Machines : ~SweepOwed(n)
  BY Zenon DEF UpdateOwed, SweepOwed
<1>5. stage[c] = "looping"
  BY <1>1, <1>2, Zenon DEF NMInv, StagesFit, StageFits
<1>6. \A n \in Machines \ {PollerOf[c]} : map[c][n] = ToldNow(c, n)
  BY <1>0, <1>1, <1>2, <1>3, <1>4, <1>5, Zenon DEF WatchOK, MapOK
<1>7. /\ Peers(PollerOf[c], Snapshot(PollerOf[c])) \in [Machines -> Told]
      /\ ToldNow(c, PollerOf[c]) = "hidden"
  BY <1>0, PeersShape, Zenon DEF ToldNow
<1>8. map[c] \in [Machines -> Told] /\ map[c][PollerOf[c]] = "hidden"
  BY Zenon DEF NMInv, NMShape
<1>9. \A n \in Machines : map[c][n] = Peers(PollerOf[c], Snapshot(PollerOf[c]))[n]
  BY <1>6, <1>7, <1>8, Zenon DEF ToldNow
<1>10. ASSUME NEW f \in [Machines -> Told], NEW g \in [Machines -> Told],
              \A n \in Machines : f[n] = g[n]
       PROVE  f = g
  BY <1>10
<1> QED
  BY <1>7, <1>8, <1>9, <1>10, Zenon DEF UpToDate

(* The inductive invariant of the composition. *)
THEOREM NetMapInvariant == NMSpec => []NMInv
<1>1. NMInv /\ [NMNext]_nmVars => NMInv'
  <2> SUFFICES ASSUME NMInv, [NMNext]_nmVars PROVE NMInv'
    BY Zenon
  <2>1. [SMNext]_smVars
    BY SessionsRun, Zenon
  <2> QED
    BY <2>1, InvStep, ShapeStep, FitStep, IdleStep, WatchStep, Zenon DEF NMInv
<1> QED
  BY <1>1, NMStarts, PTL DEF NMSpec

(* No update is lost between the repository and a connected client, for    *)
(* any number of machines, polls, goroutines and administrative calls: a   *)
(* client whose map is out of date has an update coming, unless a change   *)
(* was announced to nobody or a NotifyAll fell between its first map and   *)
(* its Register.                                                           *)
THEOREM NothingLost == NMSpec => []NoLostUpdate
  BY NetMapInvariant, WatchSuffices, PTL

(* The composition uses the session manager as it is: what is proved of    *)
(* SMSpec above, its refinement of the session table included, holds with  *)
(* polls, administrative calls and the sweeper at work.                    *)
THEOREM SessionsInUse ==
    NMSpec => SMSpec /\ ImplementsSessionTable /\ OnlyOwnSessionEnds
<1>1. NMInit => SMInit
  BY Zenon DEF NMInit
<1>2. NMSpec => SMSpec
  BY <1>1, SessionsRun, PTL DEF NMSpec, SMSpec
<1> QED
  BY <1>2, Refinement, OwnSessionOnly, PTL
=============================================================================
