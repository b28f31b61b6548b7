------------------------------- MODULE NetMap -------------------------------
(***************************************************************************)
(* How a change in the repository reaches the connected clients of one     *)
(* tailnet: the streaming poll handler (internal/handlers/poll_net_map.go) *)
(* with its mapper (internal/mapping/poll_net_mapper.go), the calls that   *)
(* change machines (internal/service), the expiry sweeper                  *)
(* (internal/core/worker.go) and the session manager, whose actions this   *)
(* module composes with its own.                                           *)
(*                                                                         *)
(* A map is abstracted to what it tells of each peer: hidden, offline or   *)
(* online.  Time is a clock of MaxClock ticks.                             *)
(***************************************************************************)
EXTENDS SessionManager

CONSTANTS
    PollerOf,     \* channel -> machine whose client makes that poll
    MaxClock,     \* the last value of the clock (a bound)
    MaxChanges,   \* how many repository changes are considered (a bound)
    MaxPolls,     \* how many polls are considered (a bound)
    Starts,       \* the situations a behaviour may begin in
    MayFail       \* whether the sweeper's query may fail

ASSUME NetMapAssumption ==
    /\ PollerOf \in [Chans -> Machines]
    /\ MaxClock \in Nat /\ MaxChanges \in Nat /\ MaxPolls \in Nat
    /\ Starts \subseteq
         [newcomers : SUBSET Machines, \* not registered yet
          lapsing : SUBSET Machines,   \* their keys expire at 1, the others' never
          approved : SUBSET Machines,  \* authorized already
          authRequired : BOOLEAN,
          clock : 1 .. MaxClock,
          changes : 0 .. MaxChanges,   \* as many as are still to come
          polls : 0 .. MaxPolls]
    /\ MayFail \in BOOLEAN

VARIABLES
    row,          \* repository: machine -> [status, authorized, expiryDisabled,
                  \* expiresAt]; status is "unborn", "live" or "deleted" for good
    authRequired, \* repository: the tailnet's MachineAuthorizationEnabled
    clock,        \* what time.Now() answers
    prev,         \* the sweeper's prev: end of the last window it looked at
    stage,        \* channel -> what its handler is doing beyond SessionManager:
                  \* "none", "mapping", "mapped", "looping" or "syncing"
    snap,         \* channel -> what CreateMapResponse read first
    map,          \* channel -> the last map built for its client: of each machine
                  \* "hidden", "offline" or "online"
    shouldUpdate, \* channel -> a ping was received since the last map
    changes,      \* number of repository changes so far
    polls,        \* number of polls so far
    excused       \* history: channel -> why a change was not announced to it

dbVars == <<row, authRequired, changes>>
timeVars == <<clock, prev>>
pollVars == <<stage, snap, map, shouldUpdate>>
nmVars == <<smVars, dbVars, timeVars, pollVars, polls, excused>>

Nothing == [m \in Machines |-> "hidden"]
NoSnap == [cutOff |-> FALSE, authRequired |-> FALSE]

NMInit ==
    /\ SMInit
    /\ \E start \in Starts :
          /\ row = [m \in Machines |->
                [status |-> IF m \in start.newcomers THEN "unborn" ELSE "live",
                 authorized |-> m \in start.approved,
                 expiryDisabled |-> FALSE,
                 expiresAt |-> IF m \in start.lapsing THEN 1 ELSE MaxClock]]
          /\ authRequired = start.authRequired
          /\ clock = start.clock
          /\ prev = start.clock - 1
          /\ changes = MaxChanges - start.changes
          /\ polls = MaxPolls - start.polls
    /\ stage = [c \in Chans |-> "none"]
    /\ snap = [c \in Chans |-> NoSnap]
    /\ map = [c \in Chans |-> Nothing]
    /\ shouldUpdate = [c \in Chans |-> FALSE]
    /\ excused = [c \in Chans |-> {}]

----------------------------------------------------------------------------
(* domain.Machine *)

Live(m) == row[m].status = "live"

IsExpired(r) == ~r.expiryDisabled /\ r.expiresAt < clock

IsQuarantined(r, required) == IsExpired(r) \/ (required /\ ~r.authorized)

(* mapping.PollNetMapper.CreateMapResponse: the machine and its tailnet    *)
(* are read first, the peers and their sessions afterwards.                *)

Snapshot(m) == [cutOff |-> IsQuarantined(row[m], authRequired),
                authRequired |-> authRequired]

Peers(m, s) ==
    [n \in Machines |->
        IF \/ n = m \/ s.cutOff \/ ~Live(n)
           \/ IsQuarantined(row[n], s.authRequired)
        THEN "hidden"
        ELSE IF HasSession(n) THEN "online" ELSE "offline"]

----------------------------------------------------------------------------
(* handlers.PollNetMapHandler *)

(* PollNetMap finds the machine by its keys; the first map is begun. *)
StartPoll(c) ==
    /\ stage[c] = "none"
    /\ Fresh(c)
    /\ Live(PollerOf[c])
    /\ polls < MaxPolls
    /\ polls' = polls + 1
    /\ stage' = [stage EXCEPT ![c] = "mapping"]
    /\ snap' = [snap EXCEPT ![c] = Snapshot(PollerOf[c])]
    /\ UNCHANGED <<smVars, dbVars, timeVars, map, shouldUpdate, excused>>

(* The first map is complete; the channel is not registered yet. *)
BuildFirstMap(c) ==
    /\ stage[c] = "mapping"
    /\ stage' = [stage EXCEPT ![c] = "mapped"]
    /\ snap' = [snap EXCEPT ![c] = NoSnap]
    /\ map' = [map EXCEPT ![c] = Peers(PollerOf[c], snap[c])]
    /\ UNCHANGED <<smVars, dbVars, timeVars, shouldUpdate, polls, excused>>

(* The handler of c is gone, and with it the client's map. *)
EndPoll(c) ==
    /\ stage' = [stage EXCEPT ![c] = "none"]
    /\ snap' = [snap EXCEPT ![c] = NoSnap]
    /\ map' = [map EXCEPT ![c] = Nothing]
    /\ shouldUpdate' = [shouldUpdate EXCEPT ![c] = FALSE]
    /\ excused' = [excused EXCEPT ![c] = {}]

(* A read fails or the machine is gone before the channel exists. *)
FailFirstMap(c) ==
    /\ stage[c] \in {"mapping", "mapped"} /\ handler[c] = "none"
    /\ EndPoll(c)
    /\ UNCHANGED <<smVars, dbVars, timeVars, polls>>

RegisterPoll(c, p) ==
    /\ stage[c] = "mapped"
    /\ Register(PollerOf[c], c, p)
    /\ UNCHANGED <<dbVars, timeVars, pollVars, polls, excused>>

WriteFirstMap(c) ==
    /\ EnterLoop(c)
    /\ stage' = [stage EXCEPT ![c] = "looping"]
    /\ UNCHANGED <<dbVars, timeVars, snap, map, shouldUpdate, polls, excused>>

(* Writing the first map fails, after Register and before the defer. *)
FailFirstWrite(c) ==
    /\ Abandon(c)
    /\ EndPoll(c)
    /\ UNCHANGED <<dbVars, timeVars, polls>>

ReceivePing(c) ==
    /\ stage[c] = "looping"
    /\ Receive(c)
    /\ shouldUpdate' = [shouldUpdate EXCEPT ![c] = TRUE]
    /\ UNCHANGED <<dbVars, timeVars, stage, snap, map, polls, excused>>

(* The sync ticker: the machine is looked up and the next map is begun. *)
BeginSync(c) ==
    /\ stage[c] = "looping"
    /\ shouldUpdate[c]
    /\ Live(PollerOf[c])
    /\ stage' = [stage EXCEPT ![c] = "syncing"]
    /\ snap' = [snap EXCEPT ![c] = Snapshot(PollerOf[c])]
    /\ excused' = [excused EXCEPT ![c] = {}]
    /\ UNCHANGED <<smVars, dbVars, timeVars, map, shouldUpdate, polls>>

(* Mutant: the pings that arrived while the map was built are discarded. *)
EndSyncDrains(c) ==
    /\ stage[c] = "syncing"
    /\ stage' = [stage EXCEPT ![c] = "looping"]
    /\ snap' = [snap EXCEPT ![c] = NoSnap]
    /\ map' = [map EXCEPT ![c] = Peers(PollerOf[c], snap[c])]
    /\ shouldUpdate' = [shouldUpdate EXCEPT ![c] = FALSE]
    /\ buf' = [buf EXCEPT ![c] = 0]
    /\ UNCHANGED <<targets, sessions, timers, closed, owner, handler, procVars,
                   dbVars, timeVars, polls, excused>>

(* The map is completed and written; only then is shouldUpdate reset. *)
EndSync(c) ==
    /\ stage[c] = "syncing"
    /\ stage' = [stage EXCEPT ![c] = "looping"]
    /\ snap' = [snap EXCEPT ![c] = NoSnap]
    /\ map' = [map EXCEPT ![c] = Peers(PollerOf[c], snap[c])]
    /\ shouldUpdate' = [shouldUpdate EXCEPT ![c] = FALSE]
    /\ UNCHANGED <<smVars, dbVars, timeVars, polls, excused>>

(* The handler returns: the channel was closed, the client went away, a    *)
(* read or write failed, or the machine is gone.  Deregister is deferred.  *)
LeavePoll(c) ==
    /\ stage[c] \in {"looping", "syncing"}
    /\ DeregisterSuperseded(c) \/ \E p \in Procs : DeregisterCurrent(c, p)
    /\ EndPoll(c)
    /\ UNCHANGED <<dbVars, timeVars, polls>>

(* A handler that has to return whatever its client does. *)
MustLeave(c) ==
    \/ stage[c] = "looping" /\ c \in closed /\ buf[c] = 0
    \/ stage[c] = "looping" /\ shouldUpdate[c] /\ ~Live(PollerOf[c])

----------------------------------------------------------------------------
(* Calls that change the repository and then NotifyAll.  Between the save  *)
(* and the walk over the sessions, process p is "calling".                 *)

CountChange == changes < MaxChanges /\ changes' = changes + 1

SaveMachineAndNotify(m, r, p) ==
    /\ Live(m)
    /\ CountChange
    /\ row' = [row EXCEPT ![m] = r]
    /\ CallNotifyAll(p)
    /\ UNCHANGED <<authRequired, timeVars, pollVars, polls, excused>>

AuthorizeMachine(m, p) ==
    SaveMachineAndNotify(m, [row[m] EXCEPT !.authorized = TRUE], p)

(* The expiry becomes a moment long past. *)
ExpireMachine(m, p) ==
    SaveMachineAndNotify(
        m, [row[m] EXCEPT !.expiresAt = 0, !.expiryDisabled = FALSE], p)

(* A client logs out: it registers again with an expiry in the past.  An   *)
(* ephemeral machine is deleted instead.                                   *)
Logout(m, ephemeral, p) ==
    /\ ~IsExpired(row[m])
    /\ SaveMachineAndNotify(
         m, IF ephemeral THEN [row[m] EXCEPT !.status = "deleted"]
            ELSE [row[m] EXCEPT !.expiresAt = 0], p)

(* A poll without stream: it reports endpoints and host information, which *)
(* no map of this model shows, and notifies all the same.                  *)
ReportEndpoints(m, p) == SaveMachineAndNotify(m, row[m], p)

SetMachineKeyExpiry(m, disabled, p) ==
    SaveMachineAndNotify(m, [row[m] EXCEPT !.expiryDisabled = disabled], p)

DeleteMachine(m, p) ==
    SaveMachineAndNotify(m, [row[m] EXCEPT !.status = "deleted"], p)

(* UpdateTailnet with a new value of MachineAuthorizationEnabled. *)
UpdateTailnet(required, p) ==
    /\ CountChange
    /\ authRequired' = required
    /\ CallNotifyAll(p)
    /\ UNCHANGED <<row, timeVars, pollVars, polls, excused>>

(* Calls that change the repository and notify nobody. *)

Unannounced(why) ==
    excused' = [c \in Chans |-> IF stage[c] = "none" THEN excused[c]
                                ELSE excused[c] \cup {why}]

(* EnableMachineAuthorization and DisableMachineAuthorization. *)
SetMachineAuthorization(required) ==
    /\ CountChange
    /\ authRequired' = required
    /\ Unannounced("silent")
    /\ UNCHANGED <<smVars, row, timeVars, pollVars, polls>>

(* A machine registers: a new row, or a new key and expiry in the old one. *)
(* A new row may take its expiry from the request.  Its peers hear of it   *)
(* from the timer of its next poll.                                        *)
RegisterMachine(m, preAuthorized, tagged, expiry) ==
    /\ CountChange
    /\ row[m].status # "deleted"
    /\ row' = [row EXCEPT ![m] =
                 IF @.status = "live" THEN [@ EXCEPT !.expiresAt = MaxClock]
                 ELSE [status |-> "live",
                       authorized |-> ~authRequired \/ preAuthorized,
                       expiryDisabled |-> tagged,
                       expiresAt |-> expiry]]
    /\ Unannounced("silent")
    /\ UNCHANGED <<smVars, authRequired, timeVars, pollVars, polls>>

----------------------------------------------------------------------------
(* core.worker: the expiry sweeper.  The tick it handles was stamped       *)
(* before the sweep runs, so the window ends before now.                   *)

(* Mutant: the window is open at its end. *)
ExpiredStrictlyBetween(from, to) ==
    {m \in Machines : /\ Live(m)
                      /\ ~row[m].expiryDisabled
                      /\ from < row[m].expiresAt /\ row[m].expiresAt < to}

ExpiredBetween(from, to) ==
    {m \in Machines : /\ Live(m)
                      /\ ~row[m].expiryDisabled
                      /\ from < row[m].expiresAt /\ row[m].expiresAt <= to}

SweepTicks == prev + 1 .. clock - 1

SweepAndNotify(to, p) ==
    /\ ExpiredBetween(prev, to) # {}
    /\ prev' = to
    /\ CallNotifyAll(p)
    /\ UNCHANGED <<dbVars, clock, pollVars, polls, excused>>

SweepNothing(to) ==
    /\ ExpiredBetween(prev, to) = {}
    /\ prev' = to
    /\ UNCHANGED <<smVars, dbVars, clock, pollVars, polls, excused>>

(* The query fails: the error is logged, the window is given up. *)
SweepFails(to) ==
    /\ MayFail
    /\ prev' = to
    /\ Unannounced("failed")
    /\ UNCHANGED <<smVars, dbVars, clock, pollVars, polls>>

Tick ==
    /\ clock < MaxClock
    /\ clock' = clock + 1
    /\ UNCHANGED <<smVars, dbVars, prev, pollVars, polls, excused>>

----------------------------------------------------------------------------
(* A NotifyAll misses the polls that have read the repository for their    *)
(* first map and have not registered yet.                                  *)
BeginNotify(p) ==
    /\ NotifyAllBegin(p)
    /\ excused' = [c \in Chans |->
                     IF stage[c] # "none" /\ handler[c] = "none"
                     THEN excused[c] \cup {"window"} ELSE excused[c]]
    /\ UNCHANGED <<dbVars, timeVars, pollVars, polls>>

ProcStep(p) ==
    /\ \/ Fire(p)
       \/ CheckSession(p)
       \/ \E c \in Chans : NotifyAllSend(p, c)
       \/ NotifyAllEnd(p)
    /\ UNCHANGED <<dbVars, timeVars, pollVars, polls, excused>>

PollStep(c) ==
    \/ BuildFirstMap(c)
    \/ \E p \in Procs : RegisterPoll(c, p)
    \/ WriteFirstMap(c)
    \/ ReceivePing(c)
    \/ BeginSync(c)
    \/ EndSync(c)

AdminStep ==
    \/ \E m \in Machines, p \in Procs :
        \/ AuthorizeMachine(m, p)
        \/ ExpireMachine(m, p)
        \/ \E disabled \in BOOLEAN : SetMachineKeyExpiry(m, disabled, p)
        \/ \E ephemeral \in BOOLEAN : Logout(m, ephemeral, p)
        \/ DeleteMachine(m, p)
        \/ ReportEndpoints(m, p)
    \/ \E required \in BOOLEAN :
        \/ \E p \in Procs : UpdateTailnet(required, p)
        \/ SetMachineAuthorization(required)
    \/ \E m \in Machines, preAuthorized, tagged \in BOOLEAN, expiry \in 0 .. MaxClock :
        RegisterMachine(m, preAuthorized, tagged, expiry)

SweepStep ==
    \E to \in SweepTicks :
        \/ \E p \in Procs : SweepAndNotify(to, p)
        \/ SweepNothing(to)

NMNext ==
    \/ \E c \in Chans :
        \/ StartPoll(c)
        \/ FailFirstMap(c)
        \/ FailFirstWrite(c)
        \/ PollStep(c)
        \/ LeavePoll(c)
    \/ \E p \in Procs : BeginNotify(p) \/ ProcStep(p)
    \/ AdminStep
    \/ SweepStep
    \/ \E to \in SweepTicks : SweepFails(to)
    \/ Tick

NMSpec == NMInit /\ [][NMNext]_nmVars

(* Time passes, the sweeper's ticker ticks, goroutines run, and a handler  *)
(* whose client stays goes on with its loop and returns when it must.      *)
(* Nothing makes a client or an administrator act.                         *)
NMFairness ==
    /\ WF_nmVars(Tick)
    /\ WF_nmVars(SweepStep)
    /\ \A p \in Procs : WF_nmVars(BeginNotify(p)) /\ WF_nmVars(ProcStep(p))
    /\ \A c \in Chans :
        /\ WF_nmVars(BuildFirstMap(c) \/ \E p \in Procs : RegisterPoll(c, p))
        /\ WF_nmVars(WriteFirstMap(c))
        /\ WF_nmVars(ReceivePing(c))
        /\ WF_nmVars(BeginSync(c) \/ EndSync(c))
        /\ WF_nmVars(MustLeave(c) /\ LeavePoll(c))

NMFairSpec == NMSpec /\ NMFairness

----------------------------------------------------------------------------
(* The poll that serves its machine's client at the moment. *)
Serving(c) ==
    /\ stage[c] \in {"looping", "syncing"}
    /\ targets[PollerOf[c]] = c
    /\ Live(PollerOf[c])

(* The client has the map it would get if it asked now. *)
UpToDate(c) == map[c] = Peers(PollerOf[c], Snapshot(PollerOf[c]))

(* Something is under way that will make handler c build another map. *)
UpdateOwed(c) ==
    \/ buf[c] > 0 \/ shouldUpdate[c]
    \/ \E p \in Procs : c \in todo[p]
    \/ \E p \in Procs :
        /\ PollerOf[c] \notin Ignored(p)
        /\ \/ pc[p] = "calling"
           \/ /\ pc[p] \in {"armed", "woken"}
              /\ HasSession(about[p]) <=> role[p] = "connect"
    \/ \E m \in Machines : IsExpired(row[m]) /\ row[m].expiresAt > prev

(* No update is lost between the repository and a client: a client whose   *)
(* map is out of date has an update coming, through a save not yet         *)
(* announced, a timer, a ping on its way, in its buffer or just taken, or  *)
(* a sweep still to run; except for the changes that are announced to      *)
(* nobody and for a NotifyAll that fell between the first map and          *)
(* Register.                                                               *)
NoLostUpdate ==
    \A c \in Chans : Serving(c) /\ excused[c] = {} =>
        UpToDate(c) \/ UpdateOwed(c)

(* An out-of-date map does not stay: with the same exceptions, a client    *)
(* that stays connected gets the map that was current at some later time.  *)
EveryClientCatchesUp ==
    \A c \in Chans :
        Serving(c) /\ excused[c] = {} /\ ~UpToDate(c)
            ~> ~Serving(c) \/ excused[c] # {} \/ UpToDate(c)

(* "A background sweep (every minute) pushes the update when a key lapses  *)
(* on its own": an expired machine disappears from every connected peer's  *)
(* map.                                                                    *)
LapsedKeyIsRemoved ==
    \A c \in Chans, n \in Machines :
        Serving(c) /\ Live(n) /\ IsExpired(row[n])
            ~> \/ ~Serving(c) \/ map[c][n] = "hidden"
               \/ ~Live(n) \/ ~IsExpired(row[n])
=============================================================================
