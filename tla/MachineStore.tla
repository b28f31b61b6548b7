---------------------------- MODULE MachineStore ----------------------------
(***************************************************************************)
(* The machines table of one tailnet and the requests that change it:      *)
(* internal/domain/machine.go as used by internal/handlers/registration.go *)
(* and poll_net_map.go, internal/service/machine.go and the reaper of      *)
(* internal/core/worker.go.                                                *)
(*                                                                         *)
(* A request reads a row into memory, changes its copy, perhaps queries    *)
(* the table for a name index or an address, and saves the whole copy.     *)
(* Every query and every save is a step of its own.                        *)
(***************************************************************************)
EXTENDS Naturals, FiniteSets, FiniteSetsExt

CONSTANTS
    Reqs,       \* requests that are served at the same time (a bound)
    Ids,        \* ids that util.NextID hands out
    Devices,    \* machine keys
    Users,      \* users of the tailnet, its service user among them
    Names,      \* host names
    Addrs,      \* the address range
    Prefixes,   \* routes that may be advertised, ExitRoute among them
    ExitRoute,  \* the pair of default routes
    AutoRoutes, \* what FindAutoApprovedIPs lets through
    MaxIdx,     \* the largest name index considered (a bound)
    Loads,      \* workloads: kinds of request, the names and routes they
                \* mention, the pre-auth keys in use (their user and what they
                \* grant) and the table to begin with
    NoRow, NoName, NoAddr, NoId

VARIABLES
    rows,       \* id -> its row, or NoRow
    load,       \* the workload of this behaviour; it does not change
    used,       \* ids that have been handed out
    req,        \* request -> what it is doing
    reap,       \* machines the reaper has listed and not yet deleted
    crowded,    \* history: two registrations have overlapped
    overwritten,\* history: a save has overwritten a change it had not read
    disabled    \* history: <<id, route>> that was disabled and not enabled since

storeVars == <<rows, load, used, req, reap, crowded, overwritten, disabled>>

(* client is the machine key and the user: one device has a row under each *)
(* user it registers for.                                                  *)
Rows == [client : Devices \X Users, name : Names \cup {NoName}, idx : 0 .. MaxIdx,
         useOSHostname : BOOLEAN, host : Names \cup {NoName},
         addr : Addrs \cup {NoAddr}, authorized : BOOLEAN,
         keyExpiryDisabled : BOOLEAN, lapsed : BOOLEAN, ephemeral : BOOLEAN,
         lastSeen : {"never", "long ago", "recently"},
         routable : SUBSET Prefixes, allow : SUBSET Prefixes,
         autoAllow : SUBSET Prefixes]

(* Rows with different names, addresses and clients. *)
Apart(row, other) == /\ row.name # other.name \/ row.idx # other.idx
                     /\ row.addr # other.addr /\ row.client # other.client

ASSUME StoreAssumption ==
    /\ MaxIdx \in Nat /\ ExitRoute \in Prefixes
    /\ \A l \in Loads : /\ DOMAIN l.start = Ids
                        /\ \A i \in Ids : l.start[i] = NoRow \/ l.start[i] \in Rows
                        /\ \A i, j \in {k \in Ids : l.start[k] # NoRow} :
                              i = j \/ Apart(l.start[i], l.start[j])

(* A request that is not there.  pc is "idle", "naming", "addressing",     *)
(* "saving" or "deleting".                                                 *)
Idle == [pc |-> "idle", kind |-> "none", id |-> NoId, host |-> NoName,
         base |-> NoRow, copy |-> NoRow]

StoreInit ==
    /\ load \in Loads
    /\ rows = load.start
    /\ used = {i \in Ids : load.start[i] # NoRow}
    /\ req = [r \in Reqs |-> Idle]
    /\ reap = {}
    /\ crowded = FALSE
    /\ overwritten = FALSE
    /\ disabled = {}

Live == {i \in Ids : rows[i] # NoRow}

IsExpired(row) == ~row.keyExpiryDisabled /\ row.lapsed

----------------------------------------------------------------------------
(* Reading a row, and what the handler changes in its copy *)

(* GetMachine and its variants: request r holds a copy of row i. *)
Fetch(r, kind, i, copy, pc, host) ==
    /\ req[r].pc = "idle"
    /\ kind \in load.kinds
    /\ i \in Live
    /\ req' = [req EXCEPT ![r] = [pc |-> pc, kind |-> kind, id |-> i,
                                  host |-> host, base |-> rows[i],
                                  copy |-> copy]]
    /\ UNCHANGED <<load, rows, used, reap, crowded, overwritten, disabled>>

AuthorizeMachine(r, i) ==
    /\ i \in Live /\ ~rows[i].authorized
    /\ Fetch(r, "authorize", i, [rows[i] EXCEPT !.authorized = TRUE],
                 "saving", NoName)

ExpireMachine(r, i) ==
    Fetch(r, "expire", i, [rows[i] EXCEPT !.lapsed = TRUE,
                                              !.keyExpiryDisabled = FALSE],
              "saving", NoName)

SetMachineKeyExpiry(r, i, off) ==
    Fetch(r, "keyExpiry", i, [rows[i] EXCEPT !.keyExpiryDisabled = off],
              "saving", NoName)

(* EnableMachineRoutes; replace forgets what was enabled before. *)
EnableMachineRoutes(r, i, routes, replace) ==
    Fetch(r, "enable", i,
              [rows[i] EXCEPT !.allow = routes \cup (IF replace THEN {} ELSE @),
                              !.autoAllow = IF replace THEN {} ELSE @],
              "saving", NoName)

DisableMachineRoutes(r, i, routes) ==
    Fetch(r, "disable", i, [rows[i] EXCEPT !.allow = @ \ routes,
                                              !.autoAllow = @ \ routes],
              "saving", NoName)

EnableExitNode(r, i) ==
    /\ i \in Live /\ ExitRoute \in rows[i].routable
    /\ Fetch(r, "enable", i, [rows[i] EXCEPT !.allow = @ \cup {ExitRoute}],
                 "saving", NoName)

DisableExitNode(r, i) ==
    /\ i \in Live /\ ExitRoute \in rows[i].routable
    /\ DisableMachineRoutes(r, i, {ExitRoute})

(* SetMachineName with a name: its index must be 0. *)
SetMachineName(r, i, n) ==
    /\ i \in Live /\ n # rows[i].name
    /\ Fetch(r, "rename", i, [rows[i] EXCEPT !.useOSHostname = FALSE],
                 "naming", n)

(* SetMachineName with UseOsHostname, whatever the name is now. *)
SetMachineOSName(r, i) ==
    Fetch(r, "osName", i, [rows[i] EXCEPT !.useOSHostname = TRUE],
              "naming", rows[i].host)

DeleteMachine(r, i) ==
    Fetch(r, "delete", i, rows[i], "deleting", NoName)

(* The machine takes its host's name unless an admin has given it one. *)
NamingOrSaving(row, n) ==
    IF row.useOSHostname /\ row.name # n THEN "naming" ELSE "saving"

(* A poll without stream.  Auto-approval is decided anew only when the     *)
(* advertised routes have changed.                                         *)
ReportAlwaysApproves(r, i, n, advertised) == \* Mutant: decided at every report
    Fetch(r, "report", i,
              [rows[i] EXCEPT !.host = n, !.lastSeen = "recently",
                              !.routable = advertised,
                              !.autoAllow = advertised \cap AutoRoutes],
              NamingOrSaving(rows[i], n), n)

ReportRenewsKey(r, i, n, advertised) == \* Mutant: a report renews the key
    Fetch(r, "report", i,
          [rows[i] EXCEPT !.host = n, !.lastSeen = "recently", !.lapsed = FALSE],
          NamingOrSaving(rows[i], n), n)

ReportHostInfo(r, i, n, advertised) ==
    Fetch(r, "report", i,
              [rows[i] EXCEPT !.host = n, !.lastSeen = "recently",
                              !.routable = advertised,
                              !.autoAllow = IF advertised = rows[i].routable
                                            THEN @ ELSE advertised \cap AutoRoutes],
              NamingOrSaving(rows[i], n), n)

(* Register for a known pair of keys: nothing but the name may change. *)
Reregister(r, i, n) ==
    /\ i \in Live /\ ~IsExpired(rows[i])
    /\ Fetch(r, "reregister", i, rows[i], NamingOrSaving(rows[i], n), n)

(* Register with an expiry in the past. *)
Logout(r, i) ==
    /\ i \in Live /\ ~IsExpired(rows[i])
    /\ Fetch(r, "logout", i, [rows[i] EXCEPT !.lapsed = TRUE],
                 IF rows[i].ephemeral THEN "deleting" ELSE "saving", NoName)

Registering(r) == req[r].kind = "register"

(* authenticateMachineWithAuthKey for a machine that is not known yet.  The *)
(* tailnet requires authorization; where it does not, every key behaves as *)
(* a pre-authorized one.  Tags switch the key's expiry off.                *)
BeginRegistration(r, i, d, n, key, advertised) ==
    /\ i \in Ids \ used
    /\ req[r].pc = "idle" /\ "register" \in load.kinds
    /\ req' = [req EXCEPT ![r] =
                 [pc |-> "naming", kind |-> "register", id |-> i, host |-> n,
                  base |-> NoRow,
                  copy |-> [client |-> <<d, key.user>>, name |-> n, idx |-> 0,
                            useOSHostname |-> TRUE, host |-> NoName,
                            addr |-> NoAddr, authorized |-> key.preAuthorized,
                            keyExpiryDisabled |-> key.tagged, lapsed |-> FALSE,
                            ephemeral |-> key.ephemeral, lastSeen |-> "never",
                            routable |-> {}, allow |-> {},
                            autoAllow |-> advertised \cap AutoRoutes]]]
    /\ used' = used \cup {i}
    /\ crowded' = (crowded \/ \E q \in Reqs : Registering(q))
    /\ UNCHANGED <<load, rows, reap, overwritten, disabled>>

(* GetMachineByKeyAndUser has found nothing. *)
RegisterNew(r, i, d, n, key, advertised) ==
    /\ \A j \in Live : rows[j].client # <<d, key.user>>
    /\ BeginRegistration(r, i, d, n, key, advertised)

(* ... and for one that registers again, with a new node key. *)
RegisterKnown(r, i, n, key, advertised) ==
    /\ i \in Live /\ rows[i].client[2] = key.user
    /\ Fetch(r, "rekey", i,
             [rows[i] EXCEPT !.ephemeral = key.ephemeral, !.lapsed = FALSE,
                             !.autoAllow = advertised \cap AutoRoutes],
             NamingOrSaving(rows[i], n), n)

----------------------------------------------------------------------------
(* The queries between the read and the save *)

(* GetNextMachineNameIndex; the machine that asks is counted as well. *)
NextMachineNameIndex(n) ==
    LET taken == {rows[i].idx : i \in {j \in Live : rows[j].name = n}}
    IN  IF taken = {} THEN 0 ELSE Max(taken) + 1

Finished(r) == [req EXCEPT ![r] = Idle]

(* A given name must be free, otherwise SetMachineName is refused. *)
AssignName(r) ==
    LET n == req[r].host
        idx == NextMachineNameIndex(n)
    IN  /\ req[r].pc = "naming"
        /\ idx <= MaxIdx
        /\ req' = IF req[r].kind = "rename" /\ idx > 0
                  THEN Finished(r)
                  ELSE [req EXCEPT ![r].copy.name = n, ![r].copy.idx = idx,
                                   ![r].pc = IF Registering(r) THEN "addressing"
                                             ELSE "saving"]
        /\ UNCHANGED <<load, rows, used, reap, crowded, overwritten, disabled>>

(* selectIP starts anywhere and stops at the first address nobody has.  It *)
(* never stops when the range is exhausted: then this step is not enabled. *)
SelectAnyIP(r) == \* Mutant: the predicate is not asked
    /\ req[r].pc = "addressing"
    /\ \E a \in Addrs : req' = [req EXCEPT ![r].copy.addr = a, ![r].pc = "saving"]
    /\ UNCHANGED <<load, rows, used, reap, crowded, overwritten, disabled>>

SelectIP(r) ==
    /\ req[r].pc = "addressing"
    /\ \E a \in Addrs :
          /\ \A i \in Live : rows[i].addr # a
          /\ req' = [req EXCEPT ![r].copy.addr = a, ![r].pc = "saving"]
    /\ UNCHANGED <<load, rows, used, reap, crowded, overwritten, disabled>>

----------------------------------------------------------------------------
(* Writing *)

(* The unique index on tailnet, name and name index *)
NameTaken(i, row) ==
    \E j \in Live \ {i} : rows[j].name = row.name /\ rows[j].idx = row.idx

Allowed(row) == row.allow \cup row.autoAllow

(* What a save does to the routes an admin has disabled. *)
DisabledAfter(i, kind, base, copy) ==
    LET removed == {<<i, p>> : p \in Allowed(base) \ Allowed(copy)}
        granted == {<<i, p>> : p \in Allowed(copy)}
        decides == \/ kind \in {"enable", "rekey"}
                   \/ kind = "report" /\ base.routable # copy.routable
    IN  CASE kind = "disable" -> disabled \cup removed
          [] decides          -> disabled \ granted
          [] OTHER            -> disabled

SaveRefused(r) ==
    /\ req[r].pc = "saving"
    /\ NameTaken(req[r].id, req[r].copy)
    /\ req' = Finished(r)
    /\ UNCHANGED <<load, rows, used, reap, crowded, overwritten, disabled>>

(* Save writes every column of the copy, and inserts the row when there is *)
(* none with its id: a new machine comes with an id and is saved this way. *)
SaveMachine(r) ==
    LET i == req[r].id
    IN  /\ req[r].pc = "saving"
        /\ ~NameTaken(i, req[r].copy)
        /\ rows' = [rows EXCEPT ![i] = req[r].copy]
        /\ overwritten' = (overwritten \/ rows[i] # req[r].base)
        /\ disabled' = DisabledAfter(i, req[r].kind, req[r].base, req[r].copy)
        /\ req' = Finished(r)
        /\ UNCHANGED <<load, used, reap, crowded>>

DeleteRow(r) ==
    /\ req[r].pc = "deleting"
    /\ rows' = [rows EXCEPT ![req[r].id] = NoRow]
    /\ req' = Finished(r)
    /\ UNCHANGED <<load, used, reap, crowded, overwritten, disabled>>

----------------------------------------------------------------------------
(* The time a machine was last seen, and the reaper *)

(* SetMachineLastSeen writes its one column, at every keep-alive. *)
SetMachineLastSeen(i) ==
    /\ "seen" \in load.kinds
    /\ i \in Live
    /\ rows' = [rows EXCEPT ![i].lastSeen = "recently"]
    /\ UNCHANGED <<load, used, req, reap, crowded, overwritten, disabled>>

(* inactivityTimeout passes.  It is far longer than a request takes. *)
Silence(i) ==
    /\ "seen" \in load.kinds
    /\ i \in Live /\ rows[i].lastSeen = "recently"
    /\ \A r \in Reqs : req[r].id # i
    /\ i \notin reap
    /\ rows' = [rows EXCEPT ![i].lastSeen = "long ago"]
    /\ UNCHANGED <<load, used, req, reap, crowded, overwritten, disabled>>

(* ListInactiveEphemeralMachines; a NULL last_seen is not before any time. *)
InactiveMisread == \* Mutant: the comparison is the wrong way round
    {i \in Live : rows[i].ephemeral /\ rows[i].lastSeen = "recently"}

InactiveEphemeral ==
    {i \in Live : rows[i].ephemeral /\ rows[i].lastSeen = "long ago"}

ReaperLists ==
    /\ "seen" \in load.kinds
    /\ reap = {} /\ InactiveEphemeral # {}
    /\ reap' = InactiveEphemeral
    /\ UNCHANGED <<load, rows, used, req, crowded, overwritten, disabled>>

(* The rows as listed decide; the table is not read again. *)
ReaperDeletes(i) ==
    /\ i \in reap
    /\ reap' = reap \ {i}
    /\ rows' = [rows EXCEPT ![i] = NoRow]
    /\ UNCHANGED <<load, used, req, crowded, overwritten, disabled>>

----------------------------------------------------------------------------
AdminRequest(r, i) ==
    \/ AuthorizeMachine(r, i) \/ ExpireMachine(r, i) \/ DeleteMachine(r, i)
    \/ \E off \in BOOLEAN : SetMachineKeyExpiry(r, i, off)
    \/ \E routes \in SUBSET load.routes :
          \/ DisableMachineRoutes(r, i, routes)
          \/ \E replace \in BOOLEAN : EnableMachineRoutes(r, i, routes, replace)
    \/ EnableExitNode(r, i) \/ DisableExitNode(r, i)
    \/ SetMachineOSName(r, i)
    \/ \E n \in load.names : SetMachineName(r, i, n)

ClientRequest(r, i) ==
    \/ Logout(r, i)
    \/ \E n \in load.names :
          \/ Reregister(r, i, n)
          \/ \E adv \in SUBSET load.routes :
                \/ ReportHostInfo(r, i, n, adv)
                \/ \E key \in load.keys :
                      \/ RegisterKnown(r, i, n, key, adv)
                      \/ \E d \in Devices : RegisterNew(r, i, d, n, key, adv)

Progress(r) ==
    \/ AssignName(r) \/ SelectIP(r) \/ SaveMachine(r) \/ SaveRefused(r)
    \/ DeleteRow(r)

Reaper == ReaperLists \/ \E i \in Ids : ReaperDeletes(i)

StoreNext ==
    \/ \E r \in Reqs : Progress(r)
    \/ \E r \in Reqs, i \in Ids : AdminRequest(r, i) \/ ClientRequest(r, i)
    \/ \E i \in Ids : SetMachineLastSeen(i) \/ Silence(i)
    \/ Reaper

StoreSpec == StoreInit /\ [][StoreNext]_storeVars

(* A handler that was begun goes on, and the reaper's ticker ticks. *)
FairStoreSpec ==
    /\ StoreSpec
    /\ \A r \in Reqs : WF_storeVars(Progress(r))
    /\ WF_storeVars(Reaper)

----------------------------------------------------------------------------
(* Properties *)

(* Whatever overlaps, no two machines of a tailnet have the same complete  *)
(* name: GetNextMachineNameIndex is not atomic with the save, the unique   *)
(* index refuses the second of two requests that got one index.  No index  *)
(* guards addresses, nor the pair of machine key and user by which         *)
(* GetMachineByKeyAndUser finds the row of a device that registers again   *)
(* (a device may have rows under several users).  Both are unique as long  *)
(* as no two registrations overlap and no save overwrites what it has not  *)
(* read: no other request, the reaper's deletions included, endangers the  *)
(* look-up and the address authenticateMachineWithAuthKey relies on.       *)
UniqueMachines ==
    \A i, j \in Live :
        \/ rows[i].name = rows[j].name /\ rows[i].idx = rows[j].idx
        \/ /\ rows[i].addr = rows[j].addr \/ rows[i].client = rows[j].client
           /\ ~crowded /\ ~overwritten
        => i = j

(* A route an admin has disabled stays disabled until an admin enables it, *)
(* the machine advertises other routes or registers anew: a report of the  *)
(* same routes does not auto-approve it again (handlePollNetMap).          *)
DisabledRoutesStay ==
    ~overwritten =>
        \A i \in Live : \A p \in Allowed(rows[i]) : <<i, p>> \notin disabled

(* The save of row i that ends request r in this step *)
SavedBy(r, i) == req[r].pc = "saving" /\ req[r].id = i /\ req'[r].pc = "idle"

(* An expired machine comes back only by registering again or by a change  *)
(* of its key expiry.  The comment on IsQuarantined says that revoking      *)
(* access takes effect at the next netmap push; a save of an older copy     *)
(* undoes ExpireMachine.                                                    *)
ExpiryKept ==
    [][\A i \in Live : rows'[i] # NoRow /\ IsExpired(rows[i]) /\ ~IsExpired(rows'[i])
            => \E r \in Reqs : SavedBy(r, i) /\ req[r].kind \in {"rekey", "keyExpiry"}
      ]_storeVars

(* The same as long as no save has overwritten a change it had not read:   *)
(* no handler, taken by itself, revives an expired machine.                *)
ExpiryKeptUnlessOverwritten ==
    [][\A i \in Live : /\ ~overwritten' /\ rows'[i] # NoRow
                       /\ IsExpired(rows[i]) /\ ~IsExpired(rows'[i])
            => \E r \in Reqs : SavedBy(r, i) /\ req[r].kind \in {"rekey", "keyExpiry"}
      ]_storeVars

(* An ephemeral machine that was seen and has gone silent is removed, if   *)
(* it does not show up again or register with another key first.           *)
EphemeralRemoved ==
    LET gone(i) == /\ i \in Live
                   /\ rows[i].ephemeral /\ rows[i].lastSeen = "long ago"
    IN  \A i \in Ids : gone(i) ~> ~gone(i)
=============================================================================
