-------------------------- MODULE MachineStoreProofs --------------------------
(***************************************************************************)
(* Theorems about the machines table, for any number of requests, clients, *)
(* names, addresses, routes and workloads.                                 *)
(*                                                                         *)
(* A request carries the row as it read it (base) and as it will save it   *)
(* (copy).  The argument relates the two (EditOK): which columns a handler *)
(* may change is known from its kind, and as long as no save overwrites a  *)
(* change it has not read, base is the row in the table when the copy      *)
(* replaces it.  A registration has no base: its id is new, and what it    *)
(* looked up before -- no such client, nobody with that address -- stays   *)
(* true until it saves, because only registrations bring new ones.         *)
(***************************************************************************)
EXTENDS MachineStore, TLAPS

ReqFields == {"pc", "kind", "id", "host", "base", "copy"}
RowFields == {"client", "name", "idx", "useOSHostname", "host", "addr", "authorized",
              "keyExpiryDisabled", "lapsed", "ephemeral", "lastSeen", "routable", "allow",
              "autoAllow"}

(* The kinds of request that may approve a route. *)
Decides(q) == \/ q.kind \in {"enable", "rekey"}
              \/ q.kind = "report" /\ q.base.routable # q.copy.routable

(* What a handler changes in the row that it has read. *)
EditOK(q) ==
    /\ q.base # NoRow /\ q.pc # "addressing"
    /\ q.copy.client = q.base.client /\ q.copy.addr = q.base.addr
    /\ Decides(q) \/ Allowed(q.copy) \subseteq Allowed(q.base)
    /\ q.kind \in {"rekey", "keyExpiry"} \/ (IsExpired(q.base) => IsExpired(q.copy))

RequestOK(q) ==
    /\ DOMAIN q = ReqFields
    /\ q.pc \in {"idle", "naming", "addressing", "saving", "deleting"}
    /\ q.pc = "idle" => q.kind = "none"
    /\ q.pc # "idle" => q.id \in Ids /\ DOMAIN q.copy = RowFields
    /\ q.kind = "register" => q.base = NoRow /\ q.pc # "deleting"
    /\ q.pc # "idle" /\ q.kind # "register" => EditOK(q)

Tables ==
    /\ DOMAIN rows = Ids /\ DOMAIN req = Reqs
    /\ \A i \in Live : DOMAIN rows[i] = RowFields /\ i \in used
    /\ \A x \in disabled : x[1] \in used

Requests == \A r \in Reqs : /\ RequestOK(req[r])
                            /\ req[r].pc # "idle" => req[r].id \in used

(* Registrations have ids of their own, and nothing is known of an id      *)
(* before its registration saves.                                          *)
FreshIds ==
    /\ \A r, q \in Reqs : Registering(r) /\ Registering(q) /\ req[r].id = req[q].id => r = q
    /\ ~overwritten => \A r \in Reqs : Registering(r) =>
          rows[req[r].id] = NoRow /\ \A p : <<req[r].id, p>> \notin disabled

(* What a registration has looked up is still so. *)
LookedUp ==
    ~crowded =>
        /\ \A r, q \in Reqs : Registering(r) /\ Registering(q) => r = q
        /\ ~overwritten => \A r \in Reqs : Registering(r) => \A j \in Live :
              /\ rows[j].client # req[r].copy.client
              /\ req[r].pc = "saving" => rows[j].addr # req[r].copy.addr

(* The inductive invariant. *)
StoreInv ==
    /\ Tables /\ Requests /\ FreshIds /\ LookedUp /\ UniqueMachines /\ DisabledRoutesStay

----------------------------------------------------------------------------
(* Steps that leave the table alone *)

(* A request goes on (or is given up).  What a registration looked up      *)
(* before, or looks up now, is what the table says.                        *)
LEMMA RequestStep ==
    ASSUME StoreInv, NEW r \in Reqs, NEW q,
           req' = [req EXCEPT ![r] = q],
           UNCHANGED <<rows, used, crowded, overwritten, disabled>>,
           RequestOK(q), q.pc # "idle" => q.id \in used,
           q.kind = "register" =>
               /\ Registering(r) /\ q.id = req[r].id
               /\ q.copy.client = req[r].copy.client
               /\ q.pc = "saving" => \/ \A j \in Live : rows[j].addr # q.copy.addr
                                     \/ req[r].pc = "saving" /\ q.copy.addr = req[r].copy.addr
    PROVE  StoreInv'
  <1>1. DOMAIN req' = Reqs /\ \A s \in Reqs : req'[s] = IF s = r THEN q ELSE req[s]
    BY Zenon DEF StoreInv, Tables
  <1>2. Live' = Live
    BY Zenon DEF Live
  <1>3. Tables'
    BY <1>1, <1>2, Zenon DEF StoreInv, Tables
  <1>4. Requests'
    BY <1>1, ZenonT(30) DEF StoreInv, Requests, RequestOK
  <1>5. \A s \in Reqs : Registering(s)' => Registering(s) /\ req'[s].id = req[s].id
    BY <1>1, Zenon DEF Registering
  <1>6. FreshIds'
    BY <1>5 DEF StoreInv, FreshIds
  <1>7. LookedUp'
    <2>1. ASSUME ~crowded, ~overwritten, NEW s \in Reqs, Registering(s)', NEW j \in Live
          PROVE  /\ rows[j].client # req'[s].copy.client
                 /\ req'[s].pc = "saving" => rows[j].addr # req'[s].copy.addr
      BY <1>1, <1>5, <2>1 DEF StoreInv, LookedUp, Registering
    <2> QED
      BY <1>2, <1>5, <2>1, Zenon DEF StoreInv, LookedUp
  <1>8. UniqueMachines' /\ DisabledRoutesStay'
    BY <1>2 DEF StoreInv, UniqueMachines, DisabledRoutesStay
  <1> QED
    BY <1>3, <1>4, <1>6, <1>7, <1>8, Zenon DEF StoreInv

(* Nothing is carried by a request that is not there. *)
LEMMA IdleOK == RequestOK(Idle) /\ Idle.kind = "none" /\ Idle.pc = "idle"
  BY Zenon DEF Idle, RequestOK, ReqFields

(* A request reads a row and edits its copy. *)
LEMMA FetchStep ==
    ASSUME StoreInv, NEW r \in Reqs, NEW i, NEW kind, NEW copy, NEW pc, NEW host,
           Fetch(r, kind, i, copy, pc, host), kind \notin {"register", "none"},
           pc \in {"naming", "saving", "deleting"},
           DOMAIN copy = RowFields, copy.client = rows[i].client, copy.addr = rows[i].addr,
           \/ kind \in {"enable", "rekey"}
           \/ kind = "report" /\ rows[i].routable # copy.routable
           \/ Allowed(copy) \subseteq Allowed(rows[i]),
           kind \in {"rekey", "keyExpiry"} \/ (IsExpired(rows[i]) => IsExpired(copy))
    PROVE  StoreInv'
  <1>1. PICK base : base = rows[i]
    BY Zenon
  <1>2. PICK q : q = [pc |-> pc, kind |-> kind, id |-> i, host |-> host, base |-> base,
                      copy |-> copy]
    BY Zenon
  <1>3. /\ req' = [req EXCEPT ![r] = q]
        /\ UNCHANGED <<rows, used, crowded, overwritten, disabled>>
        /\ i \in Live
    BY <1>1, <1>2, Zenon DEF Fetch
  <1>4. /\ DOMAIN q = ReqFields /\ q.pc = pc /\ q.kind = kind /\ q.id = i /\ q.base = base
        /\ q.copy = copy
    BY <1>2, Zenon DEF ReqFields
  <1>5. i \in used /\ i \in Ids /\ base # NoRow
    BY <1>1, <1>3, Zenon DEF StoreInv, Tables, Live
  <1>6. EditOK(q)
    BY <1>1, <1>4, <1>5, Zenon DEF EditOK, Decides
  <1>7. RequestOK(q)
    BY <1>4, <1>5, <1>6, Zenon DEF RequestOK
  <1> QED
    BY <1>3, <1>4, <1>5, <1>7, RequestStep, Zenon

(* A copy of the row that was read: the columns that matter here. *)
Copies(copy, row, columns) ==
    DOMAIN copy = RowFields /\ \A c \in columns : copy[c] = row[c]

(* A handler that leaves the routes and the key's expiry alone. *)
LEMMA PlainEdit ==
    ASSUME StoreInv, NEW r \in Reqs, NEW i, NEW kind, NEW copy, NEW pc, NEW host,
           Fetch(r, kind, i, copy, pc, host), kind \notin {"register", "none"},
           pc \in {"naming", "saving", "deleting"},
           Copies(copy, rows[i], {"client", "addr", "allow", "autoAllow"}),
           IsExpired(rows[i]) => IsExpired(copy)
    PROVE  StoreInv'
  <1>1. /\ DOMAIN copy = RowFields /\ copy.client = rows[i].client /\ copy.addr = rows[i].addr
        /\ copy.allow = rows[i].allow /\ copy.autoAllow = rows[i].autoAllow
    BY Zenon DEF Copies
  <1>2. Allowed(copy) \subseteq Allowed(rows[i])
    BY <1>1, Zenon DEF Allowed
  <1> QED
    BY <1>1, <1>2, FetchStep, Zenon

(* What an administrator asks for. *)
LEMMA AdminSteps ==
    ASSUME StoreInv, NEW r \in Reqs, NEW i \in Ids, AdminRequest(r, i)
    PROVE  StoreInv'
  <1> DEFINE plain == {"client", "addr", "allow", "autoAllow"}
  <1>1. i \in Live
    BY Zenon
    DEF AdminRequest, AuthorizeMachine, ExpireMachine, DeleteMachine, SetMachineKeyExpiry,
        DisableMachineRoutes, EnableMachineRoutes, EnableExitNode, DisableExitNode,
        SetMachineOSName, SetMachineName, Fetch
  <1>2. PICK row : row = rows[i] /\ DOMAIN row = RowFields
    BY <1>1, Zenon DEF StoreInv, Tables
  <1>3. CASE AuthorizeMachine(r, i)
    <2>1. PICK copy : copy = [row EXCEPT !.authorized = TRUE]
      BY Zenon
    <2>2. Copies(copy, row, plain) /\ (IsExpired(row) => IsExpired(copy))
      BY <1>2, <2>1, Zenon DEF Copies, RowFields, IsExpired
    <2> QED
      BY <1>2, <1>3, <2>1, <2>2, PlainEdit DEF AuthorizeMachine
  <1>4. CASE ExpireMachine(r, i)
    <2>1. PICK copy : copy = [row EXCEPT !.lapsed = TRUE, !.keyExpiryDisabled = FALSE]
      BY Zenon
    <2>2. Copies(copy, row, plain) /\ (IsExpired(row) => IsExpired(copy))
      BY <1>2, <2>1, Zenon DEF Copies, RowFields, IsExpired
    <2> QED
      BY <1>2, <1>4, <2>1, <2>2, PlainEdit DEF ExpireMachine
  <1>5. CASE DeleteMachine(r, i)
    <2>1. Copies(row, row, plain)
      BY <1>2, Zenon DEF Copies
    <2> QED
      BY <1>2, <1>5, <2>1, PlainEdit DEF DeleteMachine
  <1>6. CASE \E off \in BOOLEAN : SetMachineKeyExpiry(r, i, off)
    <2>1. PICK off \in BOOLEAN : SetMachineKeyExpiry(r, i, off)
      BY <1>6, Zenon
    <2>2. PICK copy : copy = [row EXCEPT !.keyExpiryDisabled = off]
      BY Zenon
    <2>3. /\ DOMAIN copy = RowFields /\ copy.client = row.client /\ copy.addr = row.addr
          /\ copy.allow = row.allow /\ copy.autoAllow = row.autoAllow
      BY <1>2, <2>2, Zenon DEF RowFields
    <2>4. Allowed(copy) \subseteq Allowed(row)
      BY <2>3, Zenon DEF Allowed
    <2>5. Fetch(r, "keyExpiry", i, copy, "saving", NoName)
      BY <1>2, <2>1, <2>2, Zenon DEF SetMachineKeyExpiry
    <2> QED
      BY <1>2, <2>3, <2>4, <2>5, FetchStep
  <1>7. ASSUME NEW routes, DisableMachineRoutes(r, i, routes) PROVE StoreInv'
    <2>1. PICK copy : copy = [row EXCEPT !.allow = @ \ routes, !.autoAllow = @ \ routes]
      BY Zenon
    <2>2. /\ DOMAIN copy = RowFields /\ copy.client = row.client /\ copy.addr = row.addr
          /\ copy.allow = row.allow \ routes /\ copy.autoAllow = row.autoAllow \ routes
          /\ copy.lapsed = row.lapsed /\ copy.keyExpiryDisabled = row.keyExpiryDisabled
      BY <1>2, <2>1, Zenon DEF RowFields
    <2>3. Allowed(copy) \subseteq Allowed(row) /\ (IsExpired(row) => IsExpired(copy))
      BY <2>2, Zenon DEF Allowed, IsExpired
    <2>4. Fetch(r, "disable", i, copy, "saving", NoName)
      BY <1>2, <1>7, <2>1, Zenon DEF DisableMachineRoutes
    <2> QED
      BY <1>2, <2>2, <2>3, <2>4, FetchStep
  <1>8. ASSUME NEW routes, NEW replace \in BOOLEAN, EnableMachineRoutes(r, i, routes, replace)
        PROVE  StoreInv'
    <2>1. PICK copy : copy = [row EXCEPT !.allow = routes \cup (IF replace THEN {} ELSE @),
                                         !.autoAllow = IF replace THEN {} ELSE @]
      BY Zenon
    <2>2. /\ DOMAIN copy = RowFields /\ copy.client = row.client /\ copy.addr = row.addr
          /\ copy.lapsed = row.lapsed /\ copy.keyExpiryDisabled = row.keyExpiryDisabled
      BY <1>2, <2>1, Zenon DEF RowFields
    <2>3. IsExpired(row) => IsExpired(copy)
      BY <2>2, Zenon DEF IsExpired
    <2>4. Fetch(r, "enable", i, copy, "saving", NoName)
      BY <1>2, <1>8, <2>1, Zenon DEF EnableMachineRoutes
    <2> QED
      BY <1>2, <2>2, <2>3, <2>4, FetchStep
  <1>9. CASE EnableExitNode(r, i)
    <2>1. PICK copy : copy = [row EXCEPT !.allow = @ \cup {ExitRoute}]
      BY Zenon
    <2>2. /\ DOMAIN copy = RowFields /\ copy.client = row.client /\ copy.addr = row.addr
          /\ copy.lapsed = row.lapsed /\ copy.keyExpiryDisabled = row.keyExpiryDisabled
      BY <1>2, <2>1, Zenon DEF RowFields
    <2>3. IsExpired(row) => IsExpired(copy)
      BY <2>2, Zenon DEF IsExpired
    <2>4. Fetch(r, "enable", i, copy, "saving", NoName)
      BY <1>2, <1>9, <2>1, Zenon DEF EnableExitNode
    <2> QED
      BY <1>2, <2>2, <2>3, <2>4, FetchStep
  <1>10. CASE SetMachineOSName(r, i)
    <2>1. PICK copy : copy = [row EXCEPT !.useOSHostname = TRUE]
      BY Zenon
    <2>2. Copies(copy, row, plain) /\ (IsExpired(row) => IsExpired(copy))
      BY <1>2, <2>1, Zenon DEF Copies, RowFields, IsExpired
    <2> QED
      BY <1>2, <1>10, <2>1, <2>2, PlainEdit DEF SetMachineOSName
  <1>11. ASSUME NEW n, SetMachineName(r, i, n) PROVE StoreInv'
    <2>1. PICK copy : copy = [row EXCEPT !.useOSHostname = FALSE]
      BY Zenon
    <2>2. Copies(copy, row, plain) /\ (IsExpired(row) => IsExpired(copy))
      BY <1>2, <2>1, Zenon DEF Copies, RowFields, IsExpired
    <2> QED
      BY <1>2, <1>11, <2>1, <2>2, PlainEdit DEF SetMachineName
  <1> QED
    BY <1>3, <1>4, <1>5, <1>6, <1>7, <1>8, <1>9, <1>10, <1>11, Zenon
    DEF AdminRequest, DisableExitNode

(* What the client of a machine that is known asks for. *)
LEMMA ClientSteps ==
    ASSUME StoreInv, NEW r \in Reqs, NEW i \in Live, NEW n, NEW adv, NEW key,
           \/ Logout(r, i) \/ Reregister(r, i, n) \/ ReportHostInfo(r, i, n, adv)
           \/ RegisterKnown(r, i, n, key, adv)
    PROVE  StoreInv'
  <1> DEFINE plain == {"client", "addr", "allow", "autoAllow"}
  <1>1. PICK row : row = rows[i] /\ DOMAIN row = RowFields
    BY Zenon DEF StoreInv, Tables
  <1>2. NamingOrSaving(row, n) \in {"naming", "saving"}
    BY Zenon DEF NamingOrSaving
  <1>3. CASE Logout(r, i)
    <2>1. PICK copy : copy = [row EXCEPT !.lapsed = TRUE]
      BY Zenon
    <2>2. Copies(copy, row, plain) /\ (IsExpired(row) => IsExpired(copy))
      BY <1>1, <2>1, Zenon DEF Copies, RowFields, IsExpired
    <2>3. PICK pc \in {"deleting", "saving"} : Fetch(r, "logout", i, copy, pc, NoName)
      BY <1>1, <1>3, <2>1, Zenon DEF Logout
    <2> QED
      BY <1>1, <2>2, <2>3, PlainEdit
  <1>4. CASE Reregister(r, i, n)
    <2>1. Copies(row, row, plain)
      BY <1>1, Zenon DEF Copies
    <2>2. Fetch(r, "reregister", i, row, NamingOrSaving(row, n), n)
      BY <1>1, <1>4, Zenon DEF Reregister
    <2> QED
      BY <1>1, <1>2, <2>1, <2>2, PlainEdit
  <1>5. CASE ReportHostInfo(r, i, n, adv)
    <2>1. PICK copy :
              copy = [row EXCEPT !.host = n, !.lastSeen = "recently", !.routable = adv,
                                 !.autoAllow = IF adv = row.routable THEN @
                                               ELSE adv \cap AutoRoutes]
      BY Zenon
    <2>2. Fetch(r, "report", i, copy, NamingOrSaving(row, n), n)
      BY <1>1, <1>5, <2>1, Zenon DEF ReportHostInfo
    <2>3. /\ DOMAIN copy = RowFields /\ copy.client = row.client /\ copy.addr = row.addr
          /\ copy.lapsed = row.lapsed /\ copy.keyExpiryDisabled = row.keyExpiryDisabled
          /\ copy.allow = row.allow /\ copy.routable = adv
          /\ adv = row.routable => copy.autoAllow = row.autoAllow
      BY <1>1, <2>1, Zenon DEF RowFields
    <2>4. /\ row.routable # copy.routable \/ Allowed(copy) \subseteq Allowed(row)
          /\ IsExpired(row) => IsExpired(copy)
      BY <2>3, Zenon DEF Allowed, IsExpired
    <2> QED
      BY <1>1, <1>2, <2>2, <2>3, <2>4, FetchStep
  <1>6. CASE RegisterKnown(r, i, n, key, adv)
    <2>1. PICK copy :
              copy = [row EXCEPT !.ephemeral = key.ephemeral, !.lapsed = FALSE,
                                 !.autoAllow = adv \cap AutoRoutes]
      BY Zenon
    <2>2. Fetch(r, "rekey", i, copy, NamingOrSaving(row, n), n)
      BY <1>1, <1>6, <2>1, Zenon DEF RegisterKnown
    <2>3. DOMAIN copy = RowFields /\ copy.client = row.client /\ copy.addr = row.addr
      BY <1>1, <2>1, Zenon DEF RowFields
    <2> QED
      BY <1>1, <1>2, <2>2, <2>3, FetchStep
  <1> QED
    BY <1>3, <1>4, <1>5, <1>6, Zenon

(* A registration begins: a new id, and a machine key no row has under the *)
(* user.                                                                   *)
LEMMA RegisterNewStep ==
    ASSUME StoreInv, NEW r \in Reqs, NEW i, NEW d, NEW n, NEW key, NEW adv,
           RegisterNew(r, i, d, n, key, adv)
    PROVE  StoreInv'
  <1>1. PICK copy :
            copy = [client |-> <<d, key.user>>, name |-> n, idx |-> 0, useOSHostname |-> TRUE, host |-> NoName,
                    addr |-> NoAddr, authorized |-> key.preAuthorized,
                    keyExpiryDisabled |-> key.tagged, lapsed |-> FALSE,
                    ephemeral |-> key.ephemeral, lastSeen |-> "never",
                    routable |-> {}, allow |-> {}, autoAllow |-> adv \cap AutoRoutes]
    BY Zenon
  <1>2. DOMAIN copy = RowFields /\ copy.client = <<d, key.user>>
    BY <1>1, Zenon DEF RowFields
  <1>3. PICK q : q = [pc |-> "naming", kind |-> "register", id |-> i, host |-> n,
                      base |-> NoRow, copy |-> copy]
    BY Zenon
  <1>4. /\ DOMAIN q = ReqFields /\ q.pc = "naming" /\ q.kind = "register" /\ q.id = i
        /\ q.base = NoRow /\ q.copy = copy
    BY <1>3, Zenon DEF ReqFields
  <1>5. /\ i \in Ids \ used /\ \A j \in Live : rows[j].client # <<d, key.user>>
        /\ req' = [req EXCEPT ![r] = q] /\ used' = used \cup {i}
        /\ crowded' = (crowded \/ \E s \in Reqs : Registering(s))
        /\ UNCHANGED <<rows, overwritten, disabled>>
    BY <1>1, <1>3, Zenon DEF RegisterNew, BeginRegistration
  <1>6. DOMAIN req' = Reqs /\ \A s \in Reqs : req'[s] = IF s = r THEN q ELSE req[s]
    BY <1>5, Zenon DEF StoreInv, Tables
  <1>7. Live' = Live
    BY <1>5, Zenon DEF Live
  <1>8. Tables'
    BY <1>5, <1>6, <1>7, Zenon DEF StoreInv, Tables
  <1>9. RequestOK(q)
    BY <1>2, <1>4, <1>5, Zenon DEF RequestOK
  <1>10. Requests'
    BY <1>4, <1>5, <1>6, <1>9, Zenon DEF StoreInv, Requests, RequestOK
  <1>11. \A s \in Reqs : Registering(s) => req[s].id \in used
    BY Zenon DEF StoreInv, Requests, RequestOK, Registering
  <1>12. i \notin Live /\ \A p : <<i, p>> \notin disabled
    BY <1>5, Zenon DEF StoreInv, Tables
  <1>13. FreshIds'
    BY <1>4, <1>5, <1>6, <1>11, <1>12 DEF StoreInv, FreshIds, Registering, Live
  <1>14. LookedUp'
    <2>1. SUFFICES ASSUME ~crowded' PROVE LookedUp'
      BY Zenon DEF LookedUp
    <2>2. \A s \in Reqs : ~Registering(s)
      BY <1>5, <2>1, Zenon
    <2>3. \A s \in Reqs : Registering(s)' => s = r /\ req'[s] = q
      BY <1>6, <2>2, Zenon DEF Registering
    <2> QED
      BY <1>2, <1>4, <1>5, <1>7, <2>3, Zenon DEF LookedUp
  <1>15. UniqueMachines' /\ DisabledRoutesStay'
    BY <1>5, <1>7, ZenonT(30) DEF StoreInv, UniqueMachines, DisabledRoutesStay
  <1> QED
    BY <1>8, <1>10, <1>13, <1>14, <1>15, Zenon DEF StoreInv

(* A request that ends without a save. *)
LEMMA FinishedStep ==
    ASSUME StoreInv, NEW r \in Reqs, req' = Finished(r),
           UNCHANGED <<rows, used, crowded, overwritten, disabled>>
    PROVE  StoreInv'
  BY IdleOK, RequestStep, Zenon DEF Finished

(* A name and its index are picked; a registration goes on to an address. *)
LEMMA AssignNameStep ==
    ASSUME StoreInv, NEW r \in Reqs, AssignName(r)
    PROVE  StoreInv'
  <1> DEFINE next == IF Registering(r) THEN "addressing" ELSE "saving"
  <1>1. PICK o : o = req[r]
    BY Zenon
  <1>2. /\ RequestOK(o) /\ o.pc = "naming" /\ o.id \in used /\ DOMAIN req = Reqs
        /\ UNCHANGED <<rows, used, crowded, overwritten, disabled>>
    BY <1>1, Zenon DEF AssignName, StoreInv, Requests, Tables
  <1>3. CASE req' = Finished(r)
    BY <1>2, <1>3, FinishedStep, Zenon
  <1>4. CASE \E n, idx : req' = [req EXCEPT ![r].copy.name = n, ![r].copy.idx = idx, ![r].pc = next]
    <2>1. PICK n, idx :
              req' = [req EXCEPT ![r].copy.name = n, ![r].copy.idx = idx, ![r].pc = next]
      BY <1>4, Zenon
    <2>2. PICK copy : copy = [o.copy EXCEPT !.name = n, !.idx = idx]
      BY Zenon
    <2>3. PICK q : q = [o EXCEPT !.copy = copy, !.pc = next]
      BY Zenon
    <2>4. /\ DOMAIN copy = RowFields
          /\ \A c \in RowFields \ {"name", "idx"} : copy[c] = o.copy[c]
      BY <1>2, <2>2, Zenon DEF RequestOK, RowFields
    <2>5. /\ copy.client = o.copy.client /\ copy.addr = o.copy.addr
          /\ copy.allow = o.copy.allow /\ copy.autoAllow = o.copy.autoAllow
          /\ copy.routable = o.copy.routable /\ copy.lapsed = o.copy.lapsed
          /\ copy.keyExpiryDisabled = o.copy.keyExpiryDisabled
      BY <2>4, Zenon DEF RowFields
    <2>6. /\ DOMAIN q = ReqFields /\ q.copy = copy /\ q.pc = next /\ q.kind = o.kind
          /\ q.id = o.id /\ q.base = o.base
      BY <1>2, <2>3, Zenon DEF RequestOK, ReqFields
    <2>7. req' = [req EXCEPT ![r] = q]
      BY <1>1, <1>2, <2>1, <2>2, <2>3, <2>6 DEF RequestOK, ReqFields
    <2>8. EditOK(o) /\ ~Registering(r) => EditOK(q)
      BY <2>5, <2>6, Zenon DEF EditOK, Decides, Allowed, IsExpired
    <2>9. RequestOK(q)
      BY <1>1, <1>2, <2>4, <2>6, <2>8, Zenon DEF RequestOK, Registering
    <2>10. q.kind = "register" => Registering(r) /\ q.pc = "addressing"
      BY <1>1, <2>6, Zenon DEF Registering
    <2> QED
      BY <1>1, <1>2, <2>5, <2>6, <2>7, <2>9, <2>10, RequestStep, Zenon
  <1> QED
    BY <1>3, <1>4, Zenon DEF AssignName

(* selectIP: an address that no row has. *)
LEMMA SelectIPStep ==
    ASSUME StoreInv, NEW r \in Reqs, SelectIP(r)
    PROVE  StoreInv'
  <1>1. PICK o : o = req[r]
    BY Zenon
  <1>2. /\ RequestOK(o) /\ o.pc = "addressing" /\ o.id \in used /\ DOMAIN req = Reqs
        /\ UNCHANGED <<rows, used, crowded, overwritten, disabled>>
    BY <1>1, Zenon DEF SelectIP, StoreInv, Requests, Tables
  <1>3. o.kind = "register"
    BY <1>2, Zenon DEF RequestOK, EditOK
  <1>4. PICK a \in Addrs :
            /\ \A i \in Live : rows[i].addr # a
            /\ req' = [req EXCEPT ![r].copy.addr = a, ![r].pc = "saving"]
    BY Zenon DEF SelectIP
  <1>5. PICK copy : copy = [o.copy EXCEPT !.addr = a]
    BY Zenon
  <1>6. PICK q : q = [o EXCEPT !.copy = copy, !.pc = "saving"]
    BY Zenon
  <1>7. DOMAIN copy = RowFields /\ copy.client = o.copy.client /\ copy.addr = a
    BY <1>2, <1>5, Zenon DEF RequestOK, RowFields
  <1>8. /\ DOMAIN q = ReqFields /\ q.copy = copy /\ q.pc = "saving" /\ q.kind = o.kind
        /\ q.id = o.id /\ q.base = o.base
    BY <1>2, <1>6, Zenon DEF RequestOK, ReqFields
  <1>9. req' = [req EXCEPT ![r] = q]
    BY <1>1, <1>2, <1>4, <1>5, <1>6, <1>8, Zenon DEF RequestOK, ReqFields
  <1>10. RequestOK(q)
    BY <1>2, <1>3, <1>7, <1>8, Zenon DEF RequestOK
  <1> QED
    BY <1>1, <1>2, <1>3, <1>4, <1>7, <1>8, <1>9, <1>10, RequestStep, ZenonT(30) DEF Registering

----------------------------------------------------------------------------
(* Steps that change the table *)

(* A row goes away; a request may end with it. *)
LEMMA DeleteStep ==
    ASSUME StoreInv, NEW i, rows' = [rows EXCEPT ![i] = NoRow],
           req' = req \/ \E r \in Reqs : req' = Finished(r),
           UNCHANGED <<used, crowded, overwritten, disabled>>
    PROVE  StoreInv'
  <1>1. DOMAIN rows' = Ids /\ \A j \in Ids : rows'[j] = IF j = i THEN NoRow ELSE rows[j]
    BY Zenon DEF StoreInv, Tables
  <1>2. Live' = Live \ {i} /\ \A j \in Live' : j \in Live /\ rows'[j] = rows[j]
    BY <1>1, Zenon DEF Live
  <1>3. DOMAIN req' = Reqs /\ \A s \in Reqs : req'[s] = req[s] \/ req'[s] = Idle
    BY Zenon DEF StoreInv, Tables, Finished
  <1>4. Tables'
    BY <1>1, <1>2, <1>3, Zenon DEF StoreInv, Tables
  <1>5. Requests'
    BY <1>3, IdleOK, Zenon DEF StoreInv, Requests
  <1>6. \A s \in Reqs : Registering(s)' => Registering(s) /\ req'[s] = req[s]
    BY <1>3, IdleOK, Zenon DEF Registering
  <1>7. FreshIds'
    <2>1. \A s \in Reqs : Registering(s) => req[s].id \in Ids
      BY Zenon DEF StoreInv, Requests, RequestOK, Registering
    <2> QED
      BY <1>1, <1>6, <2>1 DEF StoreInv, FreshIds
  <1>8. LookedUp'
    BY <1>2, <1>6 DEF StoreInv, LookedUp
  <1>9. UniqueMachines'
    BY <1>2 DEF StoreInv, UniqueMachines
  <1>10. DisabledRoutesStay'
    BY <1>2, Zenon DEF StoreInv, DisabledRoutesStay
  <1> QED
    BY <1>4, <1>5, <1>7, <1>8, <1>9, <1>10, Zenon DEF StoreInv

(* The time a machine was last seen is a column of its own. *)
LEMMA SeenStep ==
    ASSUME StoreInv, NEW i \in Live, NEW time, rows' = [rows EXCEPT ![i].lastSeen = time],
           UNCHANGED <<used, req, crowded, overwritten, disabled>>
    PROVE  StoreInv'
  <1>1. DOMAIN rows = Ids /\ i \in Ids /\ DOMAIN rows[i] = RowFields
    BY Zenon DEF StoreInv, Tables, Live
  <1>2. PICK row : row = [rows[i] EXCEPT !.lastSeen = time]
    BY Zenon
  <1>3. DOMAIN rows' = Ids /\ \A j \in Ids : rows'[j] = IF j = i THEN row ELSE rows[j]
    BY <1>1, <1>2, Zenon
  <1>4. /\ DOMAIN row = RowFields /\ row.name = rows[i].name /\ row.idx = rows[i].idx
        /\ row.addr = rows[i].addr /\ row.client = rows[i].client
        /\ row.allow = rows[i].allow /\ row.autoAllow = rows[i].autoAllow
    BY <1>1, <1>2, Zenon DEF RowFields
  <1>5. Allowed(row) = Allowed(rows[i])
    BY <1>4, Zenon DEF Allowed
  <1>6. /\ Live' \subseteq Live
        /\ \A j \in Live' :
              /\ DOMAIN rows'[j] = RowFields
              /\ rows'[j].name = rows[j].name /\ rows'[j].idx = rows[j].idx
              /\ rows'[j].addr = rows[j].addr /\ rows'[j].client = rows[j].client
              /\ Allowed(rows'[j]) = Allowed(rows[j])
    BY <1>3, <1>4, <1>5, Zenon DEF Live, StoreInv, Tables
  <1>7. Tables'
    BY <1>3, <1>6, Zenon DEF StoreInv, Tables
  <1>8. Requests'
    BY Zenon DEF StoreInv, Requests, RequestOK
  <1>9. FreshIds'
    <2>1. \A s \in Reqs : Registering(s) => req[s].id \in Ids
      BY Zenon DEF StoreInv, Requests, RequestOK, Registering
    <2>2. \A j \in Ids : rows[j] = NoRow => rows'[j] = NoRow
      BY <1>3, Zenon DEF Live
    <2> QED
      BY <2>1, <2>2, Zenon DEF StoreInv, FreshIds, Registering
  <1>10. LookedUp'
    BY <1>6 DEF StoreInv, LookedUp, Registering
  <1>11. UniqueMachines'
    BY <1>6 DEF StoreInv, UniqueMachines
  <1>12. DisabledRoutesStay'
    <2>1. SUFFICES ASSUME ~overwritten', NEW j \in Live', NEW p \in Allowed(rows'[j])
                   PROVE  <<j, p>> \notin disabled'
      BY Zenon DEF DisabledRoutesStay, Allowed
    <2> QED
      BY <1>6, <2>1, Zenon DEF StoreInv, DisabledRoutesStay
  <1> QED
    BY <1>7, <1>8, <1>9, <1>10, <1>11, <1>12, Zenon DEF StoreInv

(* What the history of disabled routes remembers of a save. *)
LEMMA DisabledFacts ==
    ASSUME NEW i, NEW q
    PROVE  LET after == DisabledAfter(i, q.kind, q.base, q.copy) IN
           /\ \A x \in after : x \in disabled \/ \E p : x = <<i, p>>
           /\ \A p \in Allowed(q.copy) : <<i, p>> \in after => <<i, p>> \in disabled /\ ~Decides(q)
           /\ q.kind # "disable" => after \subseteq disabled
  <1> DEFINE removed == {<<i, p>> : p \in Allowed(q.base) \ Allowed(q.copy)}
             granted == {<<i, p>> : p \in Allowed(q.copy)}
  <1>1. CASE q.kind = "disable"
    <2>1. DisabledAfter(i, q.kind, q.base, q.copy) = disabled \cup removed
      BY <1>1, Zenon DEF DisabledAfter
    <2>2. ~Decides(q)
      BY <1>1, Zenon DEF Decides
    <2>3. \A p \in Allowed(q.copy) : <<i, p>> \notin removed
      BY Zenon
    <2> QED
      BY <1>1, <2>1, <2>2, <2>3, Zenon
  <1>2. CASE q.kind # "disable" /\ Decides(q)
    <2>1. DisabledAfter(i, q.kind, q.base, q.copy) = disabled \ granted
      BY <1>2, Zenon DEF DisabledAfter, Decides
    <2> QED
      BY <1>2, <2>1, Zenon
  <1>3. CASE q.kind # "disable" /\ ~Decides(q)
    <2>1. DisabledAfter(i, q.kind, q.base, q.copy) = disabled
      BY <1>3, Zenon DEF DisabledAfter, Decides
    <2> QED
      BY <1>3, <2>1, Zenon
  <1> QED
    BY <1>1, <1>2, <1>3, Zenon

(* The save of a whole copy. *)
LEMMA SaveStep ==
    ASSUME StoreInv, NEW r \in Reqs, SaveMachine(r)
    PROVE  StoreInv'
  <1>1. PICK q, i : q = req[r] /\ i = q.id
    BY Zenon
  <1>2. /\ q.pc = "saving" /\ ~NameTaken(i, q.copy) /\ rows' = [rows EXCEPT ![i] = q.copy]
        /\ overwritten' = (overwritten \/ rows[i] # q.base)
        /\ disabled' = DisabledAfter(i, q.kind, q.base, q.copy)
        /\ req' = Finished(r) /\ UNCHANGED <<used, crowded>>
    BY <1>1, Zenon DEF SaveMachine
  <1>3. RequestOK(q) /\ i \in used /\ i \in Ids /\ DOMAIN q.copy = RowFields
    BY <1>1, <1>2, Zenon DEF StoreInv, Requests, RequestOK
  <1>4. DOMAIN rows' = Ids /\ \A j \in Ids : rows'[j] = IF j = i THEN q.copy ELSE rows[j]
    BY <1>2, Zenon DEF StoreInv, Tables
  <1>5. \A j \in Live' : IF j = i THEN rows'[j] = q.copy ELSE j \in Live /\ rows'[j] = rows[j]
    BY <1>4, Zenon DEF Live
  <1>6. /\ DOMAIN req' = Reqs /\ Idle = req'[r]
        /\ \A s \in Reqs : s # r => req'[s] = req[s]
    BY <1>2, Zenon DEF StoreInv, Tables, Finished
  <1>7. \A s \in Reqs : Registering(s)' => s # r /\ Registering(s) /\ req'[s] = req[s]
    BY <1>6, IdleOK, Zenon DEF Registering
  <1>8. ~overwritten' => ~overwritten /\ rows[i] = q.base
    BY <1>2, Zenon
  <1>9. q.kind # "register" => EditOK(q)
    BY <1>2, <1>3, Zenon DEF RequestOK
  <1>10. ~overwritten' /\ q.kind # "register" => i \in Live
    BY <1>3, <1>8, <1>9, Zenon DEF EditOK, Live
  <1>11. /\ \A x \in disabled' : x \in disabled \/ \E p : x = <<i, p>>
         /\ \A p \in Allowed(q.copy) : <<i, p>> \in disabled' => <<i, p>> \in disabled /\ ~Decides(q)
         /\ q.kind # "disable" => disabled' \subseteq disabled
    BY <1>2, DisabledFacts, Zenon
  <1>12. Tables'
    <2>1. \A j \in Live' : DOMAIN rows'[j] = RowFields /\ j \in used'
      BY <1>2, <1>3, <1>5, Zenon DEF StoreInv, Tables
    <2>2. \A x \in disabled' : x[1] \in used'
      BY <1>2, <1>3, <1>11 DEF StoreInv, Tables
    <2> QED
      BY <1>4, <1>6, <2>1, <2>2, Zenon DEF Tables
  <1>13. Requests'
    <2>1. \A s \in Reqs : RequestOK(req'[s]) /\ (req'[s].pc # "idle" => req'[s].id \in used')
      BY <1>2, <1>6, IdleOK, Zenon DEF StoreInv, Requests
    <2> QED
      BY <2>1, Zenon DEF Requests, RequestOK
  <1>14. FreshIds'
    <2>1. ASSUME ~overwritten', NEW s \in Reqs, Registering(s)'
          PROVE  /\ req'[s].id # i /\ req'[s].id \in Ids
                 /\ rows[req'[s].id] = NoRow /\ \A p : <<req'[s].id, p>> \notin disabled
      <3>1. /\ s # r /\ Registering(s) /\ req'[s] = req[s] /\ req[s].id \in Ids
            /\ rows[req[s].id] = NoRow /\ \A p : <<req[s].id, p>> \notin disabled
        BY <1>7, <1>8, <2>1, Zenon DEF StoreInv, FreshIds, Requests, RequestOK, Registering
      <3>2. CASE q.kind = "register"
        BY <1>1, <3>1, <3>2, Zenon DEF StoreInv, FreshIds, Registering
      <3>3. CASE q.kind # "register"
        BY <1>10, <2>1, <3>1, <3>3, Zenon DEF Live
      <3> QED
        BY <3>1, <3>2, <3>3, Zenon
    <2>2. ASSUME ~overwritten', NEW s \in Reqs, Registering(s)'
          PROVE  rows'[req'[s].id] = NoRow /\ \A p : <<req'[s].id, p>> \notin disabled'
      BY <1>4, <1>11, <2>1, <2>2, Zenon
    <2>3. \A s, t \in Reqs : Registering(s)' /\ Registering(t)' /\ req'[s].id = req'[t].id => s = t
      BY <1>7, Zenon DEF StoreInv, FreshIds
    <2> QED
      BY <2>2, <2>3, Zenon DEF FreshIds
  <1>15. LookedUp'
    <2>1. ASSUME ~crowded, ~overwritten', NEW s \in Reqs, Registering(s)', NEW j \in Live'
          PROVE  /\ rows'[j].client # req'[s].copy.client
                 /\ req'[s].pc = "saving" => rows'[j].addr # req'[s].copy.addr
      <3>1. s # r /\ Registering(s) /\ req'[s] = req[s] /\ ~Registering(r)
        BY <1>7, <2>1, Zenon DEF StoreInv, LookedUp
      <3>2. j = i => /\ i \in Live /\ rows'[j].client = rows[j].client
                     /\ rows'[j].addr = rows[j].addr
        BY <1>1, <1>5, <1>8, <1>9, <1>10, <2>1, <3>1, Zenon DEF EditOK, Registering
      <3>3. j \in Live /\ rows'[j].client = rows[j].client /\ rows'[j].addr = rows[j].addr
        BY <1>5, <3>2, Zenon
      <3> QED
        BY <1>8, <2>1, <3>1, <3>3, Zenon DEF StoreInv, LookedUp
    <2> QED
      BY <1>2, <1>7, <2>1, Zenon DEF StoreInv, LookedUp
  <1>16. UniqueMachines'
    <2>1. ASSUME NEW j \in Live', j # i
          PROVE  rows'[j].name # q.copy.name \/ rows'[j].idx # q.copy.idx
      BY <1>2, <1>5, <2>1, Zenon DEF NameTaken
    <2>2. ASSUME ~crowded, ~overwritten', NEW j \in Live', j # i
          PROVE  rows'[j].addr # q.copy.addr /\ rows'[j].client # q.copy.client
      <3>1. j \in Live /\ rows'[j] = rows[j]
        BY <1>5, <2>2, Zenon
      <3>2. CASE q.kind = "register"
        BY <1>1, <1>2, <1>8, <2>2, <3>1, <3>2, Zenon DEF StoreInv, LookedUp, Registering
      <3>3. CASE q.kind # "register"
        BY <1>8, <1>9, <1>10, <2>2, <3>1, <3>3 DEF EditOK, StoreInv, UniqueMachines
      <3> QED
        BY <3>2, <3>3, Zenon
    <2>3. ASSUME NEW j \in Live', NEW k \in Live', j # k
          PROVE  /\ rows'[j].name # rows'[k].name \/ rows'[j].idx # rows'[k].idx
                 /\ ~crowded /\ ~overwritten' =>
                       rows'[j].addr # rows'[k].addr /\ rows'[j].client # rows'[k].client
      <3>1. CASE j = i
        BY <1>5, <2>1, <2>2, <2>3, <3>1, Zenon
      <3>2. CASE k = i
        BY <1>5, <2>1, <2>2, <2>3, <3>2, Zenon
      <3>3. CASE j # i /\ k # i
        BY <1>5, <1>8, <2>3, <3>3 DEF StoreInv, UniqueMachines
      <3> QED
        BY <3>1, <3>2, <3>3, Zenon
    <2> QED
      BY <1>2, <2>3, Zenon DEF UniqueMachines
  <1>17. DisabledRoutesStay'
    <2>1. SUFFICES ASSUME ~overwritten', NEW j \in Live', NEW p \in Allowed(rows'[j])
                   PROVE  <<j, p>> \notin disabled'
      BY Zenon DEF DisabledRoutesStay, Allowed
    <2>2. CASE j # i
      BY <1>5, <1>8, <1>11, <2>1, <2>2, Zenon DEF StoreInv, DisabledRoutesStay
    <2>3. CASE j = i /\ q.kind = "register"
      BY <1>1, <1>8, <1>11, <2>1, <2>3, Zenon DEF StoreInv, FreshIds, Registering
    <2>4. CASE j = i /\ q.kind # "register"
      <3>1. p \in Allowed(q.copy)
        BY <1>5, <2>1, <2>4, Zenon
      <3>2. ~Decides(q) => p \in Allowed(rows[i])
        BY <1>8, <1>9, <2>1, <2>4, <3>1, Zenon DEF EditOK
      <3>3. ~Decides(q) => <<i, p>> \notin disabled
        BY <1>8, <1>10, <2>1, <2>4, <3>2, Zenon DEF StoreInv, DisabledRoutesStay
      <3> QED
        BY <1>11, <2>4, <3>1, <3>3, Zenon
    <2> QED
      BY <2>2, <2>3, <2>4, Zenon
  <1> QED
    BY <1>12, <1>13, <1>14, <1>15, <1>16, <1>17, Zenon DEF StoreInv

----------------------------------------------------------------------------
(* The reaper's list is no part of the invariant. *)
LEMMA SameStep ==
    ASSUME StoreInv, UNCHANGED <<rows, used, req, crowded, overwritten, disabled>>
    PROVE  StoreInv'
  <1>1. Live' = Live
    BY Zenon DEF Live
  <1>2. Tables'
    BY <1>1, Zenon DEF StoreInv, Tables
  <1>3. Requests'
    BY Zenon DEF StoreInv, Requests, RequestOK
  <1>4. FreshIds'
    BY Zenon DEF StoreInv, FreshIds, Registering
  <1>5. LookedUp'
    BY <1>1, Zenon DEF StoreInv, LookedUp, Registering
  <1>6. UniqueMachines' /\ DisabledRoutesStay'
    BY <1>1, Zenon DEF StoreInv, UniqueMachines, DisabledRoutesStay
  <1> QED
    BY <1>2, <1>3, <1>4, <1>5, <1>6, Zenon DEF StoreInv

(* Every step keeps the invariant. *)
LEMMA StoreInvSteps ==
    ASSUME StoreInv, [StoreNext]_storeVars
    PROVE  StoreInv'
  <1>1. ASSUME NEW r \in Reqs, Progress(r) PROVE StoreInv'
    <2>1. ASSUME SaveRefused(r) PROVE StoreInv'
      BY <2>1, FinishedStep, Zenon DEF SaveRefused
    <2>2. ASSUME DeleteRow(r) PROVE StoreInv'
      BY <2>2, DeleteStep, Zenon DEF DeleteRow
    <2> QED
      BY <1>1, <2>1, <2>2, AssignNameStep, SelectIPStep, SaveStep, Zenon DEF Progress
  <1>2. ASSUME NEW r \in Reqs, NEW i \in Ids, ClientRequest(r, i) PROVE StoreInv'
    <2>1. ASSUME i \in Live, Logout(r, i) PROVE StoreInv'
      BY <2>1, ClientSteps, Zenon
    <2>2. ASSUME i \in Live, NEW n, Reregister(r, i, n) PROVE StoreInv'
      BY <2>2, ClientSteps, Zenon
    <2>3. ASSUME i \in Live, NEW n, NEW adv, ReportHostInfo(r, i, n, adv) PROVE StoreInv'
      BY <2>3, ClientSteps, Zenon
    <2>4. ASSUME i \in Live, NEW n, NEW key, NEW adv, RegisterKnown(r, i, n, key, adv)
          PROVE  StoreInv'
      BY <2>4, ClientSteps, Zenon
    <2>5. /\ Logout(r, i) => i \in Live
          /\ \A n : Reregister(r, i, n) => i \in Live
          /\ \A n, adv : ReportHostInfo(r, i, n, adv) => i \in Live
          /\ \A n, key, adv : RegisterKnown(r, i, n, key, adv) => i \in Live
      BY Zenon DEF Logout, Reregister, ReportHostInfo, RegisterKnown, Fetch
    <2> QED
      BY <1>2, <2>1, <2>2, <2>3, <2>4, <2>5, RegisterNewStep, Zenon DEF ClientRequest
  <1>3. ASSUME NEW i \in Ids, SetMachineLastSeen(i) \/ Silence(i) PROVE StoreInv'
    BY <1>3, SeenStep, Zenon DEF SetMachineLastSeen, Silence
  <1>4. ASSUME Reaper PROVE StoreInv'
    <2>1. ASSUME NEW i \in Ids, ReaperDeletes(i) PROVE StoreInv'
      BY <2>1, DeleteStep, Zenon DEF ReaperDeletes
    <2>2. ASSUME ReaperLists PROVE StoreInv'
      BY <2>2, SameStep, Zenon DEF ReaperLists
    <2> QED
      BY <1>4, <2>1, <2>2, Zenon DEF Reaper
  <1>5. ASSUME UNCHANGED storeVars PROVE StoreInv'
    BY <1>5, SameStep, Zenon DEF storeVars
  <1> QED
    BY <1>1, <1>2, <1>3, <1>4, <1>5, AdminSteps, Zenon DEF StoreNext

(* The rows that are there at first, and no request. *)
LEMMA StoreInvInit ==
    ASSUME StoreInit
    PROVE  StoreInv
  <1>1. /\ DOMAIN rows = Ids /\ DOMAIN req = Reqs /\ disabled = {}
        /\ \A r \in Reqs : req[r] = Idle
    BY StoreAssumption, Zenon DEF StoreInit
  <1>2. \A i \in Live : rows[i] \in Rows /\ i \in used
    BY StoreAssumption, Zenon DEF StoreInit, Live
  <1>3. Tables
    BY <1>1, <1>2, Zenon DEF Tables, Rows, RowFields
  <1>4. \A r \in Reqs : req[r].pc = "idle" /\ RequestOK(req[r]) /\ ~Registering(r)
    BY <1>1, IdleOK, Zenon DEF Registering
  <1>5. Requests /\ FreshIds /\ LookedUp
    BY <1>4, Zenon DEF Requests, FreshIds, LookedUp
  <1>6. \A i, j \in Live : i = j \/ Apart(rows[i], rows[j])
    BY StoreAssumption, Zenon DEF StoreInit, Live
  <1>7. UniqueMachines
    BY <1>6, Zenon DEF UniqueMachines, Apart
  <1>8. DisabledRoutesStay
    BY <1>1, Zenon DEF DisabledRoutesStay
  <1> QED
    BY <1>3, <1>5, <1>7, <1>8, Zenon DEF StoreInv

(* The invariant holds whatever the requests and the reaper do. *)
THEOREM StoreInvariant == StoreSpec => []StoreInv
  <1>1. StoreInit => StoreInv
    BY StoreInvInit, Zenon
  <1>2. StoreInv /\ [StoreNext]_storeVars => StoreInv'
    BY StoreInvSteps, Zenon
  <1> QED
    BY <1>1, <1>2, PTL DEF StoreSpec

(* No two machines have one complete name; no two have one address or one  *)
(* machine key unless registrations have overlapped or a save has          *)
(* overwritten what it had not read.                                       *)
THEOREM MachinesUnique == StoreSpec => []UniqueMachines
  <1>1. StoreInv => UniqueMachines
    BY Zenon DEF StoreInv
  <1> QED
    BY <1>1, StoreInvariant, PTL

(* A route that was disabled stays so until somebody decides anew.         *)
THEOREM DisabledStays == StoreSpec => []DisabledRoutesStay
  <1>1. StoreInv => DisabledRoutesStay
    BY Zenon DEF StoreInv
  <1> QED
    BY <1>1, StoreInvariant, PTL

(* What a step can do to the expiry of a machine's key. *)
LEMMA ExpirySteps ==
    ASSUME StoreInv, [StoreNext]_storeVars, NEW i \in Live, ~overwritten', rows'[i] # NoRow,
           IsExpired(rows[i]), ~IsExpired(rows'[i])
    PROVE  \E r \in Reqs : SavedBy(r, i) /\ req[r].kind \in {"rekey", "keyExpiry"}
  <1>0. DOMAIN rows = Ids /\ i \in Ids /\ DOMAIN rows[i] = RowFields /\ rows[i] # NoRow
    BY Zenon DEF StoreInv, Tables, Live
  <1>1. \/ rows' = rows \/ \E r \in Reqs : SaveMachine(r)
        \/ \E j : rows' = [rows EXCEPT ![j] = NoRow]
        \/ \E j, t : rows' = [rows EXCEPT ![j].lastSeen = t]
    <2>1. ASSUME NEW r \in Reqs, Progress(r)
          PROVE  \/ rows' = rows \/ SaveMachine(r) \/ \E j : rows' = [rows EXCEPT ![j] = NoRow]
      BY <2>1, Zenon DEF Progress, AssignName, SelectIP, SaveRefused, DeleteRow
    <2>2. ASSUME NEW r \in Reqs, NEW j \in Ids, AdminRequest(r, j) PROVE rows' = rows
      BY <2>2, Zenon
      DEF AdminRequest, AuthorizeMachine, ExpireMachine, DeleteMachine, SetMachineKeyExpiry,
          DisableMachineRoutes, EnableMachineRoutes, EnableExitNode, DisableExitNode,
          SetMachineOSName, SetMachineName, Fetch
    <2>3. ASSUME NEW r \in Reqs, NEW j \in Ids, ClientRequest(r, j) PROVE rows' = rows
      BY <2>3, ZenonT(30)
      DEF ClientRequest, Logout, Reregister, ReportHostInfo, RegisterKnown, RegisterNew,
          BeginRegistration, Fetch
    <2>4. ASSUME NEW j \in Ids, SetMachineLastSeen(j) \/ Silence(j)
          PROVE  \E t : rows' = [rows EXCEPT ![j].lastSeen = t]
      BY <2>4, Zenon DEF SetMachineLastSeen, Silence
    <2>5. ASSUME Reaper PROVE rows' = rows \/ \E j : rows' = [rows EXCEPT ![j] = NoRow]
      BY <2>5, Zenon DEF Reaper, ReaperLists, ReaperDeletes
    <2> QED
      BY <2>1, <2>2, <2>3, <2>4, <2>5, Zenon DEF StoreNext, storeVars
  <1>2. ~(rows' = rows)
    BY Zenon
  <1>3. ~\E j : rows' = [rows EXCEPT ![j] = NoRow]
    BY <1>0, Zenon
  <1>4. ~\E j, t : rows' = [rows EXCEPT ![j].lastSeen = t]
    BY <1>0 DEF IsExpired, RowFields
  <1>5. PICK r \in Reqs : SaveMachine(r)
    BY <1>1, <1>2, <1>3, <1>4, Zenon
  <1>6. PICK q : q = req[r]
    BY Zenon
  <1>7. /\ q.pc = "saving" /\ rows' = [rows EXCEPT ![q.id] = q.copy]
        /\ ~overwritten /\ rows[q.id] = q.base /\ req' = Finished(r)
    BY <1>5, <1>6, Zenon DEF SaveMachine
  <1>8. q.id = i
    BY <1>0, <1>7, Zenon
  <1>9. RequestOK(q) /\ DOMAIN req = Reqs
    BY <1>6, Zenon DEF StoreInv, Requests, Tables
  <1>10. q.base = rows[i] /\ rows'[i] = q.copy /\ EditOK(q)
    BY <1>0, <1>7, <1>8, <1>9, Zenon DEF RequestOK
  <1>11. q.kind \in {"rekey", "keyExpiry"}
    BY <1>10, Zenon DEF EditOK
  <1>12. SavedBy(r, i)
    BY <1>6, <1>7, <1>8, <1>9, IdleOK, Zenon DEF SavedBy, Finished
  <1> QED
    BY <1>6, <1>11, <1>12, Zenon

(* No handler, taken by itself, revives a machine whose key has expired:   *)
(* only a new registration or a change of its key expiry does.             *)
THEOREM ExpiryStays == StoreSpec => ExpiryKeptUnlessOverwritten
  <1>1. StoreInv /\ [StoreNext]_storeVars =>
            [\A i \in Live : /\ ~overwritten' /\ rows'[i] # NoRow
                             /\ IsExpired(rows[i]) /\ ~IsExpired(rows'[i])
                => \E r \in Reqs : SavedBy(r, i) /\ req[r].kind \in {"rekey", "keyExpiry"}
            ]_storeVars
    BY ExpirySteps, Zenon
  <1> QED
    BY <1>1, StoreInvariant, PTL DEF StoreSpec, ExpiryKeptUnlessOverwritten
===============================================================================
