----------------------------- MODULE TailnetLock -----------------------------
(***************************************************************************)
(* The tailnet lock (key authority) of one tailnet:                        *)
(* internal/handlers/tka.go, internal/domain/tka.go and the lock switches  *)
(* of internal/service/tailnet.go, with the registrations and deletions of *)
(* machines that run beside them.                                          *)
(*                                                                         *)
(* A handler finds its caller, waits for the tailnet's mutex and keeps it  *)
(* until it answers.  Registrations, deletions and the switches do not     *)
(* take the mutex.  An authority update message (AUM) is the path that     *)
(* leads to it: its genesis, then one number for every update; a hash      *)
(* commits to the parent, so equal paths are equal messages.               *)
(***************************************************************************)
EXTENDS Naturals, Sequences, FiniteSets

CONSTANTS
    Devices,    \* nodes, told apart by their machine key
    Admins,     \* the nodes that send lock requests
    Newcomers,  \* the nodes that register and rotate their keys meanwhile
    Ids,        \* ids that util.NextID hands out, in order
    MaxKey,     \* node keys of a device are 1 .. MaxKey (a bound)
    Geneses,    \* genesis messages that clients draw
    Updates,    \* updates; where messages fork the smaller one is preferred
    MaxChain,   \* the longest path considered (a bound)
    StartRows,  \* the machines to begin with
    Loads,      \* workloads: who does what, with which keys and messages
    NoOne, NoAum, NoGenesis, NoSecret, NoSig, NoRow, NoReg

ASSUME LockAssumption ==
    /\ Ids \subseteq Nat /\ Geneses \subseteq Nat /\ Updates \subseteq Nat
    /\ Admins \subseteq Devices /\ Newcomers \subseteq Devices
    /\ NoOne \notin Devices /\ NoGenesis \notin Geneses
    /\ NoAum \notin Seq(Nat)
    /\ MaxChain \in Nat \ {0}
    /\ StartRows \in [Ids -> [device : Devices, key : 1 .. MaxKey, sig : {NoSig}]
                               \cup {NoRow}]
    /\ \A l \in Loads : /\ l.admins \subseteq Admins /\ l.geneses \subseteq Geneses
                         /\ l.updates \subseteq Updates

VARIABLES
    load,       \* the workload of this behaviour; it does not change
    feature,    \* Tailnet.TailnetLockEnabled
    tka,        \* the row of tailnet_tka_states
    aums,       \* the rows of tka_aums
    rows,       \* id -> the machine, or NoRow
    used,       \* ids that have been handed out
    req,        \* admin -> its lock request
    lock,       \* who holds the tailnet's mutex
    offer,      \* admin -> what the answer of InitBegin asked it to sign
    reg,        \* the registration in progress: the id and the copy it saves
    switching,  \* calls between their reads and their save of the tailnet's row:
                \* [disable, edit], edit is the switch as another call has read it
    known,      \* admin -> the messages its client holds
    announced,  \* what NotifyAll last made the polls send
    drawn,      \* genesis messages that were drawn
    overlapped, \* history: the switch went off beside an InitFinish, or was
                \* overwritten by a save that had read its old value
    torn        \* history: a SyncSend ended between its two writes

lockVars == <<load, feature, tka, aums, rows, used, req, lock, offer, reg, switching,
              known, announced, drawn, overlapped, torn>>

NotSwitching == [disable |-> FALSE, edit |-> "none"]

NoState == [enabled |-> FALSE, disabled |-> FALSE, head |-> NoAum,
            ancestor |-> NoAum, pending |-> NoGenesis, secret |-> NoSecret]

NoRequest == [pc |-> "idle", genesis |-> NoGenesis, sigs |-> {}, aum |-> NoAum,
              listed |-> <<>>, id |-> 0, late |-> FALSE]

NoOffer == [genesis |-> NoGenesis, nodes |-> {}]

(* What the mapper tells a node about the lock (TKAInfo). *)
Advert(s) == [enabled |-> s.enabled, disabled |-> s.disabled, head |-> s.head]

Live == {i \in Ids : rows[i] # NoRow}

----------------------------------------------------------------------------
(* The store of messages (tkaChonk) and the authority opened on it *)

Parent(a) == SubSeq(a, 1, Len(a) - 1)

ChildAUMs(s, a) == {b \in s : Len(b) > 1 /\ Parent(b) = a}

Heads(s) == {a \in s : ChildAUMs(s, a) = {}}

CommitSkipsForks(s, updates) == \* Mutant: one child for every message
    s \cup {u \in updates : ChildAUMs(s, Parent(u)) = {}}

CommitVerifiedAUMs(s, updates) == s \cup updates

(* tka.Authority.Head: from the genesis on, the preferred child. *)
ActiveHead(s) ==
    CHOOSE h \in Heads(s) :
        \A k \in 2 .. Len(h) :
            \A a \in ChildAUMs(s, SubSeq(h, 1, k - 1)) : h[k] =< a[k]

(* tka.Authority.NodeKeyAuthorized: sig signs this node key and is made    *)
(* under the authority that grew from genesis g.                           *)
NodeKeyAuthorized(device, key, sig, g) == sig = <<device, key, g>>

(* openAuthority, and the genesis of what it opens *)
CanOpen == tka.enabled /\ tka.ancestor \in aums
Root == tka.ancestor[1]

----------------------------------------------------------------------------
(* Requests of the nodes: the caller is looked up, then the mutex is asked *)

Caller(d) == \E i \in Live : rows[i].device = d

Ask(d, request) ==
    /\ req[d].pc = "idle"
    /\ Caller(d)
    /\ req' = [req EXCEPT ![d] = request]
    /\ UNCHANGED <<load, feature, tka, aums, rows, used, lock, offer, reg, switching,
                   known, announced, overlapped, torn>>

AskInitBegin(d, g) ==
    /\ feature
    /\ g \notin drawn
    /\ drawn' = drawn \cup {g}
    /\ Ask(d, [NoRequest EXCEPT !.pc = "begin", !.genesis = g])

(* The client signs every node it was asked to sign. *)
AskInitFinish(d) ==
    /\ feature
    /\ offer[d].genesis # NoGenesis
    /\ Ask(d, [NoRequest EXCEPT !.pc = "finish", !.sigs =
                   {<<n[1], <<n[2], n[3], offer[d].genesis>>>> : n \in offer[d].nodes}])
    /\ UNCHANGED drawn

(* The client puts an update on top of the messages it holds. *)
AskSyncSend(d, u) ==
    /\ known[d] # {}
    /\ Len(ActiveHead(known[d])) < MaxChain
    /\ Ask(d, [NoRequest EXCEPT !.pc = "send",
                                !.aum = Append(ActiveHead(known[d]), u)])
    /\ UNCHANGED drawn

AskDisable(d) ==
    /\ known[d] # {}
    /\ Ask(d, [NoRequest EXCEPT !.pc = "disable",
                                !.genesis = ActiveHead(known[d])[1]])
    /\ UNCHANGED drawn

(* A client signs the node keys it sees. *)
AskSubmitSignature(d, i) ==
    /\ known[d] # {}
    /\ i \in Live
    /\ Ask(d, [NoRequest EXCEPT !.pc = "sign", !.sigs =
                   {<<i, <<rows[i].device, rows[i].key,
                           ActiveHead(known[d])[1]>>>>}])
    /\ UNCHANGED drawn

----------------------------------------------------------------------------
(* The handlers, with the mutex held *)

Answer(d) == /\ req' = [req EXCEPT ![d] = NoRequest]
             /\ lock' = NoOne

(* The handler refuses, or has nothing to change. *)
Refuse(d) == /\ Answer(d)
             /\ UNCHANGED <<tka, aums, rows, offer, known, announced>>

Others == UNCHANGED <<load, feature, used, reg, switching, drawn>>

InitBegin(d) ==
    /\ lock = NoOne /\ req[d].pc = "begin"
    /\ IF tka.enabled
       THEN Refuse(d)
       ELSE /\ tka' = [tka EXCEPT !.pending = req[d].genesis]
            /\ offer' = [offer EXCEPT ![d] =
                   [genesis |-> req[d].genesis,
                    nodes |-> {<<i, rows[i].device, rows[i].key>> : i \in Live}]]
            /\ Answer(d)
            /\ UNCHANGED <<aums, rows, known, announced>>
    /\ Others
    /\ UNCHANGED <<overlapped, torn>>

(* InitFinish as far as its transaction: every machine listed must have a  *)
(* valid signature in the request.                                         *)
Signed(i, sigs) ==
    \E s \in sigs : s[1] = i /\ NodeKeyAuthorized(rows[i].device, rows[i].key,
                                                  s[2], tka.pending)

InitFinishUnchecked(d) == \* Mutant: a machine without a signature passes
    /\ lock = NoOne /\ req[d].pc = "finish"
    /\ IF tka.enabled \/ tka.pending = NoGenesis
       THEN Refuse(d)
       ELSE /\ lock' = d
            /\ req' = [req EXCEPT ![d].pc = "finishing", ![d].listed = rows]
            /\ UNCHANGED <<tka, aums, rows, offer, known, announced>>
    /\ Others
    /\ UNCHANGED <<overlapped, torn>>

InitFinish(d) ==
    /\ lock = NoOne /\ req[d].pc = "finish"
    /\ IF \/ tka.enabled \/ tka.pending = NoGenesis
          \/ \E i \in Live : ~Signed(i, req[d].sigs)
       THEN Refuse(d)
       ELSE /\ lock' = d
            /\ req' = [req EXCEPT ![d].pc = "finishing", ![d].listed = rows]
            /\ UNCHANGED <<tka, aums, rows, offer, known, announced>>
    /\ Others
    /\ UNCHANGED <<overlapped, torn>>

SigFor(i, sigs) == LET mine == {s \in sigs : s[1] = i}
                   IN  IF mine = {} THEN NoSig ELSE (CHOOSE s \in mine : TRUE)[2]

(* The transaction: the old authority is wiped, the genesis committed, the *)
(* copies that were listed are saved with their signatures.                *)
GoLive(d, wiped, pending) ==
    LET g == tka.pending
        listed == req[d].listed
    IN  /\ lock = d /\ req[d].pc = "finishing"
        /\ aums' = CommitVerifiedAUMs(wiped, {<<g>>})
        /\ tka' = [NoState EXCEPT !.enabled = TRUE, !.head = ActiveHead(aums'),
                                  !.ancestor = <<g>>, !.pending = pending]
        /\ rows' = [i \in Ids |->
               IF listed[i] # NoRow
               THEN [listed[i] EXCEPT !.sig = SigFor(i, req[d].sigs)]
               ELSE rows[i]]
        /\ known' = [known EXCEPT ![d] = {<<g>>}]
        /\ announced' = Advert(tka')
        /\ overlapped' = (overlapped \/ switching.disable)
        /\ Answer(d)
        /\ Others
        /\ UNCHANGED <<offer, torn>>

InitFinishKeepsAums(d) == \* Mutant: the old messages are kept
    GoLive(d, aums, NoGenesis)

InitFinishKeepsPending(d) == \* Mutant: the genesis stays pending
    GoLive(d, {}, tka.pending)

InitFinishCommit(d) == GoLive(d, {}, NoGenesis)

(* Inform commits the message; the head is written by a second statement.  *)
SyncSend(d) ==
    /\ lock = NoOne /\ req[d].pc = "send"
    /\ IF CanOpen /\ (req[d].aum \in aums \/ Parent(req[d].aum) \in aums)
       THEN /\ aums' = CommitVerifiedAUMs(aums, {req[d].aum})
            /\ lock' = d
            /\ req' = [req EXCEPT ![d].pc = "sent"]
            /\ UNCHANGED <<tka, rows, offer, known, announced>>
       ELSE Refuse(d)
    /\ Others
    /\ UNCHANGED <<overlapped, torn>>

SyncSendKeepsHead(d) == \* Mutant: the head is written only once
    /\ lock = d /\ req[d].pc = "sent"
    /\ tka' = [tka EXCEPT !.head = IF Len(@) = 1 THEN req[d].aum ELSE @]
    /\ known' = [known EXCEPT ![d] = @ \cup {req[d].aum}]
    /\ announced' = Advert(tka')
    /\ torn' = FALSE
    /\ Answer(d)
    /\ Others
    /\ UNCHANGED <<aums, rows, offer, overlapped>>

SyncSendHead(d) ==
    /\ lock = d /\ req[d].pc = "sent"
    /\ tka' = [tka EXCEPT !.head = ActiveHead(aums)]
    /\ known' = [known EXCEPT ![d] = @ \cup {req[d].aum}]
    /\ announced' = Advert(tka')
    /\ torn' = FALSE
    /\ Answer(d)
    /\ Others
    /\ UNCHANGED <<aums, rows, offer, overlapped>>

(* Every genesis comes with its own disablement secret. *)
Disable(d) ==
    /\ lock = NoOne /\ req[d].pc = "disable"
    /\ IF CanOpen /\ req[d].genesis = Root
       THEN /\ tka' = [tka EXCEPT !.enabled = FALSE, !.disabled = TRUE,
                                  !.secret = req[d].genesis]
            /\ announced' = Advert(tka')
            /\ Answer(d)
            /\ UNCHANGED <<aums, rows, offer, known>>
       ELSE Refuse(d)
    /\ Others
    /\ UNCHANGED <<overlapped, torn>>

(* SubmitSignature as far as its save: the machine with the signed key *)
TheSig(d) == (CHOOSE s \in req[d].sigs : TRUE)[2]
Targets(sig) == {i \in Live : rows[i].device = sig[1] /\ rows[i].key = sig[2]}

SubmitSignature(d) ==
    /\ lock = NoOne /\ req[d].pc = "sign"
    /\ IF CanOpen /\ TheSig(d)[3] = Root /\ Targets(TheSig(d)) # {}
       THEN \E i \in Targets(TheSig(d)) :
              /\ lock' = d
              /\ req' = [req EXCEPT ![d].pc = "signing", ![d].id = i,
                                    ![d].listed = rows]
              /\ UNCHANGED <<tka, aums, rows, offer, known, announced>>
       ELSE Refuse(d)
    /\ Others
    /\ UNCHANGED <<overlapped, torn>>

SaveSignature(d, i) ==
    /\ lock = d /\ req[d].pc = "signing"
    /\ rows' = [rows EXCEPT ![i] = [req[d].listed[i] EXCEPT !.sig = TheSig(d)]]
    /\ announced' = Advert(tka)
    /\ Answer(d)
    /\ Others
    /\ UNCHANGED <<tka, aums, offer, known, overlapped, torn>>

SubmitSignatureSave(d) == SaveSignature(d, req[d].id)

(* A statement of the database fails: the handler answers with the error.  *)
DatabaseFailsLocked(d) == \* Mutant: the error path keeps the mutex
    /\ lock = d
    /\ torn' = (torn \/ req[d].pc = "sent")
    /\ req' = [req EXCEPT ![d] = NoRequest]
    /\ UNCHANGED <<lock, tka, aums, rows, offer, known, announced>>
    /\ Others
    /\ UNCHANGED overlapped

DatabaseFails(d) ==
    /\ lock = d
    /\ torn' = (torn \/ req[d].pc = "sent")
    /\ Refuse(d)
    /\ Others
    /\ UNCHANGED overlapped

----------------------------------------------------------------------------
(* Handlers that change only what a client knows *)

Learn(d, s) ==
    /\ known' = [known EXCEPT ![d] = s]
    /\ UNCHANGED <<load, feature, tka, aums, rows, used, req, lock, offer, reg,
                   switching, announced, drawn, overlapped, torn>>

(* Bootstrap (it takes no mutex): the genesis while the authority is live, *)
(* the disablement secret afterwards, which makes the client drop the      *)
(* authority it belongs to.                                                *)
Bootstrap(d) ==
    /\ req[d].pc = "idle" /\ Caller(d)
    /\ \/ CanOpen /\ known[d] = {} /\ Learn(d, {tka.ancestor})
       \/ /\ tka.disabled /\ known[d] # {}
          /\ ActiveHead(known[d])[1] = tka.secret
          /\ Learn(d, {})

(* SyncOffer: the messages the client lacks, when the two chains meet.     *)
SyncOffer(d) ==
    /\ req[d].pc = "idle" /\ Caller(d) /\ lock = NoOne
    /\ CanOpen
    /\ known[d] \cap aums # {}
    /\ Learn(d, known[d] \cup aums)

----------------------------------------------------------------------------
(* Machines: registration, rotation of the node key, deletion *)

(* Register reads the machine, if the device has one, and checks a         *)
(* signature it brings; a signature that is not valid is ignored and the   *)
(* stored one stays.  A signed machine that rotates its key without a      *)
(* signature is only handed the stored one.                                *)
RegisteredCopy(old, d, key, sig) ==
    [device |-> d, key |-> key,
     sig |-> IF /\ tka.enabled
                /\ NodeKeyAuthorized(d, key, sig, Root)
             THEN sig ELSE old]

NextId(n) == CHOOSE i \in Ids \ n : \A m \in Ids \ n : i =< m

RegisterAs(d, key, sig, taken) ==
    /\ reg = NoReg
    /\ UNCHANGED <<load, feature, tka, aums, rows, req, lock, offer, switching,
                   known, announced, drawn, overlapped, torn>>
    /\ \/ \E i \in Live :
            /\ rows[i].device = d
            /\ sig # NoSig \/ key = rows[i].key \/ rows[i].sig = NoSig \/ ~tka.enabled
            /\ reg' = [id |-> i, copy |-> RegisteredCopy(rows[i].sig, d, key, sig)]
            /\ UNCHANGED used
       \/ /\ \A i \in Live : rows[i].device # d
          /\ Ids \ used # {}
          /\ used' = taken
          /\ reg' = [id |-> NextId(used), copy |-> RegisteredCopy(NoSig, d, key, sig)]

Register(d, key, sig) == RegisterAs(d, key, sig, used \cup {NextId(used)})

RegisterSave ==
    /\ reg # NoReg
    /\ rows' = [rows EXCEPT ![reg.id] = reg.copy]
    /\ reg' = NoReg
    /\ req' = [d \in Admins |-> [req[d] EXCEPT !.late = @ \/ req[d].pc = "finishing"]]
    /\ UNCHANGED <<load, feature, tka, aums, used, lock, offer, switching, known,
                   announced, drawn, overlapped, torn>>

DeleteMachine(i) ==
    /\ i \in Live
    /\ rows' = [rows EXCEPT ![i] = NoRow]
    /\ UNCHANGED <<load, feature, tka, aums, used, req, lock, offer, reg, switching,
                   known, announced, drawn, overlapped, torn>>

----------------------------------------------------------------------------
(* The switch of the tailnet *)

Switch(on, busy, over) ==
    /\ feature' = on
    /\ switching' = busy
    /\ overlapped' = over
    /\ announced' = IF on = feature THEN announced ELSE Advert(tka)
    /\ UNCHANGED <<load, tka, aums, rows, used, req, lock, offer, reg, known,
                   drawn, torn>>

EnableTailnetLock == Switch(TRUE, switching, overlapped)

DisableTailnetLock ==
    /\ ~switching.disable
    /\ feature /\ ~tka.enabled
    /\ Switch(feature, [switching EXCEPT !.disable = TRUE], overlapped)

DisableTailnetLockSave ==
    /\ switching.disable
    /\ Switch(FALSE, [switching EXCEPT !.disable = FALSE],
              overlapped \/ \E d \in Admins : req[d].pc \in {"finish", "finishing"})

(* Every other call that changes the tailnet (UpdateTailnet, SetIAMPolicy, *)
(* syncOrgRoles...) reads the row and saves all of it, the switch as it    *)
(* was read included.                                                      *)
EditTailnet ==
    /\ switching.edit = "none"
    /\ Switch(feature, [switching EXCEPT !.edit = IF feature THEN "on" ELSE "off"], overlapped)

EditTailnetSave ==
    LET old == switching.edit = "on" IN
    /\ switching.edit # "none"
    /\ Switch(old, [switching EXCEPT !.edit = "none"], overlapped \/ old # feature)

(* The server stops and starts again: the requests in progress are lost,   *)
(* the polls begin again with what the database says.                      *)
Crash ==
    /\ \/ lock # NoOne \/ switching # NotSwitching \/ reg # NoReg
    /\ req' = [d \in Admins |-> NoRequest]
    /\ lock' = NoOne
    /\ reg' = NoReg
    /\ switching' = NotSwitching
    /\ announced' = Advert(tka)
    /\ torn' = (torn \/ \E d \in Admins : req[d].pc = "sent")
    /\ UNCHANGED <<load, feature, tka, aums, rows, used, offer, known, drawn, overlapped>>

----------------------------------------------------------------------------
LockInit ==
    /\ load \in Loads
    /\ feature \in BOOLEAN
    /\ tka = NoState
    /\ aums = {}
    /\ rows = StartRows
    /\ used = {i \in Ids : StartRows[i] # NoRow}
    /\ req = [d \in Admins |-> NoRequest]
    /\ lock = NoOne
    /\ offer = [d \in Admins |-> NoOffer]
    /\ reg = NoReg
    /\ switching = NotSwitching
    /\ known = [d \in Admins |-> {}]
    /\ announced = Advert(NoState)
    /\ drawn = {}
    /\ overlapped = FALSE
    /\ torn = FALSE

Locked(d) == \/ InitFinishCommit(d) \/ SyncSendHead(d)
             \/ SubmitSignatureSave(d) \/ DatabaseFails(d)

Acquire(d) == \/ InitBegin(d) \/ InitFinish(d) \/ SyncSend(d) \/ Disable(d)
              \/ SubmitSignature(d)

LockNext ==
    \/ \E d \in load.admins :
          \/ \E g \in load.geneses : AskInitBegin(d, g)
          \/ AskInitFinish(d)
          \/ \E u \in load.updates : AskSyncSend(d, u)
          \/ "disable" \in load.does /\ AskDisable(d)
          \/ "sign" \in load.does /\ \E i \in Ids : AskSubmitSignature(d, i)
          \/ Acquire(d)
          \/ Locked(d)
          \/ Bootstrap(d)
          \/ SyncOffer(d)
    \/ \E d \in load.newcomers, key \in load.keys :
          \E sig \in {NoSig} \cup {<<d, key, g>> : g \in drawn} : Register(d, key, sig)
    \/ RegisterSave
    \/ "delete" \in load.does /\ \E i \in Ids : DeleteMachine(i)
    \/ EnableTailnetLock
    \/ "switch" \in load.does /\ DisableTailnetLock
    \/ DisableTailnetLockSave
    \/ "edit" \in load.does /\ EditTailnet
    \/ EditTailnetSave
    \/ Crash

(* A Go mutex hands over to whoever has waited for long (its starvation    *)
(* mode), and a handler that holds it goes on.                             *)
LockFairness == \A d \in Admins : /\ WF_lockVars(Locked(d))
                                  /\ SF_lockVars(Acquire(d))

LockSpec == LockInit /\ [][LockNext]_lockVars /\ LockFairness

----------------------------------------------------------------------------
(* Properties *)

(* While the authority is active, the store holds one chain: the genesis   *)
(* that Bootstrap serves is in it and every message descends from it, so a *)
(* node that bootstraps can verify all it is sent.  It is active only in a *)
(* tailnet with the lock switched on, unless DisableTailnetLock ran beside *)
(* an InitFinish (neither holds the other off) or some call saved the      *)
(* tailnet with the switch it had read before somebody turned it.          *)
OneAuthority ==
    tka.enabled => /\ tka.ancestor \in aums
                   /\ \A a \in aums : a[1] = Root
                   /\ \A a \in aums : Len(a) > 1 => Parent(a) \in aums
                   /\ ~tka.disabled
                   /\ feature \/ overlapped

(* What nodes were last told of the lock is what is stored.  The head they *)
(* are told is a stored message, and it is the head of the chain unless a  *)
(* SyncSend died between its two writes.                                   *)
HeadFollowsChain ==
    /\ announced = Advert(tka)
    /\ tka.enabled => /\ tka.head \in aums
                      /\ lock = NoOne => tka.head = ActiveHead(aums) \/ torn

(* What clients hold of the authority that is active, the server holds:    *)
(* no answer is given before its messages are stored.                      *)
ClientsNotAhead ==
    \A d \in Admins :
        tka.enabled /\ known[d] # {} /\ ActiveHead(known[d])[1] = Root
            => known[d] \subseteq aums

(* When the authority goes live every machine has a valid signature,       *)
(* unless a registration was saved after InitFinish had listed them.       *)
SignedAtGoLive ==
    [][\A d \in Admins :
          (~tka.enabled /\ tka'.enabled /\ lock = d /\ ~req[d].late)
              => \A i \in Ids : rows'[i] # NoRow =>
                    NodeKeyAuthorized(rows'[i].device, rows'[i].key,
                                      rows'[i].sig, tka'.ancestor[1])]_lockVars

(* A disabled authority is never active again: only a new genesis is.      *)
DisabledForGood ==
    [][\A g \in Geneses : (tka.disabled /\ tka.ancestor = <<g>>)
          => ~(tka'.enabled /\ tka'.ancestor = <<g>>)]_lockVars

(* Every lock request is answered. *)
RequestsAnswered == \A d \in Admins : (req[d].pc # "idle") ~> (req[d].pc = "idle")
==============================================================================
