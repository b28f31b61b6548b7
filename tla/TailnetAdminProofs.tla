--------------------------- MODULE TailnetAdminProofs ---------------------------
(***************************************************************************)
(* Theorems about the administration of tailnets, for any number of        *)
(* tailnets, callers, users and workloads.                                 *)
(*                                                                         *)
(* The argument: what a call has read or drawn stays true of the users and *)
(* tailnets that are left (CallOK), because a step only removes users and  *)
(* rows or adds ones with a new id (Progress); and every tailnet id has    *)
(* one organization for ever, which the row, every copy of it in a call    *)
(* and every user of the tailnet agree with (Bound).  For the role claims, *)
(* a login alone has every tailnet of its organization agreeing with the   *)
(* claims or still to be saved (Synced).                                   *)
(***************************************************************************)
EXTENDS AdminReads, TLAPS

UserFields == {"id", "tailnet", "account", "name"}
LoginFields == {"op", "who", "todo", "step", "t", "user", "name", "alone"}
RevokeFields == {"op", "sub", "org", "left", "ids", "from", "upto"}
LoginSteps == {"list", "sync", "account", "user", "create", "rename", "save"}
Chosen == LoginSteps \ {"list", "sync"}
Used == 1 .. lastTailnet

Numbers ==
    /\ load \in Loads
    /\ lastTailnet \in 0 .. MaxTailnet
    /\ lastId \in 0 .. MaxId
    /\ made \in 0 .. load.most

RowsOK ==
    /\ tailnets = [t \in TailnetIds |-> tailnets[t]]
    /\ \A t \in TailnetIds : tailnets[t] # NoRow => IsRow(tailnets[t]) /\ t \in Used

UsersOK ==
    /\ \A u \in users : /\ DOMAIN u = UserFields
                        /\ u.id \in 1 .. lastId /\ u.tailnet \in Used
                        /\ tailnets[u.tailnet] # NoRow
                        /\ u.account # Service => u.account \in DOMAIN accounts
    /\ \A u, v \in users : u.id = v.id => u = v

OwnedOK ==
    \A k \in owned : /\ k.id \in 1 .. lastId /\ k.kind \in {"machine", "api", "auth"}
                     /\ \E u \in users : u.id = k.user /\ u.tailnet = k.tailnet

(* The user a call has found is of the call's tailnet, if it is still there. *)
OfCall(r) ==
    /\ r.t \in Used /\ r.user \in 1 .. lastId
    /\ \A u \in users : u.id = r.user => u.tailnet = r.t

(* A user of the subject, in the organization if one is named. *)
Concerns(r, u) ==
    /\ u.account # Service /\ u.account[1] = r.sub
    /\ r.org # NoName => tailnets[u.tailnet].org = r.org

(* What a revocation has looked at so far. *)
Looks(r) ==
    /\ r.from \in 0 .. lastId
    /\ \A a \in DOMAIN r.upto : r.upto[a] \in 0 .. lastId

(* What holds of a call whatever the others do. *)
CallOK(r) ==
    /\ r.op = "create" => r.t \in Used /\ IsRow(r.row)
    /\ r.op = "edit" => r.t \in Used /\ IsRow(r.new) /\ IsRow(r.old)
    /\ r.op = "delete" =>
          /\ r.t \in TailnetIds /\ r.upto \in 0 .. lastId
          /\ ~r.force => \A k \in owned :
                k.tailnet = r.t /\ k.kind = "machine" => k.id > r.upto
    /\ r.op = "revoke" =>
          /\ DOMAIN r = RevokeFields /\ Looks(r)
          /\ \A u \in users : Concerns(r, u) =>
                u.account \in r.left \/ u.id \in r.ids \/ u.id > Looked(r, u.account)
    /\ r.op = "authkey" => OfCall(r)
    /\ r.op = "login" =>
          /\ DOMAIN r = LoginFields
          /\ Account(r.who) \in DOMAIN accounts
          /\ ~load.orgs.enabled => r.who.org = NoName
          /\ \A t \in DOMAIN r.todo : t \in Used /\ IsRow(r.todo[t])
          /\ r.step \in LoginSteps
          /\ r.step \in Chosen => r.t \in Used
          /\ r.step \in {"rename", "save"} => OfCall(r)

CallsOK ==
    /\ calls = [c \in Callers |-> calls[c]]
    /\ \A c \in Callers : calls[c] # NoCall => CallOK(calls[c])

(* g gives every tailnet id its organization. *)
CallBound(g, r) ==
    /\ r.op = "create" => r.row.org = g[r.t]
    /\ r.op = "edit" => r.new.org = g[r.t]
    /\ r.op = "login" => /\ \A t \in DOMAIN r.todo : r.todo[t].org = g[t]
                         /\ r.step \in Chosen => r.who.org = g[r.t]

Bound(g) ==
    /\ \A t \in TailnetIds : tailnets[t] # NoRow => tailnets[t].org = g[t]
    /\ \A c \in Callers : calls[c] # NoCall => CallBound(g, calls[c])
    /\ \A u \in users : u.account # Service => u.account[2] = g[u.tailnet]

OrgsOK == \E g \in [TailnetIds -> Orgs \cup {NoName}] : Bound(g)

Gone ==
    \A r \in revoked : /\ Looks(r)
                       /\ \A u \in users : Concerns(r, u) => u.id > Looked(r, u.account)

(* The inductive invariant. *)
AdminInv == Numbers /\ RowsOK /\ UsersOK /\ OwnedOK /\ CallsOK /\ OrgsOK /\ Gone

(* What every step does. *)
Progress ==
    /\ load' = load
    /\ lastTailnet' >= lastTailnet /\ lastId' >= lastId
    /\ DOMAIN accounts \subseteq DOMAIN accounts'
    /\ \A u \in users' : u.id > lastId \/ \E v \in users :
            v.id = u.id /\ v.tailnet = u.tailnet /\ v.account = u.account
    /\ \A k \in owned' : k \in owned \/ k.id > lastId
    /\ \A t \in TailnetIds : tailnets[t] # NoRow /\ tailnets'[t] # NoRow =>
            tailnets'[t].org = tailnets[t].org

Kept == Numbers' /\ RowsOK' /\ UsersOK' /\ OwnedOK' /\ Progress

CallsStep ==
    /\ calls' = [c \in Callers |-> calls'[c]]
    /\ \A c \in Callers : calls'[c] # NoCall /\ calls'[c] # calls[c] => CallOK(calls[c])'

(* The calls that begin to create and to revoke, and a login's own steps.  *)
Creates(c) ==
    \E n \in Names, o \in Orgs \cup {NoName}, g \in load.given :
        \E p \in load.policies \cup {EmptyPolicy} : CreateTailnet(c, n, o, p, g)

Revokes(c) == \E u \in load.people, o \in Orgs \cup {NoName} : RevokeAccount(c, u.sub, o)

LoginGoes(c) ==
    \/ LoginList(c) \/ \E t \in TailnetIds : LoginSync(c, t)
    \/ LoginChoose(c) \/ LoginAccount(c) \/ LoginUser(c) \/ LoginRename(c) \/ LoginCreate(c)

----------------------------------------------------------------------------
(* Helpers *)

(* A row is not the absence of one. *)
LEMMA RowIsThere ==
    ASSUME NEW r, IsRow(r)
    PROVE  r # NoRow
<1>1. NoRow.name = NoName
  BY Zenon DEF NoRow, FreshRow
<1>. QED
  BY <1>1, AdminAssumption, Zenon DEF IsRow

(* A tailnet created with a name is a well-formed row of its organization, *)
(* with the policy that was given.                                         *)
LEMMA FreshRowIsRow ==
    ASSUME NEW n \in Names, NEW o \in Orgs \cup {NoName}, NEW p, NEW on
    PROVE  /\ IsRow(FreshRow(n, o, p, on))
           /\ FreshRow(n, o, p, on).org = o /\ FreshRow(n, o, p, on).policy = p
<1>. DEFINE s == [f \in Fields |-> f \in on]
<1>1. s \in [Fields -> BOOLEAN]
  OBVIOUS
<1>2. FreshRow(n, o, p, on) = [name |-> n, org |-> o, policy |-> p, set |-> s]
  BY Zenon DEF FreshRow
<1>. HIDE DEF s
<1>. QED
  BY <1>1, <1>2 DEF IsRow, RowFields

(* What a user is a user of does not change while it is there. *)
LEMMA ConcernKept ==
    ASSUME Numbers, UsersOK, UsersOK', RowsOK, Progress, Numbers'
    PROVE  \A r : \A u \in users' : u.id =< lastId /\ Concerns(r, u)' =>
              \E v \in users : v.id = u.id /\ v.account = u.account /\ Concerns(r, v)
<1>. SUFFICES ASSUME NEW r, NEW u \in users', u.id =< lastId, Concerns(r, u)'
              PROVE  \E v \in users : v.id = u.id /\ v.account = u.account /\ Concerns(r, v)
  BY Zenon
<1>1. u.id \in Nat
  BY DEF UsersOK, Numbers
<1>2. PICK v \in users : v.id = u.id /\ v.tailnet = u.tailnet /\ v.account = u.account
  BY <1>1 DEF Progress, Numbers
<1>3. v.tailnet \in TailnetIds /\ tailnets[v.tailnet] # NoRow
  BY AdminAssumption DEF UsersOK, Used, Numbers, TailnetIds
<1>4. tailnets'[v.tailnet] # NoRow
  BY <1>2, Zenon DEF UsersOK
<1>5. tailnets'[v.tailnet].org = tailnets[v.tailnet].org
  BY <1>3, <1>4, Zenon DEF Progress
<1>. QED
  BY <1>2, <1>5, Zenon DEF Concerns

(* What a revocation has looked at stays below the ids drawn. *)
LEMMA LooksKept ==
    ASSUME Numbers, Numbers', Progress, NEW r, Looks(r)
    PROVE  Looks(r)' /\ \A a : Looked(r, a) \in 0 .. lastId
<1>1. lastId \in Nat /\ lastId' \in Nat /\ lastId =< lastId'
  BY DEF Numbers, Progress
<1>. QED
  BY <1>1 DEF Looks, Looked

(* What holds of a call stays true. *)
LEMMA CallKept ==
    ASSUME AdminAssumption, Numbers, UsersOK, UsersOK', RowsOK, OwnedOK, OwnedOK', Progress,
           Numbers'
    PROVE  \A r : CallOK(r) => CallOK(r)'
<1>. SUFFICES ASSUME NEW r, CallOK(r)
              PROVE  CallOK(r)'
  BY Zenon
<1>1. Used \subseteq Used' /\ lastId \in Nat /\ lastId' \in Nat /\ lastId =< lastId'
  BY DEF Progress, Numbers, Used
<1>2. OfCall(r) => OfCall(r)'
  <2>. SUFFICES ASSUME OfCall(r)
                PROVE  OfCall(r)'
    BY Zenon
  <2>1. r.t \in Used' /\ r.user \in 1 .. lastId' /\ r.user =< lastId
    BY <1>1 DEF OfCall
  <2>2. ASSUME NEW u \in users', u.id = r.user
        PROVE  u.tailnet = r.t
    BY <2>1, <2>2, <1>1 DEF OfCall, Progress
  <2>. QED
    BY <2>1, <2>2, Zenon DEF OfCall
<1>3. ASSUME r.op = "delete"
      PROVE  /\ r.t \in TailnetIds /\ r.upto \in 0 .. lastId'
             /\ ~r.force => \A k \in owned' :
                   k.tailnet = r.t /\ k.kind = "machine" => k.id > r.upto
  BY <1>1, <1>3 DEF CallOK, Progress, OwnedOK
<1>4. ASSUME r.op = "revoke"
      PROVE  /\ Looks(r)'
             /\ \A u \in users' : Concerns(r, u)' =>
                   u.account \in r.left \/ u.id \in r.ids \/ u.id > Looked(r, u.account)
  <2>1. Looks(r)' /\ \A a : Looked(r, a) \in 0 .. lastId
    BY <1>4, LooksKept, Zenon DEF CallOK
  <2>2. ASSUME NEW u \in users', Concerns(r, u)'
        PROVE  u.account \in r.left \/ u.id \in r.ids \/ u.id > Looked(r, u.account)
    <3>1. CASE u.id > lastId
      <4>1. PICK a, n : a = u.account /\ n = Looked(r, a)
        BY Zenon
      <4>2. n \in 0 .. lastId /\ u.id \in Nat
        BY <2>1, <2>2, <4>1, <1>1 DEF UsersOK
      <4>3. u.id > n
        BY <1>1, <3>1, <4>2
      <4>. QED
        BY <4>1, <4>3, Zenon
    <3>2. CASE ~(u.id > lastId)
      <4>1. u.id =< lastId
        BY <2>2, <1>1, <3>2 DEF UsersOK
      <4>2. PICK v \in users : v.id = u.id /\ v.account = u.account /\ Concerns(r, v)
        BY <4>1, <2>2, ConcernKept, Zenon
      <4>. QED
        BY <4>2, <1>4, Zenon DEF CallOK
    <3>. QED
      BY <3>1, <3>2, Zenon
  <2>. QED
    BY <2>1, <2>2, Zenon
<1>5. ASSUME r.op = "login"
      PROVE  /\ Account(r.who) \in DOMAIN accounts' /\ \A t \in DOMAIN r.todo : t \in Used'
             /\ load' = load
  BY <1>1, <1>5, Zenon DEF CallOK, Progress
<1>. QED
  BY <1>1, <1>2, <1>3, <1>4, <1>5, Zenon DEF CallOK

(* What a revocation has removed does not come back. *)
LEMMA GoneKept ==
    ASSUME Numbers, UsersOK, UsersOK', RowsOK, Progress, Numbers', Gone, revoked' = revoked
    PROVE  Gone'
<1>. SUFFICES ASSUME NEW r \in revoked
              PROVE  /\ Looks(r)'
                     /\ \A u \in users' : Concerns(r, u)' => u.id > Looked(r, u.account)
  BY Zenon DEF Gone
<1>1. Looks(r)' /\ \A a : Looked(r, a) \in 0 .. lastId
  BY LooksKept, Zenon DEF Gone
<1>2. ASSUME NEW u \in users', Concerns(r, u)', ~(u.id > Looked(r, u.account))
      PROVE  FALSE
  <2>1. PICK n : n = Looked(r, u.account)
    BY Zenon
  <2>2. n \in 0 .. lastId /\ ~(u.id > n)
    BY <1>1, <1>2, <2>1, Zenon
  <2>3. u.id \in Nat /\ u.id =< lastId
    BY <2>2 DEF UsersOK, Numbers
  <2>4. PICK v \in users : v.id = u.id /\ v.account = u.account /\ Concerns(r, v)
    BY <2>3, <1>2, ConcernKept, Zenon
  <2>. QED
    BY <2>4, <1>2, Zenon DEF Gone
<1>. QED
  BY <1>1, <1>2, Zenon

(* The parts of a step make the invariant. *)
LEMMA Assemble ==
    ASSUME AdminInv, Kept, CallsStep, OrgsOK', Gone'
    PROVE  AdminInv'
<1>1. \A r : CallOK(r) => CallOK(r)'
  BY CallKept, AdminAssumption, Zenon DEF AdminInv, Kept
<1>2. ASSUME NEW c \in Callers, calls'[c] # NoCall
      PROVE  CallOK(calls[c])'
  <2>1. CASE calls'[c] = calls[c]
    BY <1>1, <1>2, <2>1, Zenon DEF AdminInv, CallsOK
  <2>. QED
    BY <2>1, <1>2, Zenon DEF CallsStep
<1>. QED
  BY <1>2, Zenon DEF AdminInv, Kept, CallsStep, CallsOK

(* A step that leaves the rows alone keeps them. *)
LEMMA RowsUnchanged ==
    ASSUME AdminInv, UNCHANGED <<load, tailnets, users, owned, lastId>>,
           lastTailnet' \in lastTailnet .. MaxTailnet, made' \in 0 .. load.most,
           DOMAIN accounts \subseteq DOMAIN accounts'
    PROVE  Kept
<1>1. Numbers' /\ Used \subseteq Used' /\ lastTailnet' >= lastTailnet /\ lastId' >= lastId
  BY AdminAssumption DEF AdminInv, Numbers, Used
<1>2. RowsOK'
  BY <1>1, Zenon DEF AdminInv, RowsOK
<1>3. UsersOK'
  BY <1>1, Zenon DEF AdminInv, UsersOK
<1>4. OwnedOK'
  BY Zenon DEF AdminInv, OwnedOK
<1>5. Progress
  BY <1>1, Zenon DEF Progress
<1>. QED
  BY <1>1, <1>2, <1>3, <1>4, <1>5, Zenon DEF Kept

(* With the rows and the organizations of tailnets unchanged, g stays. *)
LEMMA BoundKept ==
    ASSUME OrgsOK, UNCHANGED <<tailnets, users>>,
           \A g : Bound(g) => \A c \in Callers : calls'[c] # NoCall /\ calls'[c] # calls[c] =>
                                  CallBound(g, calls'[c])
    PROVE  OrgsOK'
<1>1. PICK g \in [TailnetIds -> Orgs \cup {NoName}] : Bound(g)
  BY Zenon DEF OrgsOK
<1>2. ASSUME NEW c \in Callers, calls'[c] # NoCall
      PROVE  CallBound(g, calls'[c])
  BY <1>1, <1>2, Zenon DEF Bound
<1>3. Bound(g)'
  BY <1>1, <1>2, Zenon DEF Bound
<1>. QED
  BY <1>3, Zenon DEF OrgsOK

(* A call goes on, or ends, where the tailnets stay and no user moves. *)
LEMMA CallMoves ==
    ASSUME AdminInv, Kept, NEW c \in Callers, NEW q,
           calls' = [calls EXCEPT ![c] = q], UNCHANGED <<tailnets, revoked>>,
           \A u \in users' : \E v \in users : v.account = u.account /\ v.tailnet = u.tailnet,
           q # NoCall => CallOK(q)' /\ \A g : Bound(g) => CallBound(g, q)
    PROVE  AdminInv' /\ Progress
<1>1. calls' = [d \in Callers |-> IF d = c THEN q ELSE calls[d]]
  BY Zenon DEF AdminInv, CallsOK
<1>2. CallsStep
  <2>1. calls'[c] = q /\ (calls'[c] # NoCall => CallOK(calls[c])')
    BY <1>1, Zenon DEF CallOK
  <2>. QED
    BY <1>1, <2>1, Zenon DEF CallsStep
<1>3. OrgsOK'
  <2>1. PICK g \in [TailnetIds -> Orgs \cup {NoName}] : Bound(g)
    BY Zenon DEF AdminInv, OrgsOK
  <2>2. \A d \in Callers : calls'[d] # NoCall => CallBound(g, calls'[d])
    BY <1>1, <2>1, Zenon DEF Bound
  <2>3. \A u \in users' : u.account # Service => u.account[2] = g[u.tailnet]
    BY <2>1, Zenon DEF Bound
  <2>4. Bound(g)'
    BY <2>1, <2>2, <2>3, Zenon DEF Bound
  <2>. QED
    BY <2>4, Zenon DEF OrgsOK
<1>4. Gone'
  BY GoneKept, Zenon DEF AdminInv, Kept
<1>. QED
  BY <1>2, <1>3, <1>4, Assemble, Zenon DEF Kept

----------------------------------------------------------------------------
(* One lemma per action: it keeps the invariant and makes Progress. *)

(* CreateTailnet's checks: the new call remembers a legal row to insert. *)
LEMMA CreateTailnetStep ==
    ASSUME AdminInv, NEW c \in Callers, NEW n \in Names, NEW o \in Orgs \cup {NoName},
           NEW p, NEW given, CreateTailnet(c, n, o, p, given)
    PROVE  AdminInv' /\ Progress
<1>. DEFINE t == lastTailnet + 1
            on == {f \in DOMAIN given : given[f]} \cup {f \in {"approval"} : load.approval}
            call == [op |-> "create", t |-> t, row |-> FreshRow(n, o, p, on)]
<1>0. /\ lastTailnet \in 0 .. MaxTailnet /\ MaxTailnet \in Nat /\ lastTailnet < MaxTailnet
      /\ made \in 0 .. load.most /\ load.most \in Nat
  BY AdminAssumption, Zenon DEF AdminInv, Numbers, CreateTailnet
<1>1. Kept
  <2>1. lastTailnet' \in lastTailnet .. MaxTailnet /\ made' \in 0 .. load.most
    BY <1>0 DEF CreateTailnet, Begin
  <2>. QED
    BY <2>1, RowsUnchanged, Zenon DEF CreateTailnet
<1>2. calls' = [d \in Callers |-> IF d = c THEN call ELSE calls[d]]
  BY Zenon DEF CreateTailnet, Begin, AdminInv, CallsOK
<1>. HIDE DEF on
<1>3. call.op = "create" /\ call.t = t /\ IsRow(call.row) /\ call.row.org = o
  <2>1. call.op = "create" /\ call.t = t /\ call.row = FreshRow(n, o, p, on)
    BY Zenon
  <2>2. IsRow(FreshRow(n, o, p, on)) /\ FreshRow(n, o, p, on).org = o
    BY FreshRowIsRow
  <2>. QED
    BY <2>1, <2>2, Zenon
<1>4. t \in Used'
  BY <1>0 DEF CreateTailnet, Used
<1>. HIDE DEF call
<1>5. CallsStep
  <2>1. calls'[c] = call /\ CallOK(calls[c])'
    BY <1>2, <1>3, <1>4, Zenon DEF CallOK
  <2>. QED
    BY <1>2, <2>1, Zenon DEF CallsStep
<1>6. OrgsOK'
  <2>1. PICK g \in [TailnetIds -> Orgs \cup {NoName}] : Bound(g)
    BY Zenon DEF AdminInv, OrgsOK
  <2>. DEFINE h == [s \in TailnetIds |-> IF s = t THEN o ELSE g[s]]
  <2>2. h \in [TailnetIds -> Orgs \cup {NoName}] /\ h[t] = o /\ \A s \in Used : h[s] = g[s]
    BY <1>0 DEF TailnetIds, Used
  <2>. HIDE DEF h
  <2>3. \A s \in TailnetIds : tailnets'[s] # NoRow => tailnets'[s].org = h[s]
    BY <2>1, <2>2, Zenon DEF AdminInv, RowsOK, Bound, CreateTailnet
  <2>4. ASSUME NEW d \in Callers, calls'[d] # NoCall
        PROVE  CallBound(h, calls'[d])
    <3>1. CASE d = c
      BY <3>1, <2>2, <1>2, <1>3, Zenon DEF CallBound
    <3>2. CASE d # c
      <4>1. calls'[d] = calls[d] /\ CallOK(calls[d]) /\ CallBound(g, calls[d])
        BY <2>1, <2>4, <1>2, <3>2, Zenon DEF AdminInv, CallsOK, Bound
      <4>. QED
        BY <4>1, <2>2, Zenon DEF CallOK, CallBound
    <3>. QED
      BY <3>1, <3>2, Zenon
  <2>5. \A u \in users' : u.account # Service => u.account[2] = h[u.tailnet]
    BY <2>1, <2>2, Zenon DEF AdminInv, UsersOK, Bound, CreateTailnet
  <2>. QED
    BY <2>2, <2>3, <2>4, <2>5, Zenon DEF OrgsOK, Bound
<1>7. Gone'
  BY <1>1, GoneKept, Zenon DEF AdminInv, Kept, CreateTailnet
<1>. QED
  BY <1>1, <1>5, <1>6, <1>7, Assemble, Zenon DEF Kept

(* A call that begins by changing a copy of the row. *)
LEMMA EditStep ==
    ASSUME AdminInv, NEW c \in Callers, NEW t \in Live, NEW new,
           IsRow(new), new.org = tailnets[t].org, Edit(c, t, new)
    PROVE  AdminInv' /\ Progress
<1>. DEFINE call == [op |-> "edit", t |-> t, old |-> tailnets[t], new |-> new]
<1>1. Kept
  <2>1. lastTailnet' \in lastTailnet .. MaxTailnet /\ made' \in 0 .. load.most
    BY AdminAssumption DEF Edit, Begin, AdminInv, Numbers
  <2>. QED
    BY <2>1, RowsUnchanged, Zenon DEF Edit
<1>2. calls' = [d \in Callers |-> IF d = c THEN call ELSE calls[d]]
  BY Zenon DEF Edit, Begin, AdminInv, CallsOK
<1>3. call.op = "edit" /\ call.t = t /\ call.new = new /\ call.old = tailnets[t]
  BY Zenon
<1>4. t \in Used' /\ IsRow(tailnets[t])
  BY Zenon DEF AdminInv, RowsOK, Edit, Used, Live
<1>. HIDE DEF call
<1>5. CallsStep
  <2>1. calls'[c] = call /\ CallOK(calls[c])'
    BY <1>2, <1>3, <1>4, Zenon DEF CallOK
  <2>. QED
    BY <1>2, <2>1, Zenon DEF CallsStep
<1>6. OrgsOK'
  <2>1. \A g : Bound(g) => CallBound(g, call)
    BY <1>3, Zenon DEF Bound, CallBound, Live
  <2>. QED
    BY <2>1, <1>2, BoundKept, Zenon DEF AdminInv, Edit
<1>7. Gone'
  BY <1>1, GoneKept, Zenon DEF AdminInv, Kept, Edit
<1>. QED
  BY <1>1, <1>5, <1>6, <1>7, Assemble, Zenon DEF Kept

(* Every call that edits a tailnet edits a copy of the row it has now, and *)
(* leaves the organization in it; a policy it sets is one of the workload. *)
LEMMA EditsKeepOrg ==
    ASSUME AdminInv, NEW c \in Callers, Edits(c)
    PROVE  \E t, new : /\ t \in Live
                       /\ IsRow(new) /\ new.org = tailnets[t].org
                       /\ new.policy \in load.policies \cup {tailnets[t].policy}
                       /\ Edit(c, t, new)
<1>1. PICK t \in Live :
        \/ \E n \in Names, g \in load.given, p \in load.policies \cup {tailnets[t].policy} :
              UpdateTailnet(c, t, g, p, n)
        \/ \E f \in Fields, v \in BOOLEAN : SetField(c, t, f, v)
        \/ SetDERPMap(c, t) \/ ResetDERPMap(c, t)
        \/ \E p \in load.policies : SetIAMPolicy(c, t, p)
  BY Zenon DEF Edits, SetACLPolicy, SetDNSConfig, EnableFileSharing, DisableFileSharing,
     EnableServiceCollection, DisableServiceCollection, EnableSSH, DisableSSH,
     EnableMachineAuthorization, DisableMachineAuthorization, Fields
<1>. DEFINE row == tailnets[t]
<1>2. IsRow(row)
  BY Zenon DEF AdminInv, RowsOK, Live
<1>. HIDE DEF row
<1>3. "derp" \in Fields
  BY Zenon DEF Fields
<1>4. ASSUME NEW n \in Names, NEW g \in load.given,
             NEW p \in load.policies \cup {row.policy}, UpdateTailnet(c, t, g, p, n)
      PROVE  \E new : /\ IsRow(new) /\ new.org = row.org
                      /\ new.policy \in load.policies \cup {row.policy} /\ Edit(c, t, new)
  <2>. DEFINE set == [f \in Fields |-> IF f \in DOMAIN g THEN g[f] ELSE row.set[f]]
  <2>1. \A f \in DOMAIN g : g[f] \in BOOLEAN
    BY AdminAssumption, Zenon DEF AdminInv, Numbers
  <2>2. set \in [Fields -> BOOLEAN]
    BY <1>2, <2>1, Zenon DEF IsRow
  <2>3. Edit(c, t, [row EXCEPT !.set = set, !.policy = p, !.name = n])
    BY <1>4, Zenon DEF UpdateTailnet, row
  <2>. HIDE DEF set
  <2>4. PICK new : new = [row EXCEPT !.set = set, !.policy = p, !.name = n]
    BY Zenon
  <2>5. IsRow(new) /\ new.org = row.org /\ new.policy = p
    BY <1>2, <2>2, <2>4 DEF IsRow, RowFields
  <2>. QED
    BY <2>3, <2>4, <2>5, Zenon
<1>5. CASE \E f \in Fields, v \in BOOLEAN : SetField(c, t, f, v)
  <2>1. PICK f \in Fields, v \in BOOLEAN : SetField(c, t, f, v)
    BY <1>5, Zenon
  <2>2. PICK new : new = [row EXCEPT !.set[f] = v]
    BY Zenon
  <2>3. Edit(c, t, new)
    BY <2>1, <2>2, Zenon DEF SetField, row
  <2>4. IsRow(new) /\ new.org = row.org /\ new.policy = row.policy
    BY <1>2, <2>2, Zenon DEF IsRow, RowFields
  <2>. QED
    BY <2>3, <2>4, Zenon DEF row
<1>6. CASE SetDERPMap(c, t) \/ ResetDERPMap(c, t)
  <2>1. PICK v \in BOOLEAN : Edit(c, t, [row EXCEPT !.set["derp"] = v])
    BY <1>6, Zenon DEF SetDERPMap, ResetDERPMap, row
  <2>2. PICK new : new = [row EXCEPT !.set["derp"] = v]
    BY Zenon
  <2>3. IsRow(new) /\ new.org = row.org /\ new.policy = row.policy
    BY <1>2, <1>3, <2>2, Zenon DEF IsRow, RowFields
  <2>. QED
    BY <2>1, <2>2, <2>3, Zenon DEF row
<1>7. CASE \E p \in load.policies : SetIAMPolicy(c, t, p)
  <2>1. PICK p \in load.policies : Edit(c, t, [row EXCEPT !.policy = p])
    BY <1>7, Zenon DEF SetIAMPolicy, row
  <2>2. PICK new : new = [row EXCEPT !.policy = p]
    BY Zenon
  <2>3. IsRow(new) /\ new.org = row.org /\ new.policy = p
    BY <1>2, <2>2, Zenon DEF IsRow, RowFields
  <2>. QED
    BY <2>1, <2>2, <2>3, Zenon DEF row
<1>. QED
  BY <1>1, <1>4, <1>5, <1>6, <1>7, Zenon DEF row

(* DeleteTailnet's count of the machines keeps the invariant. *)
LEMMA DeleteTailnetStep ==
    ASSUME AdminInv, NEW c \in Callers, NEW t \in TailnetIds, NEW force \in BOOLEAN,
           DeleteTailnet(c, t, force)
    PROVE  AdminInv' /\ Progress
<1>. DEFINE call == [op |-> "delete", t |-> t, force |-> force, upto |-> lastId]
<1>1. Kept
  <2>1. lastTailnet' \in lastTailnet .. MaxTailnet /\ made' \in 0 .. load.most
    BY AdminAssumption DEF DeleteTailnet, Begin, AdminInv, Numbers
  <2>. QED
    BY <2>1, RowsUnchanged, Zenon DEF DeleteTailnet
<1>2. calls' = [d \in Callers |-> IF d = c THEN call ELSE calls[d]]
  BY Zenon DEF DeleteTailnet, Begin, AdminInv, CallsOK
<1>3. call.op = "delete" /\ call.t = t /\ call.force = force /\ call.upto = lastId
  BY Zenon
<1>4. lastId' = lastId /\ owned' = owned /\ lastId \in 0 .. lastId
  BY DEF DeleteTailnet, AdminInv, Numbers
<1>. HIDE DEF call
<1>5. CallsStep
  <2>1. force \/ \A k \in owned : k.tailnet = t => k.kind # "machine"
    BY Zenon DEF DeleteTailnet
  <2>2. calls'[c] = call /\ CallOK(calls[c])'
    BY <1>2, <1>3, <1>4, <2>1, Zenon DEF CallOK
  <2>. QED
    BY <1>2, <2>2, Zenon DEF CallsStep
<1>6. OrgsOK'
  <2>1. \A g : CallBound(g, call)
    BY <1>3, Zenon DEF CallBound
  <2>. QED
    BY <2>1, <1>2, BoundKept, Zenon DEF AdminInv, DeleteTailnet
<1>7. Gone'
  BY <1>1, GoneKept, Zenon DEF AdminInv, Kept, DeleteTailnet
<1>. QED
  BY <1>1, <1>5, <1>6, <1>7, Assemble, Zenon DEF Kept

(* RevokeAccount begins: the accounts it has left to look at are those of  *)
(* all users it concerns.                                                  *)
LEMMA RevokeAccountStep ==
    ASSUME AdminInv, NEW c \in Callers, NEW sub, NEW o, RevokeAccount(c, sub, o)
    PROVE  AdminInv' /\ Progress
<1>1. PICK call : call = [op |-> "revoke", sub |-> sub, org |-> o,
                          left |-> {a \in DOMAIN accounts : a[1] = sub}, ids |-> {},
                          from |-> lastId, upto |-> <<>>]
  BY Zenon
<1>2. Kept
  <2>1. lastTailnet' \in lastTailnet .. MaxTailnet /\ made' \in 0 .. load.most
    BY AdminAssumption DEF RevokeAccount, Begin, AdminInv, Numbers
  <2>. QED
    BY <2>1, RowsUnchanged, Zenon DEF RevokeAccount
<1>3. /\ call.op = "revoke" /\ call.sub = sub /\ call.org = o /\ call.from = lastId
      /\ call.left = {a \in DOMAIN accounts : a[1] = sub} /\ DOMAIN call.upto = {}
      /\ DOMAIN call = RevokeFields
  BY <1>1 DEF RevokeFields
<1>4. lastId' = lastId /\ users' = users /\ tailnets' = tailnets /\ lastId \in 0 .. lastId
  BY DEF RevokeAccount, AdminInv, Numbers
<1>5. Looks(call)'
  BY <1>3, <1>4, Zenon DEF Looks
<1>6. ASSUME NEW u \in users, Concerns(call, u)
      PROVE  u.account \in call.left
  BY <1>3, <1>6, Zenon DEF Concerns, AdminInv, UsersOK
<1>7. CallOK(call)'
  BY <1>3, <1>4, <1>5, <1>6, Zenon DEF CallOK, Concerns
<1>8. \A g : CallBound(g, call)
  BY <1>3, Zenon DEF CallBound
<1>9. calls' = [calls EXCEPT ![c] = call] /\ UNCHANGED <<tailnets, revoked>>
  BY <1>1, Zenon DEF RevokeAccount, Begin
<1>. QED
  BY <1>2, <1>4, <1>7, <1>8, <1>9, CallMoves, Zenon

(* Listing the users of one account: those the call concerns are among     *)
(* the ids, and later ones have a later id.                                *)
LEMMA RevokeAccountListStep ==
    ASSUME AdminInv, NEW c \in Callers, NEW a, RevokeAccountList(c, a)
    PROVE  AdminInv' /\ Progress
<1>1. PICK r : r = calls[c]
  BY Zenon
<1>2. /\ r # NoCall /\ r.op = "revoke" /\ DOMAIN r = RevokeFields /\ Looks(r)
      /\ \A u \in users : Concerns(r, u) =>
            u.account \in r.left \/ u.id \in r.ids \/ u.id > Looked(r, u.account)
  BY <1>1, Zenon DEF RevokeAccountList, AdminInv, CallsOK, CallOK
<1>. DEFINE found == {u \in users : /\ u.account = a
                                    /\ r.org # NoName => tailnets[u.tailnet].org = r.org}
            upto == [b \in DOMAIN r.upto \cup {a} |-> IF b = a THEN lastId ELSE r.upto[b]]
<1>3. PICK ids : ids = r.ids \cup {u.id : u \in found}
  BY Zenon
<1>4. PICK to : to = upto
  BY Zenon
<1>5. PICK q : q = [r EXCEPT !.left = r.left \ {a}, !.ids = ids, !.upto = to]
  BY Zenon
<1>6. /\ q.op = "revoke" /\ q.sub = r.sub /\ q.org = r.org /\ q.from = r.from
      /\ q.left = r.left \ {a} /\ q.ids = ids /\ q.upto = to /\ DOMAIN q = RevokeFields
  BY <1>2, <1>5 DEF RevokeFields
<1>7. /\ calls' = [calls EXCEPT ![c] = q]
      /\ UNCHANGED <<load, tailnets, lastTailnet, accounts, users, owned, lastId, made,
                     revoked>>
  BY <1>1, <1>3, <1>4, <1>5, Zenon DEF RevokeAccountList
<1>8. Kept
  <2>1. lastTailnet' \in lastTailnet .. MaxTailnet /\ made' \in 0 .. load.most
    BY <1>7, AdminAssumption DEF AdminInv, Numbers
  <2>. QED
    BY <1>7, <2>1, RowsUnchanged, Zenon
<1>9. /\ DOMAIN to = DOMAIN r.upto \cup {a} /\ to[a] = lastId
      /\ \A b \in DOMAIN r.upto : b # a => to[b] = r.upto[b]
  BY <1>4, Zenon
<1>10. Looks(q)'
  <2>1. lastId \in 0 .. lastId
    BY DEF AdminInv, Numbers
  <2>. QED
    BY <1>2, <1>6, <1>7, <1>9, <2>1, Zenon DEF Looks
<1>11. ASSUME NEW u \in users, Concerns(q, u), u.account \notin q.left, u.id \notin q.ids
       PROVE  u.id > Looked(q, u.account)
  <2>1. Concerns(r, u)
    BY <1>6, <1>11, Zenon DEF Concerns
  <2>2. u.account # a
    BY <1>3, <1>6, <1>11, Zenon DEF Concerns
  <2>3. u.account \notin r.left /\ u.id \notin r.ids
    BY <1>3, <1>6, <1>11, <2>2, Zenon
  <2>4. Looked(q, u.account) = Looked(r, u.account)
    BY <1>6, <1>9, <2>2, Zenon DEF Looked
  <2>. QED
    BY <1>2, <2>1, <2>3, <2>4, Zenon
<1>12. CallOK(q)'
  <2>1. \A u \in users' : Concerns(q, u)' =>
            u.account \in q.left \/ u.id \in q.ids \/ u.id > Looked(q, u.account)
    BY <1>7, <1>11, Zenon DEF Concerns
  <2>. QED
    BY <1>6, <1>10, <2>1, Zenon DEF CallOK
<1>13. \A g : CallBound(g, q)
  BY <1>6, Zenon DEF CallBound
<1>. QED
  BY <1>7, <1>8, <1>12, <1>13, CallMoves, Zenon

(* Answering a read, and authenticating one, change no row. *)
LEMMA ReadsStep ==
    ASSUME AdminInv, NEW c \in Callers,
           Read(c) \/ \E p \in Principals : AuthenticationInterceptor(c, p)
    PROVE  AdminInv' /\ Progress
<1>1. PICK call : /\ calls' = [calls EXCEPT ![c] = call]
                  /\ call = NoCall \/ call.op = "read"
                  /\ made' \in 0 .. load.most
                  /\ UNCHANGED <<load, tailnets, lastTailnet, accounts, users, owned, lastId,
                                 revoked>>
  <2>1. CASE Read(c)
    BY <2>1, Zenon DEF Read, Finish, AdminInv, Numbers
  <2>2. CASE \E p \in Principals : AuthenticationInterceptor(c, p)
    <3>1. PICK p \in Principals : AuthenticationInterceptor(c, p)
      BY <2>2, Zenon
    <3>2. made' \in 0 .. load.most
      BY <3>1, AdminAssumption DEF AuthenticationInterceptor, Begin, AdminInv, Numbers
    <3>3. [op |-> "read", by |-> p].op = "read"
      BY Zenon
    <3>. QED
      BY <3>1, <3>2, <3>3, Zenon DEF AuthenticationInterceptor, Begin
  <2>. QED
    BY <2>1, <2>2, Zenon
<1>2. Kept
  <2>1. lastTailnet' \in lastTailnet .. MaxTailnet
    BY <1>1, AdminAssumption DEF AdminInv, Numbers
  <2>. QED
    BY <1>1, <2>1, RowsUnchanged, Zenon
<1>3. calls' = [d \in Callers |-> IF d = c THEN call ELSE calls[d]]
  BY <1>1, Zenon DEF AdminInv, CallsOK
<1>4. CallsStep
  BY <1>1, <1>3, Zenon DEF CallsStep, CallOK
<1>5. OrgsOK'
  <2>1. call # NoCall => \A g : CallBound(g, call)
    BY <1>1, Zenon DEF CallBound
  <2>. QED
    BY <1>1, <1>3, <2>1, BoundKept, Zenon DEF AdminInv
<1>6. Gone'
  BY <1>1, <1>2, GoneKept, Zenon DEF AdminInv, Kept
<1>. QED
  BY <1>2, <1>4, <1>5, <1>6, Assemble, Zenon DEF Kept

(* Saving a row of the organization the tailnet has always had. *)
LEMMA SaveKeeps ==
    ASSUME AdminInv, NEW t \in Used, NEW row, IsRow(row),
           \A g : Bound(g) => row.org = g[t],
           SaveTailnet(t, row),
           UNCHANGED <<load, users, owned, lastId, lastTailnet, accounts, made>>
    PROVE  /\ Kept
           /\ \A g : Bound(g) => \A s \in TailnetIds :
                 tailnets'[s] # NoRow => tailnets'[s].org = g[s]
<1>1. PICK g \in [TailnetIds -> Orgs \cup {NoName}] : Bound(g)
  BY Zenon DEF AdminInv, OrgsOK
<1>2. tailnets' = tailnets \/ tailnets' = [tailnets EXCEPT ![t] = row]
  BY Zenon DEF SaveTailnet
<1>3. /\ tailnets' = [s \in TailnetIds |-> tailnets'[s]] /\ t \in TailnetIds
      /\ \A s \in TailnetIds : tailnets'[s] = tailnets[s] \/ (s = t /\ tailnets'[s] = row)
  BY <1>2, AdminAssumption DEF AdminInv, RowsOK, Used, Numbers, TailnetIds
<1>4. row # NoRow
  BY RowIsThere, Zenon
<1>5. Numbers' /\ Used' = Used
  BY Zenon DEF AdminInv, Numbers, Used
<1>6. RowsOK'
  BY <1>3, <1>4, <1>5, Zenon DEF AdminInv, RowsOK
<1>7. UsersOK'
  <2>1. \A u \in users : u.tailnet \in TailnetIds
    BY AdminAssumption DEF AdminInv, UsersOK, Used, TailnetIds, Numbers
  <2>. QED
    BY <1>3, <1>4, <1>5, <2>1, Zenon DEF AdminInv, UsersOK
<1>8. OwnedOK'
  BY Zenon DEF AdminInv, OwnedOK
<1>9. \A h : Bound(h) => \A s \in TailnetIds :
          tailnets'[s] # NoRow => tailnets'[s].org = h[s]
  BY <1>3 DEF Bound
<1>10. Progress
  <2>1. lastTailnet' >= lastTailnet /\ lastId' >= lastId
    BY DEF AdminInv, Numbers
  <2>2. \A s \in TailnetIds : tailnets[s] # NoRow /\ tailnets'[s] # NoRow =>
            tailnets'[s].org = tailnets[s].org
    BY <1>1, <1>9, Zenon DEF Bound
  <2>. QED
    BY <2>1, <2>2, Zenon DEF Progress
<1>. QED
  BY <1>5, <1>6, <1>7, <1>8, <1>9, <1>10, Zenon DEF Kept

(* Inserting the tailnet: a fresh id, an organization of its own. *)
LEMMA CreateTailnetSaveStep ==
    ASSUME AdminInv, NEW c \in Callers, CreateTailnetSave(c)
    PROVE  AdminInv' /\ Progress
<1>. DEFINE r == calls[c]
<1>1. r.t \in Used /\ IsRow(r.row) /\ r # NoCall /\ \A g : Bound(g) => r.row.org = g[r.t]
  BY Zenon DEF AdminInv, CallsOK, CallOK, Bound, CallBound, CreateTailnetSave
<1>2. PICK t, row : t = r.t /\ row = r.row
  BY Zenon
<1>3. /\ Kept
      /\ \A g : Bound(g) => \A s \in TailnetIds :
            tailnets'[s] # NoRow => tailnets'[s].org = g[s]
  <2>1. SaveTailnet(t, row)
    BY <1>2, Zenon DEF CreateTailnetSave
  <2>. QED
    BY <1>1, <1>2, <2>1, SaveKeeps, Zenon DEF CreateTailnetSave
<1>4. calls' = [d \in Callers |-> IF d = c THEN NoCall ELSE calls[d]]
  BY Zenon DEF CreateTailnetSave, Finish, AdminInv, CallsOK
<1>5. CallsStep
  BY <1>4, Zenon DEF CallsStep
<1>6. OrgsOK'
  BY <1>3, <1>4 DEF CreateTailnetSave, AdminInv, OrgsOK, Bound
<1>7. Gone'
  BY <1>3, GoneKept, Zenon DEF AdminInv, Kept, CreateTailnetSave
<1>. QED
  BY <1>3, <1>5, <1>6, <1>7, Assemble, Zenon DEF Kept

(* A whole-row save, stale or not, keeps the row's organization. *)
LEMMA EditSaveStep ==
    ASSUME AdminInv, NEW c \in Callers, EditSave(c)
    PROVE  AdminInv' /\ Progress
<1>. DEFINE r == calls[c]
<1>1. r.t \in Used /\ IsRow(r.new) /\ r # NoCall /\ \A g : Bound(g) => r.new.org = g[r.t]
  BY Zenon DEF AdminInv, CallsOK, CallOK, Bound, CallBound, EditSave
<1>2. PICK t, row : t = r.t /\ row = r.new
  BY Zenon
<1>3. /\ Kept
      /\ \A g : Bound(g) => \A s \in TailnetIds :
            tailnets'[s] # NoRow => tailnets'[s].org = g[s]
  <2>1. SaveTailnet(t, row)
    BY <1>2, Zenon DEF EditSave
  <2>. QED
    BY <1>1, <1>2, <2>1, SaveKeeps, Zenon DEF EditSave
<1>4. calls' = [d \in Callers |-> IF d = c THEN NoCall ELSE calls[d]]
  BY Zenon DEF EditSave, Finish, AdminInv, CallsOK
<1>5. CallsStep
  BY <1>4, Zenon DEF CallsStep
<1>6. OrgsOK'
  BY <1>3, <1>4 DEF EditSave, AdminInv, OrgsOK, Bound
<1>7. Gone'
  BY <1>3, GoneKept, Zenon DEF AdminInv, Kept, EditSave
<1>. QED
  BY <1>3, <1>5, <1>6, <1>7, Assemble, Zenon DEF Kept

(* A step that only removes. *)
LEMMA RemovalKeeps ==
    ASSUME AdminInv, users' \subseteq users, owned' \subseteq owned,
           \A k \in owned' : \E u \in users' : u.id = k.user /\ u.tailnet = k.tailnet,
           tailnets' = [t \in TailnetIds |-> tailnets'[t]],
           \A t \in TailnetIds : tailnets'[t] = tailnets[t] \/ tailnets'[t] = NoRow,
           \A u \in users' : tailnets'[u.tailnet] # NoRow,
           UNCHANGED <<load, lastTailnet, lastId, accounts>>, made' \in 0 .. load.most,
           \A c \in Callers : calls'[c] = NoCall \/ calls'[c] = calls[c]
    PROVE  Kept /\ OrgsOK'
<1>1. Numbers' /\ Used' = Used
  BY Zenon DEF AdminInv, Numbers, Used
<1>2. RowsOK'
  BY <1>1, Zenon DEF AdminInv, RowsOK
<1>3. UsersOK'
  BY <1>1, Zenon DEF AdminInv, UsersOK
<1>4. OwnedOK'
  BY Zenon DEF AdminInv, OwnedOK
<1>5. Progress
  <2>1. lastTailnet' >= lastTailnet /\ lastId' >= lastId
    BY DEF AdminInv, Numbers
  <2>. QED
    BY <2>1, Zenon DEF Progress
<1>6. OrgsOK'
  <2>1. PICK g \in [TailnetIds -> Orgs \cup {NoName}] : Bound(g)
    BY Zenon DEF AdminInv, OrgsOK
  <2>2. Bound(g)'
    BY <2>1, Zenon DEF Bound
  <2>. QED
    BY <2>2, Zenon DEF OrgsOK
<1>. QED
  BY <1>1, <1>2, <1>3, <1>4, <1>5, <1>6, Zenon DEF Kept

(* Deleting a tailnet takes its users and all they own with it. *)
LEMMA DeleteTailnetCommitStep ==
    ASSUME AdminInv, NEW c \in Callers, DeleteTailnetCommit(c)
    PROVE  AdminInv' /\ Progress
<1>1. PICK t : t = calls[c].t
  BY Zenon
<1>2. /\ owned' = {k \in owned : k.tailnet # t} /\ users' = {u \in users : u.tailnet # t}
      /\ tailnets' = [tailnets EXCEPT ![t] = NoRow]
      /\ calls' = [d \in Callers |-> IF d = c THEN NoCall ELSE calls[d]]
  BY <1>1, Zenon DEF DeleteTailnetCommit, Finish, AdminInv, CallsOK
<1>3. \A k \in owned' : \E u \in users' : u.id = k.user /\ u.tailnet = k.tailnet
  BY <1>2, Zenon DEF AdminInv, OwnedOK
<1>4. /\ tailnets' = [s \in TailnetIds |-> tailnets'[s]]
      /\ \A s \in TailnetIds : tailnets'[s] = IF s = t THEN NoRow ELSE tailnets[s]
  BY <1>2, Zenon DEF AdminInv, RowsOK
<1>5. \A u \in users' : tailnets'[u.tailnet] # NoRow
  <2>1. \A u \in users : u.tailnet \in TailnetIds
    BY AdminAssumption DEF AdminInv, UsersOK, Used, TailnetIds, Numbers
  <2>. QED
    BY <1>2, <1>4, <2>1, Zenon DEF AdminInv, UsersOK
<1>6. Kept /\ OrgsOK'
  BY <1>2, <1>3, <1>4, <1>5, RemovalKeeps, Zenon DEF DeleteTailnetCommit, AdminInv, Numbers
<1>7. CallsStep
  BY <1>2, Zenon DEF CallsStep
<1>8. Gone'
  BY <1>6, GoneKept, Zenon DEF AdminInv, Kept, DeleteTailnetCommit
<1>. QED
  BY <1>6, <1>7, <1>8, Assemble, Zenon DEF Kept

(* Removing users with what they own. *)
LEMMA UsersRemoved ==
    ASSUME AdminInv, NEW gone, RemoveUsers(gone),
           UNCHANGED <<load, tailnets, lastTailnet, lastId, accounts>>,
           made' \in 0 .. load.most,
           \A c \in Callers : calls'[c] = NoCall \/ calls'[c] = calls[c]
    PROVE  Kept /\ OrgsOK'
<1>1. /\ users' = {u \in users : u.id \notin gone}
      /\ owned' = {k \in owned : k.user \notin gone}
  BY Zenon DEF RemoveUsers
<1>2. \A k \in owned' : \E u \in users' : u.id = k.user /\ u.tailnet = k.tailnet
  BY <1>1, Zenon DEF AdminInv, OwnedOK
<1>3. tailnets' = [s \in TailnetIds |-> tailnets'[s]]
  BY Zenon DEF AdminInv, RowsOK
<1>4. \A u \in users' : tailnets'[u.tailnet] # NoRow
  BY <1>1, Zenon DEF AdminInv, UsersOK
<1>. QED
  BY <1>1, <1>2, <1>3, <1>4, RemovalKeeps, Zenon

(* RevokeAccount's transaction takes the users and all they own. *)
LEMMA RevokeAccountCommitStep ==
    ASSUME AdminInv, NEW c \in Callers, RevokeAccountCommit(c)
    PROVE  AdminInv' /\ Progress
<1>. DEFINE r == calls[c]
            done == [sub |-> r.sub, org |-> r.org, from |-> r.from, upto |-> r.upto]
<1>1. PICK gone : gone = r.ids
  BY Zenon
<1>2. /\ RemoveUsers(gone)
      /\ calls' = [d \in Callers |-> IF d = c THEN NoCall ELSE calls[d]]
  BY <1>1, Zenon DEF RevokeAccountCommit, Finish, AdminInv, CallsOK
<1>3. Kept /\ OrgsOK'
  BY <1>2, UsersRemoved, Zenon DEF RevokeAccountCommit, AdminInv, Numbers
<1>4. CallsStep
  BY <1>2, Zenon DEF CallsStep
<1>5. Gone'
  <2>1. /\ Looks(r)
        /\ \A u \in users : Concerns(r, u) => u.id \in r.ids \/ u.id > Looked(r, u.account)
    BY Zenon DEF RevokeAccountCommit, AdminInv, CallsOK, CallOK
  <2>2. /\ done.sub = r.sub /\ done.org = r.org /\ done.from = r.from
        /\ done.upto = r.upto
    BY Zenon
  <2>3. /\ users' = {u \in users : u.id \notin r.ids} /\ tailnets' = tailnets
        /\ lastId' = lastId /\ revoked' = revoked \cup {done}
    BY <1>1, <1>2, Zenon DEF RemoveUsers, RevokeAccountCommit
  <2>. HIDE DEF done
  <2>4. \A u \in users : Concerns(done, u) => Concerns(r, u)
    BY <2>2, Zenon DEF Concerns
  <2>5. \A x : Looks(x)' <=> Looks(x)
    BY <2>3, Zenon DEF Looks
  <2>7. Looks(done) /\ \A a : Looked(done, a) = Looked(r, a)
    BY <2>1, <2>2, Zenon DEF Looks, Looked
  <2>8. \A x : \A u : Concerns(x, u)' <=> Concerns(x, u)
    BY <2>3, Zenon DEF Concerns
  <2>6. ASSUME NEW x \in revoked'
        PROVE  /\ Looks(x)
               /\ \A u \in users' : Concerns(x, u) => u.id > Looked(x, u.account)
    <3>1. CASE x = done
      BY <3>1, <2>1, <2>3, <2>4, <2>7, Zenon
    <3>2. CASE x \in revoked
      BY <3>2, <2>3, Zenon DEF AdminInv, Gone
    <3>. QED
      BY <3>1, <3>2, <2>3, Zenon
  <2>. QED
    BY <2>3, <2>5, <2>6, <2>8, Zenon DEF Gone
<1>. QED
  BY <1>3, <1>4, <1>5, Assemble, Zenon DEF Kept

(* DeleteUser and DeleteAuthKey leave nothing without an owner. *)
LEMMA DeletionsStep ==
    ASSUME AdminInv, \/ \E u \in users, p \in Principals : DeleteUser(u, p)
                     \/ \E k \in owned : DeleteAuthKey(k)
    PROVE  AdminInv' /\ Progress
<1>1. CASE \E u \in users, p \in Principals : DeleteUser(u, p)
  <2>1. PICK gone : /\ RemoveUsers(gone) /\ made' \in 0 .. load.most
                    /\ UNCHANGED <<load, tailnets, lastTailnet, lastId, accounts, calls,
                                   revoked>>
    BY <1>1, AdminAssumption DEF DeleteUser, AdminInv, Numbers
  <2>2. Kept /\ OrgsOK'
    BY <2>1, UsersRemoved, Zenon
  <2>3. CallsStep
    BY <2>1, Zenon DEF CallsStep, AdminInv, CallsOK
  <2>4. Gone'
    BY <2>1, <2>2, GoneKept, Zenon DEF AdminInv, Kept
  <2>. QED
    BY <2>2, <2>3, <2>4, Assemble, Zenon DEF Kept
<1>2. CASE \E k \in owned : DeleteAuthKey(k)
  <2>1. /\ owned' \subseteq owned
        /\ UNCHANGED <<load, tailnets, lastTailnet, accounts, users, lastId, calls, made,
                       revoked>>
    BY <1>2, Zenon DEF DeleteAuthKey
  <2>2. Kept /\ OrgsOK'
    BY <2>1, RemovalKeeps, Zenon DEF AdminInv, OwnedOK, RowsOK, UsersOK, Numbers
  <2>3. CallsStep
    BY <2>1, Zenon DEF CallsStep, AdminInv, CallsOK
  <2>4. Gone'
    BY <2>1, <2>2, GoneKept, Zenon DEF AdminInv, Kept
  <2>. QED
    BY <2>2, <2>3, <2>4, Assemble, Zenon DEF Kept
<1>. QED
  BY <1>1, <1>2, Zenon

(* A machine or a key is added to the user that a call has found. *)
LEMMA OwnedAdded ==
    ASSUME AdminInv, NEW kind \in {"machine", "api", "auth"}, NEW id, NEW t,
           \A u \in users : u.id = id => u.tailnet = t,
           AddOwned(kind, id, t),
           UNCHANGED <<load, tailnets, lastTailnet, accounts, users, made>>
    PROVE  Kept
<1>. DEFINE k == [id |-> lastId + 1, kind |-> kind, user |-> id, tailnet |-> t]
<1>0. lastId \in 0 .. MaxId /\ MaxId \in Nat
  BY AdminAssumption, Zenon DEF AdminInv, Numbers
<1>1. CASE Owners(id, t) = {}
  <2>1. lastTailnet' \in lastTailnet .. MaxTailnet /\ made' \in 0 .. load.most
    BY AdminAssumption DEF AdminInv, Numbers
  <2>. QED
    BY <1>1, <2>1, RowsUnchanged, Zenon DEF AddOwned
<1>2. CASE Owners(id, t) # {}
  <2>1. lastId < MaxId /\ owned' = owned \cup {k} /\ lastId' = lastId + 1
    BY <1>2, Zenon DEF AddOwned
  <2>2. k.id = lastId + 1 /\ k.kind = kind /\ k.user = id /\ k.tailnet = t
    BY Zenon
  <2>. HIDE DEF k
  <2>3. \E u \in users : u.id = k.user /\ u.tailnet = k.tailnet
    BY <1>2, <2>2, Zenon DEF Owners
  <2>4. Numbers' /\ Used' = Used
    BY <1>0, <2>1 DEF AdminInv, Numbers, Used
  <2>5. RowsOK'
    BY <2>4, Zenon DEF AdminInv, RowsOK
  <2>6. UsersOK'
    BY <1>0, <2>1, <2>4 DEF AdminInv, UsersOK
  <2>7. OwnedOK'
    BY <1>0, <2>1, <2>2, <2>3 DEF AdminInv, OwnedOK
  <2>8. Progress
    <3>1. lastTailnet' >= lastTailnet /\ lastId' >= lastId
      BY <1>0, <2>1 DEF AdminInv, Numbers
    <3>2. \A m \in owned' : m \in owned \/ m.id > lastId
      BY <1>0, <2>1, <2>2
    <3>. QED
      BY <3>1, <3>2, Zenon DEF Progress
  <2>. QED
    BY <2>4, <2>5, <2>6, <2>7, <2>8, Zenon DEF Kept
<1>. QED
  BY <1>1, <1>2, Zenon

(* Saving a key or a machine: its user still exists (the foreign key). *)
LEMMA OwnedSaveStep ==
    ASSUME AdminInv, NEW c \in Callers,
           \/ CreateAuthKeySave(c)
           \/ /\ calls[c] # NoCall /\ calls[c].op = "login"
              /\ \E kind \in {"machine", "api"} : LoginSave(c, kind)
    PROVE  AdminInv' /\ Progress
<1>1. PICK kind, id, t :
          /\ kind \in {"machine", "api", "auth"}
          /\ id = calls[c].user /\ t = calls[c].t /\ AddOwned(kind, id, t)
          /\ calls' = [calls EXCEPT ![c] = NoCall]
          /\ UNCHANGED <<load, tailnets, lastTailnet, accounts, users, made, revoked>>
  <2>1. CASE CreateAuthKeySave(c)
    <3>1. /\ AddOwned("auth", calls[c].user, calls[c].t)
          /\ calls' = [calls EXCEPT ![c] = NoCall]
          /\ UNCHANGED <<load, tailnets, lastTailnet, accounts, users, made, revoked>>
      BY <2>1, Zenon DEF CreateAuthKeySave, Finish
    <3>. QED
      BY <3>1
  <2>2. CASE \E kind \in {"machine", "api"} : LoginSave(c, kind)
    <3>1. PICK kind \in {"machine", "api"} : LoginSave(c, kind)
      BY <2>2, Zenon
    <3>2. /\ AddOwned(kind, calls[c].user, calls[c].t)
          /\ calls' = [calls EXCEPT ![c] = NoCall]
          /\ UNCHANGED <<load, tailnets, lastTailnet, accounts, users, made, revoked>>
      BY <3>1, Zenon DEF LoginSave, Finish
    <3>. QED
      BY <3>2
  <2>. QED
    BY <2>1, <2>2, Zenon
<1>2. OfCall(calls[c])
  BY Zenon DEF AdminInv, CallsOK, CallOK, CreateAuthKeySave, LoginSave
<1>3. Kept
  <2>1. \A u \in users : u.id = id => u.tailnet = t
    BY <1>1, <1>2, Zenon DEF OfCall
  <2>2. UNCHANGED <<load, tailnets, lastTailnet, accounts, users, made>>
    BY <1>1, Zenon
  <2>. QED
    BY <1>1, <2>1, <2>2, OwnedAdded
<1>4. calls' = [d \in Callers |-> IF d = c THEN NoCall ELSE calls[d]]
  BY <1>1, Zenon DEF AdminInv, CallsOK
<1>5. CallsStep
  BY <1>4, Zenon DEF CallsStep
<1>6. OrgsOK'
  BY <1>1, <1>4, BoundKept, Zenon DEF AdminInv
<1>7. Gone'
  BY <1>1, <1>3, GoneKept, Zenon DEF AdminInv, Kept
<1>. QED
  BY <1>3, <1>5, <1>6, <1>7, Assemble, Zenon DEF Kept

(* A user is added to a tailnet that is there. *)
LEMMA UserAdded ==
    ASSUME AdminInv, NEW t \in Live, NEW account, NEW name,
           account # Service => account \in DOMAIN accounts,
           lastId < MaxId, lastId' = lastId + 1,
           users' = users \cup {NewUser(t, account, name)},
           UNCHANGED <<load, tailnets, lastTailnet, accounts, owned>>,
           made' \in 0 .. load.most
    PROVE  /\ Kept
           /\ \A u \in users' : u.id = lastId + 1 => u.tailnet = t
           /\ \A u \in users' : u \in users \/ (u.account = account /\ u.tailnet = t)
           /\ \E u \in users' : u.id = lastId + 1 /\ u.tailnet = t /\ u.name = name
<1>. DEFINE n == NewUser(t, account, name)
<1>0. lastId \in 0 .. MaxId /\ MaxId \in Nat
  BY AdminAssumption, Zenon DEF AdminInv, Numbers
<1>1. /\ n.id = lastId + 1 /\ n.tailnet = t /\ n.account = account /\ n.name = name
      /\ DOMAIN n = UserFields
  BY Zenon DEF NewUser, UserFields
<1>. HIDE DEF n
<1>2. users' = users \cup {n} /\ \A u \in users : u.id \in 1 .. lastId
  BY Zenon DEF n, AdminInv, UsersOK
<1>3. Numbers' /\ Used' = Used
  BY <1>0 DEF AdminInv, Numbers, Used
<1>4. RowsOK' /\ t \in Used /\ tailnets[t] # NoRow
  BY <1>3, Zenon DEF AdminInv, RowsOK, Live
<1>5. UsersOK'
  <2>1. ASSUME NEW u \in users'
        PROVE  /\ DOMAIN u = UserFields
               /\ u.id \in 1 .. lastId' /\ u.tailnet \in Used'
               /\ tailnets'[u.tailnet] # NoRow
               /\ u.account # Service => u.account \in DOMAIN accounts'
    BY <1>0, <1>1, <1>2, <1>3, <1>4 DEF AdminInv, UsersOK
  <2>2. ASSUME NEW u \in users', NEW v \in users', u.id = v.id
        PROVE  u = v
    BY <1>0, <1>1, <1>2, <2>2 DEF AdminInv, UsersOK
  <2>. QED
    BY <2>1, <2>2, Zenon DEF UsersOK
<1>6. OwnedOK'
  BY <1>0, <1>2 DEF AdminInv, OwnedOK
<1>7. Progress
  <2>1. lastTailnet' >= lastTailnet /\ lastId' >= lastId
    BY <1>0 DEF AdminInv, Numbers
  <2>. QED
    BY <1>0, <1>1, <1>2, <2>1 DEF Progress
<1>8. \A u \in users' : u.id = lastId + 1 => u.tailnet = t
  BY <1>0, <1>1, <1>2
<1>. QED
  BY <1>1, <1>2, <1>3, <1>4, <1>5, <1>6, <1>7, <1>8, Zenon DEF Kept

(* A principal is a system admin or a user that exists. *)
LEMMA PrincipalKinds ==
    ASSUME NEW p \in Principals
    PROVE  p.system = TRUE \/ (p.system = FALSE /\ p.user \in users)
<1>1. CASE p = SystemAdmin
  BY <1>1, Zenon DEF SystemAdmin
<1>2. CASE \E u \in users : p = ExchangeToken(u, tailnets[u.tailnet].policy)
  BY <1>2 DEF ExchangeToken
<1>. QED
  BY <1>1, <1>2, Zenon DEF Principals

(* CreateAuthKey's checks: the new call names the caller or a service. *)
LEMMA CreateAuthKeyStep ==
    ASSUME AdminInv, NEW c \in Callers, NEW t \in Live, NEW p \in Principals,
           CreateAuthKey(c, t, p)
    PROVE  AdminInv' /\ Progress
<1>0. lastId \in 0 .. MaxId /\ MaxId \in Nat /\ lastId + 1 < MaxId /\ made' \in 0 .. load.most
  BY AdminAssumption DEF AdminInv, Numbers, CreateAuthKey, Begin
<1>. DEFINE made1 == p.system /\ ServiceUser(t) = {}
            owner == IF ~p.system THEN p.user.id
                     ELSE IF made1 THEN lastId + 1 ELSE (CHOOSE u \in ServiceUser(t) : TRUE).id
            call == [op |-> "authkey", t |-> t, user |-> owner]
<1>1. calls' = [d \in Callers |-> IF d = c THEN call ELSE calls[d]]
  BY Zenon DEF CreateAuthKey, Begin, AdminInv, CallsOK
<1>2. call.op = "authkey" /\ call.t = t /\ call.user = owner
  BY Zenon
<1>3. /\ Kept /\ owner \in 1 .. lastId' /\ \A u \in users' : u.id = owner => u.tailnet = t
      /\ \A u \in users' : u \in users \/ u.account = Service
  <2>1. CASE made1
    <3>1. PICK name : name = tailnets[t].name
      BY Zenon
    <3>2. /\ owner = lastId + 1 /\ lastId' = lastId + 1
          /\ users' = users \cup {NewUser(t, Service, name)}
      BY <2>1, <3>1, PrincipalKinds, Zenon DEF CreateAuthKey
    <3>. HIDE DEF made1, owner, call
    <3>. QED
      <4>1. UNCHANGED <<load, tailnets, lastTailnet, accounts, owned>>
        BY Zenon DEF CreateAuthKey
      <4>2. lastId < MaxId
        BY <1>0
      <4>3. /\ Kept /\ \A u \in users' : u.id = lastId + 1 => u.tailnet = t
            /\ \A u \in users' : u \in users \/ (u.account = Service /\ u.tailnet = t)
        BY <1>0, <3>2, <4>1, <4>2, UserAdded, Zenon
      <4>4. owner \in 1 .. lastId'
        BY <1>0, <3>2
      <4>. QED
        BY <3>2, <4>3, <4>4, Zenon
  <2>2. CASE ~made1
    <3>1. users' = users /\ lastId' = lastId
      BY <2>2, Zenon DEF CreateAuthKey
    <3>2. \E u \in users : u.id = owner /\ u.tailnet = t
      <4>1. CASE p.system = TRUE
        <5>1. (CHOOSE u \in ServiceUser(t) : TRUE) \in ServiceUser(t)
          BY <2>2, <4>1, Zenon
        <5>. QED
          BY <5>1, <2>2, <4>1, Zenon DEF ServiceUser
      <4>2. CASE p.system = FALSE /\ p.user \in users
        BY <4>2, Zenon DEF CreateAuthKey, MayAdminister, IsTailnetAdmin
      <4>. QED
        BY <4>1, <4>2, PrincipalKinds, Zenon
    <3>. HIDE DEF made1, owner, call
    <3>3. Kept
      <4>1. lastTailnet' \in lastTailnet .. MaxTailnet
        BY AdminAssumption DEF AdminInv, Numbers, CreateAuthKey
      <4>. QED
        BY <1>0, <3>1, <4>1, RowsUnchanged, Zenon DEF CreateAuthKey
    <3>. QED
      BY <3>1, <3>2, <3>3, Zenon DEF AdminInv, UsersOK
  <2>. QED
    BY <2>1, <2>2, Zenon
<1>4. t \in Used'
  BY Zenon DEF AdminInv, RowsOK, Live, Used, CreateAuthKey
<1>. HIDE DEF made1, owner, call
<1>5. CallsStep
  <2>1. calls'[c] = call /\ CallOK(calls[c])'
    BY <1>1, <1>2, <1>3, <1>4, Zenon DEF CallOK, OfCall
  <2>. QED
    BY <1>1, <2>1, Zenon DEF CallsStep
<1>6. OrgsOK'
  <2>1. PICK g \in [TailnetIds -> Orgs \cup {NoName}] : Bound(g)
    BY Zenon DEF AdminInv, OrgsOK
  <2>2. \A d \in Callers : calls'[d] # NoCall => CallBound(g, calls'[d])
    BY <1>1, <1>2, <2>1, Zenon DEF Bound, CallBound
  <2>3. Bound(g)'
    BY <1>3, <2>1, <2>2, Zenon DEF Bound, CreateAuthKey
  <2>. QED
    BY <2>3, Zenon DEF OrgsOK
<1>7. Gone'
  BY <1>3, GoneKept, Zenon DEF AdminInv, Kept, CreateAuthKey
<1>. QED
  BY <1>3, <1>5, <1>6, <1>7, Assemble, Zenon DEF Kept

(* A login starts with its account, and is no longer alone with others. *)
LEMMA LoginStep ==
    ASSUME AdminInv, NEW c \in Callers, NEW id, Login(c, id)
    PROVE  AdminInv' /\ Progress
<1>. DEFINE u == Exchange(id, load.orgs)
            others == {d \in Callers : calls[d] # NoCall /\ calls[d].op = "login"}
            call == [op |-> "login", who |-> u, todo |-> <<>>, step |-> "list", t |-> 0,
                     user |-> 0, name |-> NoName, alone |-> others = {}]
<1>1. calls' = [d \in Callers |-> IF d = c THEN call ELSE
                    IF d \in others THEN [calls[d] EXCEPT !.alone = FALSE] ELSE calls[d]]
  BY Zenon DEF Login, LoggingIn
<1>2. /\ call.op = "login" /\ call.who = u /\ call.todo = <<>> /\ call.step = "list"
      /\ DOMAIN call = LoginFields
  <2>. DEFINE first == others = {}
  <2>1. call = [op |-> "login", who |-> u, todo |-> <<>>, step |-> "list", t |-> 0,
                user |-> 0, name |-> NoName, alone |-> first]
    BY Zenon
  <2>. HIDE DEF first, u, call
  <2>. QED
    BY <2>1, Zenon DEF LoginFields
<1>3. DOMAIN call.todo = {} /\ (~load.orgs.enabled => u.org = NoName)
  <2>1. DOMAIN <<>> = {}
    OBVIOUS
  <2>. QED
    BY <2>1, <1>2, Zenon DEF Exchange
<1>4. /\ \A d \in others : calls[d] # NoCall /\ calls[d].op = "login"
      /\ others \subseteq Callers
  BY Zenon
<1>5. /\ Account(u) \in DOMAIN accounts' /\ DOMAIN accounts \subseteq DOMAIN accounts'
      /\ made' \in 0 .. load.most
      /\ UNCHANGED <<load, tailnets, lastTailnet, users, owned, lastId, revoked>>
  BY AdminAssumption DEF Login, AdminInv, Numbers
<1>. HIDE DEF call, others, u
<1>6. Kept
  <2>1. lastTailnet' \in lastTailnet .. MaxTailnet
    BY <1>5, AdminAssumption DEF AdminInv, Numbers
  <2>. QED
    BY <1>5, <2>1, RowsUnchanged, Zenon
<1>7. ASSUME NEW d \in others
      PROVE  LET r == calls[d]
                 s == [calls[d] EXCEPT !.alone = FALSE]
             IN  /\ CallOK(r) /\ DOMAIN s = LoginFields
                 /\ s.op = "login" /\ s.who = r.who /\ s.todo = r.todo /\ s.step = r.step
                 /\ s.t = r.t /\ s.user = r.user
  <2>1. CallOK(calls[d]) /\ DOMAIN calls[d] = LoginFields /\ calls[d].op = "login"
    BY <1>4, Zenon DEF AdminInv, CallsOK, CallOK
  <2>. QED
    BY <2>1, Zenon DEF LoginFields
<1>8. CallsStep
  <2>1. "list" \in LoginSteps /\ "list" \notin Chosen
    BY DEF LoginSteps, Chosen
  <2>2. calls'[c] = call /\ CallOK(calls[c])'
    BY <1>1, <1>2, <1>3, <1>5, <2>1 DEF CallOK
  <2>3. \A r : CallOK(r) => CallOK(r)'
    BY <1>6, CallKept, AdminAssumption, Zenon DEF AdminInv, Kept
  <2>4. ASSUME NEW d \in Callers, d # c, d \in others
        PROVE  CallOK(calls[d])'
    <3>1. PICK r, s : r = calls[d] /\ s = [calls[d] EXCEPT !.alone = FALSE]
      BY Zenon
    <3>2. calls'[d] = s /\ CallOK(r)' /\ r.op = "login"
      BY <3>1, <1>1, <1>4, <1>7, <2>3, <2>4, Zenon
    <3>3. /\ DOMAIN s = LoginFields
          /\ s.op = "login" /\ s.who = r.who /\ s.todo = r.todo /\ s.step = r.step
          /\ s.t = r.t /\ s.user = r.user
      BY <3>1, <1>7, <2>4, Zenon
    <3>. QED
      BY <3>2, <3>3, Zenon DEF CallOK, OfCall
  <2>. QED
    BY <1>1, <2>2, <2>4, Zenon DEF CallsStep
<1>9. OrgsOK'
  <2>1. PICK g \in [TailnetIds -> Orgs \cup {NoName}] : Bound(g)
    BY Zenon DEF AdminInv, OrgsOK
  <2>2. ASSUME NEW d \in Callers, calls'[d] # NoCall
        PROVE  CallBound(g, calls'[d])
    <3>1. CASE d = c
      <4>1. "list" \notin Chosen
        BY DEF Chosen
      <4>. QED
        BY <3>1, <4>1, <1>1, <1>2, <1>3 DEF CallBound
    <3>2. CASE d # c /\ d \in others
      <4>1. PICK r, s : r = calls[d] /\ s = [calls[d] EXCEPT !.alone = FALSE]
        BY Zenon
      <4>2. /\ calls'[d] = s /\ CallBound(g, r) /\ r.op = "login"
            /\ s.op = "login" /\ s.who = r.who /\ s.todo = r.todo /\ s.step = r.step
            /\ s.t = r.t
        BY <4>1, <1>1, <1>4, <1>7, <3>2, <2>1, Zenon DEF Bound
      <4>. QED
        BY <4>2, Zenon DEF CallBound
    <3>3. CASE d # c /\ d \notin others
      BY <3>3, <1>1, <2>1, <2>2, Zenon DEF Bound
    <3>. QED
      BY <3>1, <3>2, <3>3, Zenon
  <2>3. Bound(g)'
    BY <1>5, <2>1, <2>2, Zenon DEF Bound
  <2>. QED
    BY <2>3, Zenon DEF OrgsOK
<1>10. Gone'
  BY <1>5, <1>6, GoneKept, Zenon DEF AdminInv, Kept
<1>. QED
  BY <1>6, <1>8, <1>9, <1>10, Assemble, Zenon DEF Kept

(* What a login in progress has. *)
LEMMA LoginFacts ==
    ASSUME AdminInv, NEW c \in Callers, calls[c] # NoCall, calls[c].op = "login"
    PROVE  /\ CallOK(calls[c]) /\ DOMAIN calls[c] = LoginFields
           /\ \A g : Bound(g) => CallBound(g, calls[c])
  BY Zenon DEF AdminInv, CallsOK, CallOK, Bound

(* A login goes on, or ends, where the tailnets stay and no user moves:    *)
(* what it has left to save it had before or is a row as it is now, and    *)
(* the tailnet it has chosen is of its organization.                       *)
LEMMA LoginMoves ==
    ASSUME AdminInv, Kept, NEW c \in Callers, calls[c] # NoCall, calls[c].op = "login",
           NEW q, calls' = [calls EXCEPT ![c] = q], UNCHANGED <<tailnets, revoked>>,
           \A u \in users' : \E v \in users : v.account = u.account /\ v.tailnet = u.tailnet,
           q # NoCall =>
             /\ q.op = "login" /\ q.who = calls[c].who /\ DOMAIN q = LoginFields
             /\ \A t \in DOMAIN q.todo :
                   \/ t \in DOMAIN calls[c].todo /\ q.todo[t] = calls[c].todo[t]
                   \/ t \in Live /\ q.todo[t] = tailnets[t]
             /\ q.step \in LoginSteps
             /\ q.step \in Chosen => \/ calls[c].step \in Chosen /\ q.t = calls[c].t
                                     \/ q.t \in Live /\ tailnets[q.t].org = q.who.org
             /\ q.step \in {"rename", "save"} => OfCall(q)'
    PROVE  AdminInv' /\ Progress
<1>1. PICK r : r = calls[c]
  BY Zenon
<1>2. /\ CallOK(r) /\ CallOK(r)' /\ r.op = "login" /\ \A g : Bound(g) => CallBound(g, r)
      /\ Used \subseteq Used'
  <2>1. CallOK(r) /\ r.op = "login" /\ \A g : Bound(g) => CallBound(g, r)
    BY <1>1, LoginFacts, Zenon
  <2>2. CallOK(r)'
    BY <2>1, CallKept, AdminAssumption, Zenon DEF AdminInv, Kept
  <2>3. Used \subseteq Used'
    BY DEF Used, Kept, Progress, AdminInv, Numbers
  <2>. QED
    BY <2>1, <2>2, <2>3, Zenon
<1>3. \A t \in Live : t \in Used /\ t \in TailnetIds /\ IsRow(tailnets[t]) /\ tailnets[t] # NoRow
  BY Zenon DEF AdminInv, RowsOK, Live
<1>4. ASSUME q # NoCall
      PROVE  CallOK(q)'
  <2>1. \A t \in DOMAIN q.todo : t \in Used' /\ IsRow(q.todo[t])
    BY <1>1, <1>2, <1>3, <1>4, Zenon DEF CallOK
  <2>2. q.step \in Chosen => q.t \in Used'
    BY <1>1, <1>2, <1>3, <1>4, Zenon DEF CallOK
  <2>. QED
    BY <1>1, <1>2, <1>4, <2>1, <2>2, Zenon DEF CallOK
<1>5. ASSUME q # NoCall, NEW g, Bound(g)
      PROVE  CallBound(g, q)
  <2>0. /\ \A t \in Live : tailnets[t].org = g[t]
        /\ \A t \in DOMAIN r.todo : r.todo[t].org = g[t]
    BY <1>2, <1>3, <1>5, Zenon DEF CallBound, Bound
  <2>1. \A t \in DOMAIN q.todo : q.todo[t].org = g[t]
    BY <1>1, <1>5, <2>0, Zenon
  <2>2. q.step \in Chosen => q.who.org = g[q.t]
    BY <1>1, <1>2, <1>3, <1>5, Zenon DEF CallBound, Bound
  <2>. QED
    BY <1>5, <2>1, <2>2, Zenon DEF CallBound
<1>. QED
  BY <1>4, <1>5, CallMoves, Zenon

(* What is out of step is listed as it is. *)
LEMMA LoginListStep ==
    ASSUME AdminInv, NEW c \in Callers, calls[c] # NoCall, calls[c].op = "login",
           LoginList(c)
    PROVE  AdminInv' /\ Progress
<1>1. PICK r : r = calls[c]
  BY Zenon
<1>2. PICK todo : todo = [t \in OutOfStep(r.who) |-> tailnets[t]]
  BY Zenon
<1>3. \A t \in DOMAIN todo : t \in Live /\ todo[t] = tailnets[t]
  BY <1>2, Zenon DEF OutOfStep, ByOrganization
<1>4. PICK q : q = [r EXCEPT !.step = "sync", !.todo = todo]
  BY Zenon
<1>5. /\ q.op = "login" /\ q.who = r.who /\ q.step = "sync" /\ q.todo = todo
      /\ DOMAIN q = LoginFields
  BY <1>1, <1>4, LoginFacts, Zenon DEF LoginFields
<1>6. calls' = [calls EXCEPT ![c] = q] /\ UNCHANGED <<tailnets, revoked, users>>
  BY <1>1, <1>2, <1>4, Zenon DEF LoginList
<1>7. Kept
  <2>1. lastTailnet' \in lastTailnet .. MaxTailnet /\ made' \in 0 .. load.most
    BY AdminAssumption DEF AdminInv, Numbers, LoginList
  <2>. QED
    BY <2>1, RowsUnchanged, Zenon DEF LoginList
<1>8. "sync" \in LoginSteps /\ "sync" \notin Chosen \cup {"rename", "save"}
  BY DEF LoginSteps, Chosen
<1>. QED
  BY <1>1, <1>3, <1>5, <1>6, <1>7, <1>8, LoginMoves, Zenon

(* Syncing the roles at a login changes policies only. *)
LEMMA LoginSyncStep ==
    ASSUME AdminInv, NEW c \in Callers, calls[c] # NoCall, calls[c].op = "login",
           NEW t \in TailnetIds, LoginSync(c, t)
    PROVE  AdminInv' /\ Progress
<1>1. PICK r : r = calls[c]
  BY Zenon
<1>2. PICK row : row = [r.todo[t] EXCEPT !.policy = SyncedPolicy(@, r.who, AdminRoles)]
  BY Zenon
<1>3. /\ CallOK(r) /\ DOMAIN r = LoginFields /\ r.op = "login"
      /\ r.step = "sync" /\ t \in DOMAIN r.todo
      /\ \A g : Bound(g) => CallBound(g, r)
  BY <1>1, LoginFacts, Zenon DEF LoginSync
<1>4. t \in Used /\ IsRow(row) /\ \A g : Bound(g) => row.org = g[t]
  <2>1. IsRow(r.todo[t]) /\ t \in Used /\ \A g : Bound(g) => r.todo[t].org = g[t]
    BY <1>3, Zenon DEF CallOK, CallBound
  <2>2. PICK p : p = SyncedPolicy(r.todo[t].policy, r.who, AdminRoles)
    BY Zenon
  <2>3. row = [r.todo[t] EXCEPT !.policy = p]
    BY <1>2, <2>2, Zenon
  <2>4. IsRow(row) /\ row.org = r.todo[t].org
    BY <2>1, <2>3, Zenon DEF IsRow, RowFields
  <2>. QED
    BY <2>1, <2>4, Zenon
<1>5. SaveTailnet(t, row)
  BY <1>1, <1>2, Zenon DEF LoginSync
<1>6. /\ Kept
      /\ \A g : Bound(g) => \A s \in TailnetIds :
            tailnets'[s] # NoRow => tailnets'[s].org = g[s]
  BY <1>4, <1>5, SaveKeeps, Zenon DEF LoginSync
<1>7. Gone'
  BY <1>6, GoneKept, Zenon DEF AdminInv, Kept, LoginSync
<1>8. CASE calls' = [calls EXCEPT ![c] = NoCall]
  <2>1. calls' = [d \in Callers |-> IF d = c THEN NoCall ELSE calls[d]]
    BY <1>8, Zenon DEF AdminInv, CallsOK
  <2>2. CallsStep
    BY <2>1, Zenon DEF CallsStep
  <2>3. OrgsOK'
    <3>1. PICK g \in [TailnetIds -> Orgs \cup {NoName}] : Bound(g)
      BY Zenon DEF AdminInv, OrgsOK
    <3>2. Bound(g)'
      BY <1>6, <2>1, <3>1, Zenon DEF Bound, LoginSync
    <3>. QED
      BY <3>2, Zenon DEF OrgsOK
  <2>. QED
    BY <1>6, <1>7, <2>2, <2>3, Assemble, Zenon DEF Kept
<1>9. CASE calls' = [calls EXCEPT ![c].todo = Restrict(@, DOMAIN @ \ {t})]
  <2>1. PICK q : q = [r EXCEPT !.todo = Restrict(r.todo, DOMAIN r.todo \ {t})]
    BY Zenon
  <2>2. calls' = [d \in Callers |-> IF d = c THEN q ELSE calls[d]]
    BY <1>1, <1>9, <2>1, Zenon DEF AdminInv, CallsOK
  <2>3. /\ q.op = "login" /\ q.who = r.who /\ q.step = "sync" /\ DOMAIN q = LoginFields
        /\ DOMAIN q.todo \subseteq DOMAIN r.todo
        /\ \A s \in DOMAIN q.todo : q.todo[s] = r.todo[s]
    BY <1>3, <2>1, Zenon DEF LoginFields, Restrict
  <2>4. CallsStep
    <3>1. CallOK(r)'
      BY <1>3, <1>6, CallKept, AdminAssumption, Zenon DEF AdminInv, Kept
    <3>2. "sync" \in LoginSteps /\ "sync" \notin Chosen \cup {"rename", "save"}
      BY DEF LoginSteps, Chosen
    <3>3. calls'[c] = q /\ CallOK(calls[c])'
      BY <1>3, <2>2, <2>3, <3>1, <3>2, Zenon DEF CallOK
    <3>. QED
      BY <2>2, <3>3, Zenon DEF CallsStep
  <2>5. OrgsOK'
    <3>1. PICK g \in [TailnetIds -> Orgs \cup {NoName}] : Bound(g)
      BY Zenon DEF AdminInv, OrgsOK
    <3>2. CallBound(g, q)
      <4>1. "sync" \notin Chosen
        BY DEF Chosen
      <4>2. \A s \in DOMAIN q.todo : q.todo[s].org = g[s]
        BY <1>3, <2>3, <3>1, Zenon DEF CallBound
      <4>. QED
        BY <2>3, <4>1, <4>2 DEF CallBound
    <3>3. Bound(g)'
      BY <1>6, <2>2, <3>1, <3>2, Zenon DEF Bound, LoginSync
    <3>. QED
      BY <3>3, Zenon DEF OrgsOK
  <2>. QED
    BY <1>6, <1>7, <2>4, <2>5, Assemble, Zenon DEF Kept
<1>. QED
  BY <1>1, <1>8, <1>9, Zenon DEF LoginSync, Finish

(* The tailnet that is chosen is of the identity's organization. *)
LEMMA LoginChooseStep ==
    ASSUME AdminInv, NEW c \in Callers, calls[c] # NoCall, calls[c].op = "login",
           LoginChoose(c)
    PROVE  AdminInv' /\ Progress
<1>1. PICK r : r = calls[c]
  BY Zenon
<1>2. CallOK(r) /\ DOMAIN r = LoginFields /\ r.op = "login" /\ DOMAIN r.todo = {}
  BY <1>1, LoginFacts, Zenon DEF LoginChoose
<1>3. Kept
  <2>1. lastTailnet' \in lastTailnet .. MaxTailnet /\ made' \in 0 .. load.most
    BY AdminAssumption DEF AdminInv, Numbers, LoginChoose
  <2>. QED
    BY <2>1, RowsUnchanged, Zenon DEF LoginChoose
<1>4. UNCHANGED <<tailnets, revoked, users>>
  BY Zenon DEF LoginChoose
<1>5. CASE calls' = [calls EXCEPT ![c] = NoCall]
  BY <1>3, <1>4, <1>5, LoginMoves, Zenon
<1>6. CASE \E t \in Live : /\ TailnetAccessible(load.orgs.enabled, tailnets[t], r.who)
                           /\ calls' = [calls EXCEPT ![c].step = "account", ![c].t = t]
  <2>1. PICK t \in Live : /\ TailnetAccessible(load.orgs.enabled, tailnets[t], r.who)
                          /\ calls' = [calls EXCEPT ![c].step = "account", ![c].t = t]
    BY <1>6, Zenon
  <2>2. PICK q : q = [r EXCEPT !.step = "account", !.t = t]
    BY Zenon
  <2>3. calls' = [calls EXCEPT ![c] = q]
    BY <1>1, <2>1, <2>2, Zenon
  <2>4. /\ q.op = "login" /\ q.who = r.who /\ q.step = "account" /\ q.t = t
        /\ q.todo = r.todo /\ DOMAIN q = LoginFields
    BY <1>2, <2>2, Zenon DEF LoginFields
  <2>5. tailnets[t].org = r.who.org
    BY <1>2, <2>1, Zenon DEF CallOK, TailnetAccessible
  <2>6. "account" \in LoginSteps /\ "account" \notin {"rename", "save"}
    BY DEF LoginSteps
  <2>. QED
    BY <1>1, <1>2, <1>3, <1>4, <2>3, <2>4, <2>5, <2>6, LoginMoves, Zenon
<1>. QED
  BY <1>1, <1>5, <1>6, Zenon DEF LoginChoose, Finish

(* Reading the account again changes nothing else. *)
LEMMA LoginAccountStep ==
    ASSUME AdminInv, NEW c \in Callers, calls[c] # NoCall, calls[c].op = "login",
           LoginAccount(c)
    PROVE  AdminInv' /\ Progress
<1>1. PICK r : r = calls[c]
  BY Zenon
<1>2. CallOK(r) /\ DOMAIN r = LoginFields /\ r.op = "login" /\ r.step = "account"
  BY <1>1, LoginFacts, Zenon DEF LoginAccount
<1>3. Kept
  <2>1. lastTailnet' \in lastTailnet .. MaxTailnet /\ made' \in 0 .. load.most
    BY AdminAssumption DEF AdminInv, Numbers, LoginAccount
  <2>. QED
    BY <2>1, RowsUnchanged, Zenon DEF LoginAccount
<1>4. UNCHANGED <<tailnets, revoked, users>>
  BY Zenon DEF LoginAccount
<1>5. CASE calls' = [calls EXCEPT ![c] = NoCall]
  BY <1>3, <1>4, <1>5, LoginMoves, Zenon
<1>6. CASE calls' = [calls EXCEPT ![c].step = "user", ![c].name = accounts[Account(r.who)]]
  <2>1. PICK q : q = [r EXCEPT !.step = "user", !.name = accounts[Account(r.who)]]
    BY Zenon
  <2>2. calls' = [calls EXCEPT ![c] = q]
    BY <1>1, <1>6, <2>1, Zenon
  <2>3. /\ q.op = "login" /\ q.who = r.who /\ q.step = "user" /\ q.t = r.t
        /\ q.todo = r.todo /\ DOMAIN q = LoginFields
    BY <1>2, <2>1, Zenon DEF LoginFields
  <2>4. /\ "user" \in LoginSteps /\ "user" \notin {"rename", "save"}
        /\ "account" \in Chosen
    BY DEF LoginSteps, Chosen
  <2>. QED
    BY <1>1, <1>2, <1>3, <1>4, <2>2, <2>3, <2>4, LoginMoves, Zenon
<1>. QED
  BY <1>1, <1>5, <1>6, Zenon DEF LoginAccount, Finish

(* The user that is found is one of the tailnet. *)
LEMMA LoginUserStep ==
    ASSUME AdminInv, NEW c \in Callers, calls[c] # NoCall, calls[c].op = "login",
           LoginUser(c)
    PROVE  AdminInv' /\ Progress
<1>1. PICK r : r = calls[c]
  BY Zenon
<1>2. CallOK(r) /\ DOMAIN r = LoginFields /\ r.op = "login" /\ r.step = "user"
  BY <1>1, LoginFacts, Zenon DEF LoginUser
<1>3. Kept
  <2>1. lastTailnet' \in lastTailnet .. MaxTailnet /\ made' \in 0 .. load.most
    BY AdminAssumption DEF AdminInv, Numbers, LoginUser
  <2>. QED
    BY <2>1, RowsUnchanged, Zenon DEF LoginUser
<1>4. UNCHANGED <<tailnets, revoked, users, lastId, lastTailnet>>
  BY Zenon DEF LoginUser
<1>5. /\ "user" \in Chosen /\ "create" \in LoginSteps /\ "create" \notin {"rename", "save"}
      /\ {"rename", "save"} \subseteq LoginSteps
  BY DEF LoginSteps, Chosen
<1>6. CASE calls' = [calls EXCEPT ![c].step = "create"]
  <2>1. PICK q : q = [r EXCEPT !.step = "create"]
    BY Zenon
  <2>2. calls' = [calls EXCEPT ![c] = q]
    BY <1>1, <1>6, <2>1, Zenon
  <2>3. /\ q.op = "login" /\ q.who = r.who /\ q.step = "create" /\ q.t = r.t
        /\ q.todo = r.todo /\ DOMAIN q = LoginFields
    BY <1>2, <2>1, Zenon DEF LoginFields
  <2>. QED
    BY <1>1, <1>2, <1>3, <1>4, <1>5, <2>2, <2>3, LoginMoves, Zenon
<1>7. CASE \E u \in users : \E next \in {"rename", "save"} :
               /\ u.tailnet = r.t
               /\ calls' = [calls EXCEPT ![c].step = next, ![c].user = u.id]
  <2>1. PICK u \in users, next \in {"rename", "save"} :
            /\ u.tailnet = r.t
            /\ calls' = [calls EXCEPT ![c].step = next, ![c].user = u.id]
    BY <1>7, Zenon
  <2>2. PICK q : q = [r EXCEPT !.step = next, !.user = u.id]
    BY Zenon
  <2>3. calls' = [calls EXCEPT ![c] = q]
    BY <1>1, <2>1, <2>2, Zenon
  <2>4. /\ q.op = "login" /\ q.who = r.who /\ q.step = next /\ q.t = r.t
        /\ q.user = u.id /\ q.todo = r.todo /\ DOMAIN q = LoginFields
    BY <1>2, <2>2, Zenon DEF LoginFields
  <2>5. OfCall(q)'
    <3>1. q.t \in Used' /\ q.user \in 1 .. lastId'
      BY <1>2, <1>4, <1>5, <2>4, Zenon DEF CallOK, Used, AdminInv, UsersOK
    <3>2. \A w \in users' : w.id = q.user => w.tailnet = q.t
      BY <1>4, <2>1, <2>4, Zenon DEF AdminInv, UsersOK
    <3>. QED
      BY <3>1, <3>2, Zenon DEF OfCall
  <2>. QED
    BY <1>1, <1>2, <1>3, <1>4, <1>5, <2>3, <2>4, <2>5, LoginMoves, Zenon
<1>. QED
  BY <1>1, <1>6, <1>7, Zenon DEF LoginUser

(* A user that is renamed is otherwise left as it is. *)
LEMMA LoginRenameStep ==
    ASSUME AdminInv, NEW c \in Callers, calls[c] # NoCall, calls[c].op = "login",
           LoginRename(c)
    PROVE  AdminInv' /\ Progress
<1>1. PICK r : r = calls[c]
  BY Zenon
<1>2. CallOK(r) /\ DOMAIN r = LoginFields /\ r.op = "login" /\ r.step = "rename"
  BY <1>1, LoginFacts, Zenon DEF LoginRename
<1>. DEFINE Renamed(u) == IF u.id = r.user THEN [u EXCEPT !.name = r.name] ELSE u
<1>3. users' = {Renamed(u) : u \in users}
  BY <1>1, Zenon DEF LoginRename
<1>4. ASSUME NEW u \in users
      PROVE  /\ Renamed(u).id = u.id /\ Renamed(u).tailnet = u.tailnet
             /\ Renamed(u).account = u.account /\ DOMAIN Renamed(u) = UserFields
  <2>1. DOMAIN u = UserFields
    BY Zenon DEF AdminInv, UsersOK
  <2>. QED
    BY <2>1, Zenon DEF UserFields
<1>. HIDE DEF Renamed
<1>5. \A v \in users' : \E u \in users : v = Renamed(u) /\ v.id = u.id
                       /\ v.tailnet = u.tailnet /\ v.account = u.account
                       /\ DOMAIN v = UserFields
  BY <1>3, <1>4, Zenon
<1>6. \A u \in users : \E v \in users' : v.id = u.id /\ v.tailnet = u.tailnet
  BY <1>3, <1>4, Zenon
<1>7. UNCHANGED <<load, tailnets, lastTailnet, accounts, owned, lastId, made, revoked>>
  BY Zenon DEF LoginRename
<1>8. Kept
  <2>1. Numbers' /\ Used' = Used
    BY <1>7, Zenon DEF AdminInv, Numbers, Used
  <2>2. RowsOK'
    BY <1>7, <2>1, Zenon DEF AdminInv, RowsOK
  <2>3. UsersOK'
    <3>1. ASSUME NEW v \in users'
          PROVE  /\ DOMAIN v = UserFields /\ v.id \in 1 .. lastId' /\ v.tailnet \in Used'
                 /\ tailnets'[v.tailnet] # NoRow
                 /\ v.account # Service => v.account \in DOMAIN accounts'
      <4>1. PICK u \in users : /\ v.id = u.id /\ v.tailnet = u.tailnet
                               /\ v.account = u.account /\ DOMAIN v = UserFields
        BY <1>5, Zenon
      <4>. QED
        BY <1>7, <2>1, <4>1, Zenon DEF AdminInv, UsersOK
    <3>2. ASSUME NEW v \in users', NEW w \in users', v.id = w.id
          PROVE  v = w
      <4>1. PICK u \in users : v = Renamed(u) /\ v.id = u.id
        BY <1>5, Zenon
      <4>2. PICK x \in users : w = Renamed(x) /\ w.id = x.id
        BY <1>5, Zenon
      <4>3. u = x
        BY <3>2, <4>1, <4>2, Zenon DEF AdminInv, UsersOK
      <4>. QED
        BY <4>1, <4>2, <4>3, Zenon
    <3>. QED
      BY <3>1, <3>2, Zenon DEF UsersOK
  <2>4. OwnedOK'
    <3>1. ASSUME NEW k \in owned
          PROVE  \E v \in users' : v.id = k.user /\ v.tailnet = k.tailnet
      <4>1. PICK u \in users : u.id = k.user /\ u.tailnet = k.tailnet
        BY Zenon DEF AdminInv, OwnedOK
      <4>. QED
        BY <1>6, <4>1, Zenon
    <3>. QED
      BY <1>7, <3>1, Zenon DEF AdminInv, OwnedOK
  <2>5. Progress
    <3>1. lastTailnet' >= lastTailnet /\ lastId' >= lastId
      BY <1>7 DEF AdminInv, Numbers
    <3>. QED
      BY <1>5, <1>7, <3>1, Zenon DEF Progress
  <2>. QED
    BY <2>1, <2>2, <2>3, <2>4, <2>5, Zenon DEF Kept
<1>9. PICK q : q = [r EXCEPT !.step = "save"]
  BY Zenon
<1>10. calls' = [calls EXCEPT ![c] = q]
  BY <1>1, <1>9, Zenon DEF LoginRename
<1>11. /\ q.op = "login" /\ q.who = r.who /\ q.step = "save" /\ q.t = r.t /\ q.user = r.user
       /\ q.todo = r.todo /\ DOMAIN q = LoginFields
  BY <1>2, <1>9, Zenon DEF LoginFields
<1>12. OfCall(q)'
  <2>1. CallOK(r)'
    BY <1>2, <1>8, CallKept, AdminAssumption, Zenon DEF AdminInv, Kept
  <2>. QED
    BY <1>2, <1>11, <2>1, Zenon DEF CallOK, OfCall
<1>13. "save" \in LoginSteps /\ "rename" \in Chosen
  BY DEF LoginSteps, Chosen
<1>. QED
  BY <1>1, <1>2, <1>5, <1>7, <1>8, <1>10, <1>11, <1>12, <1>13, LoginMoves, Zenon

(* Finding or creating the user at a login: in the tailnet it chose. *)
LEMMA LoginCreateStep ==
    ASSUME AdminInv, NEW c \in Callers, calls[c] # NoCall, calls[c].op = "login",
           LoginCreate(c)
    PROVE  AdminInv' /\ Progress
<1>1. PICK r : r = calls[c]
  BY Zenon
<1>2. /\ CallOK(r) /\ DOMAIN r = LoginFields /\ r.op = "login" /\ r.step = "create"
      /\ \A g : Bound(g) => CallBound(g, r)
      /\ lastTailnet \in 0 .. MaxTailnet /\ lastId \in 0 .. MaxId /\ made \in 0 .. load.most
  BY <1>1, LoginFacts, Zenon DEF LoginCreate, AdminInv, Numbers
<1>0. {"create", "save"} \subseteq Chosen /\ Chosen \subseteq LoginSteps
  BY DEF Chosen, LoginSteps
<1>3. CASE calls' = [calls EXCEPT ![c] = NoCall] /\ UNCHANGED <<users, lastId>>
  <2>1. calls' = [d \in Callers |-> IF d = c THEN NoCall ELSE calls[d]]
    BY <1>3, Zenon DEF AdminInv, CallsOK
  <2>2. Kept
    <3>1. lastTailnet' \in lastTailnet .. MaxTailnet /\ made' \in 0 .. load.most
      BY <1>2, AdminAssumption DEF LoginCreate
    <3>. QED
      BY <1>3, <3>1, RowsUnchanged, Zenon DEF LoginCreate
  <2>3. CallsStep
    BY <2>1, Zenon DEF CallsStep
  <2>4. OrgsOK'
    BY <1>3, <2>1, BoundKept, Zenon DEF AdminInv, LoginCreate
  <2>5. Gone'
    BY <2>2, GoneKept, Zenon DEF AdminInv, Kept, LoginCreate
  <2>. QED
    BY <2>2, <2>3, <2>4, <2>5, Assemble, Zenon DEF Kept
<1>4. CASE /\ tailnets[r.t] # NoRow
           /\ lastId < MaxId /\ lastId' = lastId + 1
           /\ \E name : users' = users \cup {NewUser(r.t, Account(r.who), name)}
           /\ calls' = [calls EXCEPT ![c].step = "save", ![c].user = lastId + 1]
  <2>1. PICK t, account, name :
            /\ t = r.t /\ account = Account(r.who)
            /\ users' = users \cup {NewUser(t, account, name)}
    BY <1>4, Zenon
  <2>2. t \in Live /\ t \in Used /\ account \in DOMAIN accounts
    BY <1>0, <1>2, <1>4, <2>1, AdminAssumption DEF CallOK, Live, Used, TailnetIds
  <2>3. /\ Kept
        /\ \A u \in users' : u.id = lastId + 1 => u.tailnet = t
        /\ \A u \in users' : u \in users \/ (u.account = account /\ u.tailnet = t)
    BY <1>2, <1>4, <2>1, <2>2, UserAdded DEF LoginCreate
  <2>4. PICK q : q = [r EXCEPT !.step = "save", !.user = lastId + 1]
    BY Zenon
  <2>5. calls' = [d \in Callers |-> IF d = c THEN q ELSE calls[d]]
    BY <1>1, <1>4, <2>4, Zenon DEF AdminInv, CallsOK
  <2>6. /\ q.op = "login" /\ q.who = r.who /\ q.step = "save" /\ q.t = t
        /\ q.user = lastId + 1 /\ q.todo = r.todo /\ DOMAIN q = LoginFields
    BY <1>2, <2>1, <2>4, Zenon DEF LoginFields
  <2>7. CallsStep
    <3>1. CallOK(r)'
      BY <1>2, <2>3, CallKept, AdminAssumption, Zenon DEF AdminInv, Kept
    <3>2. OfCall(q)'
      <4>1. q.t \in Used' /\ q.user \in 1 .. lastId'
        BY <1>2, <1>4, <2>2, <2>6 DEF LoginCreate, Used
      <4>. QED
        BY <2>3, <2>6, <4>1, Zenon DEF OfCall
    <3>3. calls'[c] = q /\ CallOK(calls[c])'
      BY <1>0, <1>2, <2>1, <2>5, <2>6, <3>1, <3>2, Zenon DEF CallOK
    <3>. QED
      BY <2>5, <3>3, Zenon DEF CallsStep
  <2>8. OrgsOK'
    <3>1. PICK g \in [TailnetIds -> Orgs \cup {NoName}] : Bound(g)
      BY Zenon DEF AdminInv, OrgsOK
    <3>2. CallBound(g, q) /\ r.who.org = g[t] /\ account[2] = r.who.org
      BY <1>0, <1>2, <2>1, <2>6, <3>1, Zenon DEF CallBound, Account
    <3>3. Bound(g)'
      BY <2>3, <2>5, <3>1, <3>2, Zenon DEF Bound, LoginCreate
    <3>. QED
      BY <3>3, Zenon DEF OrgsOK
  <2>9. Gone'
    BY <2>3, GoneKept, Zenon DEF AdminInv, Kept, LoginCreate
  <2>. QED
    BY <2>3, <2>7, <2>8, <2>9, Assemble, Zenon DEF Kept
<1>. QED
  BY <1>1, <1>3, <1>4, Zenon DEF LoginCreate, Finish

----------------------------------------------------------------------------
(* The invariant *)

(* The invariant holds of a database with tailnets and nobody in them. *)
LEMMA InitInv == AdminInit => AdminInv
<1>. SUFFICES ASSUME AdminInit
              PROVE  AdminInv
  BY Zenon
<1>1. /\ load \in Loads /\ Len(load.rows) \in 0 .. MaxTailnet /\ load.most \in Nat
      /\ \A i \in 1 .. Len(load.rows) : IsRow(load.rows[i])
      /\ MaxTailnet \in Nat /\ MaxId \in Nat /\ lastTailnet = Len(load.rows)
  BY AdminAssumption, Zenon DEF AdminInit
<1>2. Numbers
  BY <1>1 DEF AdminInit, Numbers
<1>3. RowsOK
  BY <1>1 DEF AdminInit, RowsOK, Used, TailnetIds
<1>4. UsersOK /\ OwnedOK /\ CallsOK /\ Gone
  BY Zenon DEF AdminInit, UsersOK, OwnedOK, CallsOK, Gone
<1>5. OrgsOK
  <2>. DEFINE g == [t \in TailnetIds |-> IF tailnets[t] # NoRow THEN tailnets[t].org
                                         ELSE NoName]
  <2>1. g \in [TailnetIds -> Orgs \cup {NoName}]
    BY <1>3, Zenon DEF RowsOK, IsRow
  <2>2. Bound(g)
    BY Zenon DEF Bound, AdminInit
  <2>. QED
    BY <2>1, <2>2, Zenon DEF OrgsOK
<1>. QED
  BY <1>2, <1>3, <1>4, <1>5, Zenon DEF AdminInv

(* Every step of a login keeps the invariant. *)
LEMMA LoginsStep ==
    ASSUME AdminInv, NEW c \in Callers, Logins(c)
    PROVE  AdminInv' /\ Progress
<1>1. CASE \E id \in load.people : Login(c, id)
  BY <1>1, LoginStep, Zenon
<1>2. CASE /\ calls[c] # NoCall /\ calls[c].op = "login"
           /\ \/ LoginGoes(c)
              \/ \E kind \in {"machine", "api"} : LoginSave(c, kind)
  BY <1>2, LoginListStep, LoginSyncStep, LoginChooseStep, LoginAccountStep, LoginUserStep,
     LoginRenameStep, LoginCreateStep, OwnedSaveStep, Zenon DEF LoginGoes
<1>. QED
  BY <1>1, <1>2, Zenon DEF Logins, LoginGoes

(* Every call's every step keeps the invariant and makes Progress. *)
LEMMA AdminInductive ==
    ASSUME AdminInv, [ReadNext]_adminVars
    PROVE  AdminInv' /\ Progress
<1>1. ASSUME UNCHANGED adminVars
      PROVE  AdminInv' /\ Progress
  <2>1. Kept
    <3>1. lastTailnet' \in lastTailnet .. MaxTailnet /\ made' \in 0 .. load.most
      BY <1>1, AdminAssumption DEF adminVars, AdminInv, Numbers
    <3>. QED
      BY <1>1, <3>1, RowsUnchanged, Zenon DEF adminVars
  <2>2. CallsStep
    BY <1>1, Zenon DEF adminVars, CallsStep, AdminInv, CallsOK
  <2>3. OrgsOK'
    BY <1>1, BoundKept, Zenon DEF adminVars, AdminInv
  <2>4. Gone'
    BY <1>1, <2>1, GoneKept, Zenon DEF adminVars, AdminInv, Kept
  <2>. QED
    BY <2>1, <2>2, <2>3, <2>4, Assemble, Zenon DEF Kept
<1>2. ASSUME NEW c \in Callers, Edits(c)
      PROVE  AdminInv' /\ Progress
  BY <1>2, EditsKeepOrg, EditStep, Zenon
<1>3. ASSUME AdminNext
      PROVE  AdminInv' /\ Progress
  <2>1. CASE \E u \in users, p \in Principals : DeleteUser(u, p)
    BY <2>1, DeletionsStep, Zenon
  <2>2. CASE \E k \in owned : DeleteAuthKey(k)
    BY <2>2, DeletionsStep, Zenon
  <2>3. ASSUME NEW c \in Callers,
               \/ Creates(c) \/ CreateTailnetSave(c)
               \/ Edits(c) \/ EditSave(c)
               \/ \E t \in TailnetIds, force \in BOOLEAN : DeleteTailnet(c, t, force)
               \/ DeleteTailnetCommit(c)
               \/ Revokes(c) \/ \E a \in DOMAIN accounts : RevokeAccountList(c, a)
               \/ RevokeAccountCommit(c)
               \/ \E t \in Live, p \in Principals : CreateAuthKey(c, t, p)
               \/ CreateAuthKeySave(c)
               \/ Logins(c)
        PROVE  AdminInv' /\ Progress
    <3>1. CASE Creates(c)
      <4>1. PICK n \in Names, o \in Orgs \cup {NoName} : \E p, g : CreateTailnet(c, n, o, p, g)
        BY <3>1, Zenon DEF Creates
      <4>. QED
        BY <4>1, CreateTailnetStep, Zenon
    <3>2. CASE CreateTailnetSave(c)
      BY <3>2, CreateTailnetSaveStep, Zenon
    <3>3. CASE Edits(c)
      BY <3>3, <1>2, Zenon
    <3>4. CASE EditSave(c)
      BY <3>4, EditSaveStep, Zenon
    <3>5. CASE \E t \in TailnetIds, force \in BOOLEAN : DeleteTailnet(c, t, force)
      BY <3>5, DeleteTailnetStep, Zenon
    <3>6. CASE DeleteTailnetCommit(c)
      BY <3>6, DeleteTailnetCommitStep, Zenon
    <3>7. CASE Revokes(c)
      <4>1. PICK sub, o : RevokeAccount(c, sub, o)
        BY <3>7, Zenon DEF Revokes
      <4>. QED
        BY <4>1, RevokeAccountStep, Zenon
    <3>8. CASE RevokeAccountCommit(c)
      BY <3>8, RevokeAccountCommitStep, Zenon
    <3>12. CASE \E a \in DOMAIN accounts : RevokeAccountList(c, a)
      BY <3>12, RevokeAccountListStep, Zenon
    <3>9. CASE \E t \in Live, p \in Principals : CreateAuthKey(c, t, p)
      BY <3>9, CreateAuthKeyStep, Zenon
    <3>10. CASE CreateAuthKeySave(c)
      BY <3>10, OwnedSaveStep, Zenon
    <3>11. CASE Logins(c)
      BY <3>11, LoginsStep, Zenon
    <3>. QED
      BY <2>3, <3>1, <3>2, <3>3, <3>4, <3>5, <3>6, <3>7, <3>8, <3>9, <3>10, <3>11, <3>12, Zenon
  <2>. QED
    BY <1>3, <2>1, <2>2, <2>3, Zenon DEF AdminNext, Creates, Revokes
<1>4. ASSUME NEW c \in Callers,
             Read(c) \/ \E p \in Principals : AuthenticationInterceptor(c, p)
      PROVE  AdminInv' /\ Progress
  BY <1>4, ReadsStep, Zenon
<1>. QED
  BY <1>1, <1>3, <1>4, Zenon DEF ReadNext

----------------------------------------------------------------------------
(* Theorems *)

(* The inductive invariant holds of every reachable state. *)
LEMMA AdminInvHolds == ReadSpec => []AdminInv
<1>1. AdminInv /\ [ReadNext]_adminVars => AdminInv'
  BY AdminInductive, Zenon
<1>. QED
  BY <1>1, InitInv, PTL DEF ReadSpec

(* Every row keeps the shape its table gives it, with any number of        *)
(* tailnets, callers and calls (internal/domain).                          *)
THEOREM RowsKeepTheirShape == ReadSpec => []AdminTypeOK
<1>1. AdminInv => AdminTypeOK
  <2>. SUFFICES ASSUME AdminInv
                PROVE  AdminTypeOK
    BY Zenon
  <2>0. Numbers /\ RowsOK /\ UsersOK /\ OwnedOK
    BY Zenon DEF AdminInv
  <2>1. \A t \in TailnetIds : tailnets[t] # NoRow =>
            /\ t =< lastTailnet
            /\ tailnets[t].name \in Names /\ tailnets[t].org \in Orgs \cup {NoName}
            /\ tailnets[t].set \in [Fields -> BOOLEAN]
    BY <2>0 DEF RowsOK, IsRow, Used, Numbers
  <2>2. \A u \in users : u.id \in 1 .. lastId /\ u.tailnet \in TailnetIds
    BY <2>0, AdminAssumption DEF UsersOK, Used, Numbers, TailnetIds
  <2>. QED
    BY <2>0, <2>1, <2>2, Zenon DEF AdminTypeOK, UsersOK, OwnedOK, Numbers
<1>. QED
  BY <1>1, AdminInvHolds, PTL

(* No machine, api key, auth key or user outlives its user or its tailnet, *)
(* however logins, deletions and revocations interleave                    *)
(* (service/users.go, service/tailnet.go DeleteTailnet).                   *)
THEOREM NothingIsOrphaned == ReadSpec => []OwnersExist
<1>1. AdminInv => OwnersExist
  BY Zenon DEF AdminInv, OwnersExist, UsersOK, OwnedOK
<1>. QED
  BY <1>1, AdminInvHolds, PTL

(* The organization boundary holds for every tailnet, identity and policy, *)
(* also while rows are saved from old copies and deleted rows come back    *)
(* (handlers/authentication.go tailnetAccessible).                         *)
THEOREM UsersKeepInsideTheirOrg == ReadSpec => []UsersInTheirOrg
<1>1. AdminInv => UsersInTheirOrg
  <2>. SUFFICES ASSUME AdminInv, NEW u \in users, u.account # Service
                PROVE  tailnets[u.tailnet].org = u.account[2]
    BY Zenon DEF UsersInTheirOrg
  <2>1. PICK g : Bound(g)
    BY Zenon DEF AdminInv, OrgsOK
  <2>2. u.tailnet \in TailnetIds /\ tailnets[u.tailnet] # NoRow
    BY AdminAssumption DEF AdminInv, UsersOK, Used, Numbers, TailnetIds
  <2>. QED
    BY <2>1, <2>2, Zenon DEF Bound
<1>. QED
  BY <1>1, AdminInvHolds, PTL

(* When RevokeAccount has answered, whoever of the subject is still there  *)
(* came after the listing of their account, for any number of accounts and *)
(* calls that interleave (service/users.go RevokeAccount).                 *)
THEOREM RevocationIsComplete == ReadSpec => []RevokedUsersStayGone
<1>1. AdminInv => RevokedUsersStayGone
  BY Zenon DEF AdminInv, Gone, Concerns, RevokedUsersStayGone
<1>. QED
  BY <1>1, AdminInvHolds, PTL

----------------------------------------------------------------------------
(* What a step may do *)

(* A call is ended by its own save, and nobody else touches it.  Logins    *)
(* and revocations are left out: they take more than one step.             *)
Ends(c) ==
    \/ CreateTailnetSave(c) \/ EditSave(c) \/ DeleteTailnetCommit(c)
    \/ RevokeAccountCommit(c) \/ CreateAuthKeySave(c) \/ Read(c)

(* A step of a login touches no other call. *)
LEMMA LoginsOwn ==
    ASSUME AdminInv, NEW d \in Callers,
           LoginGoes(d) \/ \E kind \in {"machine", "api"} : LoginSave(d, kind)
    PROVE  \A c \in Callers \ {d} : calls'[c] = calls[c]
<1>0. calls = [c \in Callers |-> calls[c]]
  BY Zenon DEF AdminInv, CallsOK
<1>1. CASE \E t \in TailnetIds : LoginSync(d, t)
  BY <1>1, <1>0, Zenon DEF LoginSync, Finish
<1>2. CASE LoginList(d)
  BY <1>2, <1>0, Zenon DEF LoginList
<1>3. CASE LoginChoose(d)
  BY <1>3, <1>0, Zenon DEF LoginChoose, Finish
<1>4. CASE LoginAccount(d)
  BY <1>4, <1>0, Zenon DEF LoginAccount, Finish
<1>5. CASE LoginUser(d)
  BY <1>5, <1>0, Zenon DEF LoginUser
<1>6. CASE LoginRename(d)
  BY <1>6, <1>0, Zenon DEF LoginRename
<1>7. CASE LoginCreate(d)
  BY <1>7, <1>0, Zenon DEF LoginCreate, Finish
<1>8. CASE \E kind \in {"machine", "api"} : LoginSave(d, kind)
  BY <1>8, <1>0, Zenon DEF LoginSave, Finish
<1>. QED
  BY <1>1, <1>2, <1>3, <1>4, <1>5, <1>6, <1>7, <1>8, Zenon DEF LoginGoes

(* A call other than a login or a revocation changes only by ending. *)
LEMMA CallEnds ==
    ASSUME AdminInv, ReadNext, NEW c \in Callers, calls[c] # NoCall,
           calls[c].op \notin {"login", "revoke"}, calls'[c] # calls[c]
    PROVE  Ends(c)
<1>0. calls = [d \in Callers |-> calls[d]]
  BY Zenon DEF AdminInv, CallsOK
<1>1. ASSUME NEW d \in Callers, NEW x, calls[d] = NoCall, calls' = [calls EXCEPT ![d] = x]
      PROVE  FALSE
  BY <1>0, <1>1, Zenon
<1>2. ASSUME NEW d \in Callers, Edits(d)
      PROVE  FALSE
  BY <1>1, <1>2, EditsKeepOrg, Zenon DEF Edit, Begin
<1>3. ASSUME NEW d \in Callers, Logins(d)
      PROVE  FALSE
  <2>1. CASE \E id \in load.people : Login(d, id)
    BY <2>1, Zenon DEF Login, LoggingIn
  <2>2. CASE /\ calls[d] # NoCall /\ calls[d].op = "login"
             /\ LoginGoes(d) \/ \E kind \in {"machine", "api"} : LoginSave(d, kind)
    BY <2>2, LoginsOwn, Zenon
  <2>. QED
    BY <1>3, <2>1, <2>2, Zenon DEF Logins, LoginGoes
<1>4. ASSUME NEW d \in Callers, Ends(d)
      PROVE  Ends(c)
  <2>1. calls' = [calls EXCEPT ![d] = NoCall]
    BY <1>4, Zenon DEF Ends, CreateTailnetSave, EditSave, DeleteTailnetCommit, RevokeAccountCommit,
       CreateAuthKeySave, Read, Finish
  <2>2. d = c
    BY <1>0, <2>1, Zenon
  <2>. QED
    BY <1>4, <2>2, Zenon
<1>5. ASSUME NEW d \in Callers,
             \/ Creates(d)
             \/ \E t \in TailnetIds, force \in BOOLEAN : DeleteTailnet(d, t, force)
             \/ Revokes(d)
             \/ \E t \in Live, p \in Principals : CreateAuthKey(d, t, p)
             \/ \E p \in Principals : AuthenticationInterceptor(d, p)
      PROVE  FALSE
  BY <1>5, <1>1, Zenon DEF Creates, CreateTailnet, DeleteTailnet, Revokes, RevokeAccount,
     CreateAuthKey, AuthenticationInterceptor, Begin
<1>7. ASSUME NEW d \in Callers, NEW a, RevokeAccountList(d, a)
      PROVE  FALSE
  <2>1. d # c
    BY <1>7, Zenon DEF RevokeAccountList
  <2>. QED
    BY <1>0, <1>7, <2>1, Zenon DEF RevokeAccountList
<1>6. ASSUME \/ \E u \in users, p \in Principals : DeleteUser(u, p)
             \/ \E k \in owned : DeleteAuthKey(k)
      PROVE  FALSE
  BY <1>6, Zenon DEF DeleteUser, DeleteAuthKey
<1>. QED
  BY <1>2, <1>3, <1>4, <1>5, <1>6, <1>7, Zenon DEF ReadNext, AdminNext, Ends, Creates, Revokes

(* Who saves a row: a call of its own tailnet, and a login. *)
LEMMA RowSavers ==
    ASSUME AdminInv, ReadNext, ~UNCHANGED <<tailnets, stale>>
    PROVE  \E c \in Callers :
              /\ calls[c] # NoCall
              /\ \/ CreateTailnetSave(c) \/ EditSave(c) \/ DeleteTailnetCommit(c)
                 \/ calls[c].op = "login" /\ \E t \in TailnetIds : LoginSync(c, t)
<1>1. ASSUME NEW c \in Callers, Edits(c)
      PROVE  FALSE
  BY <1>1, EditsKeepOrg, Zenon DEF Edit
<1>2. ASSUME NEW c \in Callers,
             \/ Creates(c)
             \/ \E t \in TailnetIds, force \in BOOLEAN : DeleteTailnet(c, t, force)
             \/ Revokes(c) \/ \E a \in DOMAIN accounts : RevokeAccountList(c, a)
             \/ \E t \in Live, p \in Principals : CreateAuthKey(c, t, p)
             \/ \E p \in Principals : AuthenticationInterceptor(c, p)
             \/ RevokeAccountCommit(c) \/ CreateAuthKeySave(c) \/ Read(c)
             \/ \E id \in load.people : Login(c, id)
             \/ LoginList(c) \/ LoginChoose(c) \/ LoginAccount(c) \/ LoginUser(c)
             \/ LoginRename(c) \/ LoginCreate(c)
             \/ \E kind \in {"machine", "api"} : LoginSave(c, kind)
      PROVE  FALSE
  BY <1>2, Zenon DEF Creates, CreateTailnet, DeleteTailnet, Revokes, RevokeAccount,
     RevokeAccountList, CreateAuthKey, AuthenticationInterceptor, RevokeAccountCommit,
     CreateAuthKeySave, Read, Login, LoginList, LoginChoose, LoginAccount, LoginUser,
     LoginRename, LoginCreate, LoginSave
<1>3. ASSUME \/ \E u \in users, p \in Principals : DeleteUser(u, p)
             \/ \E k \in owned : DeleteAuthKey(k)
      PROVE  FALSE
  BY <1>3, Zenon DEF DeleteUser, DeleteAuthKey
<1>4. PICK c \in Callers :
          \/ CreateTailnetSave(c) \/ EditSave(c) \/ DeleteTailnetCommit(c)
          \/ calls[c] # NoCall /\ calls[c].op = "login" /\ \E t \in TailnetIds : LoginSync(c, t)
  BY <1>1, <1>2, <1>3, Zenon DEF ReadNext, AdminNext, Logins, Creates, Revokes
<1>. QED
  BY <1>4, Zenon DEF CreateTailnetSave, EditSave, DeleteTailnetCommit

(* No step changes the organization of a tailnet, and a row that is gone   *)
(* comes back only from a call that had read it                            *)
(* (service/tailnet.go, handlers/authentication.go syncOrgRoles).          *)
THEOREM OrganizationsAreFixed == ReadSpec => TailnetsKeepTheirOrg
<1>1. AdminInv /\ [ReadNext]_adminVars =>
        [\A t \in TailnetIds :
            /\ tailnets[t] # NoRow /\ tailnets'[t] # NoRow => tailnets'[t].org = tailnets[t].org
            /\ tailnets[t] = NoRow /\ tailnets'[t] # NoRow =>
                  stale' \/ \E c \in Callers : /\ calls[c] # NoCall /\ calls[c].op = "create"
                                              /\ calls[c].t = t]_adminVars
  <2>. SUFFICES ASSUME AdminInv, ReadNext, NEW t \in TailnetIds
                PROVE  /\ tailnets[t] # NoRow /\ tailnets'[t] # NoRow
                              => tailnets'[t].org = tailnets[t].org
                       /\ tailnets[t] = NoRow /\ tailnets'[t] # NoRow =>
                              stale' \/ \E c \in Callers : /\ calls[c] # NoCall
                                                          /\ calls[c].op = "create"
                                                          /\ calls[c].t = t
    BY Zenon
  <2>1. tailnets[t] # NoRow /\ tailnets'[t] # NoRow => tailnets'[t].org = tailnets[t].org
    BY AdminInductive, Zenon DEF Progress
  <2>2. ASSUME tailnets[t] = NoRow, tailnets'[t] # NoRow
        PROVE  stale' \/ \E c \in Callers : /\ calls[c] # NoCall /\ calls[c].op = "create"
                                           /\ calls[c].t = t
    <3>0. tailnets' # tailnets /\ tailnets = [s \in TailnetIds |-> tailnets[s]]
      BY <2>2, Zenon DEF AdminInv, RowsOK
    <3>1. PICK c \in Callers :
              /\ calls[c] # NoCall
              /\ \/ CreateTailnetSave(c) \/ EditSave(c) \/ DeleteTailnetCommit(c)
                 \/ calls[c].op = "login" /\ \E s \in TailnetIds : LoginSync(c, s)
      BY <3>0, RowSavers, Zenon
    <3>2. CallOK(calls[c])
      BY <3>1, Zenon DEF AdminInv, CallsOK
    <3>3. CASE CreateTailnetSave(c)
      BY <2>2, <3>0, <3>1, <3>3, Zenon DEF CreateTailnetSave, SaveTailnet
    <3>4. CASE EditSave(c)
      <4>1. calls[c].t = t
        BY <2>2, <3>0, <3>4, Zenon DEF EditSave, SaveTailnet
      <4>2. calls[c].old # NoRow
        <5>1. PICK old : old = calls[c].old
          BY Zenon
        <5>. QED
          BY <5>1, <3>2, <3>4, RowIsThere, Zenon DEF EditSave, CallOK
      <4>. QED
        BY <2>2, <3>4, <4>1, <4>2, Zenon DEF EditSave
    <3>5. CASE DeleteTailnetCommit(c)
      BY <2>2, <3>0, <3>5, Zenon DEF DeleteTailnetCommit
    <3>6. CASE calls[c].op = "login" /\ \E s \in TailnetIds : LoginSync(c, s)
      <4>1. PICK s \in TailnetIds : LoginSync(c, s)
        BY <3>6, Zenon
      <4>2. s = t
        BY <2>2, <3>0, <4>1, Zenon DEF LoginSync, SaveTailnet
      <4>3. calls[c].todo[t] # NoRow
        <5>1. PICK old : old = calls[c].todo[t]
          BY Zenon
        <5>. QED
          BY <5>1, <3>2, <3>6, <4>1, <4>2, RowIsThere, Zenon DEF LoginSync, CallOK
      <4>. QED
        BY <2>2, <4>1, <4>2, <4>3, Zenon DEF LoginSync
    <3>. QED
      BY <3>1, <3>3, <3>4, <3>5, <3>6, Zenon
  <2>. QED
    BY <2>1, <2>2, Zenon
<1>. QED
  BY <1>1, AdminInvHolds, PTL DEF ReadSpec, TailnetsKeepTheirOrg

(* A deletion without force removes no machine that was there when it      *)
(* counted (service/tailnet.go DeleteTailnet).                             *)
THEOREM CountedMachinesAreSpared == ReadSpec => UnforcedDeleteSparesMachines
<1>1. AdminInv /\ [ReadNext]_adminVars =>
        [\A c \in Callers : \A k \in owned :
            /\ calls[c] # NoCall /\ calls'[c] = NoCall
            /\ calls[c].op = "delete" /\ ~calls[c].force
            /\ k.kind = "machine" /\ k \notin owned'
            => k.id > calls[c].upto]_adminVars
  <2>. SUFFICES ASSUME AdminInv, ReadNext, NEW c \in Callers, NEW k \in owned,
                       calls[c] # NoCall, calls'[c] = NoCall,
                       calls[c].op = "delete", ~calls[c].force,
                       k.kind = "machine", k \notin owned'
                PROVE  k.id > calls[c].upto
    BY Zenon
  <2>1. Ends(c)
    BY CallEnds, Zenon
  <2>2. DeleteTailnetCommit(c)
    BY <2>1, Zenon DEF Ends, CreateTailnetSave, EditSave, RevokeAccountCommit, CreateAuthKeySave, Read
  <2>3. k.tailnet = calls[c].t
    BY <2>2, Zenon DEF DeleteTailnetCommit
  <2>. QED
    BY <2>3, Zenon DEF AdminInv, CallsOK, CallOK
<1>. QED
  BY <1>1, AdminInvHolds, PTL DEF ReadSpec, UnforcedDeleteSparesMachines

(* Nobody is answered with another tailnet's rows, for every principal a   *)
(* request may have been let in with and every state it may be answered in *)
(* (internal/service, interceptors.go).                                    *)
THEOREM AnswersStayInside == ReadSpec => []ReadsStayInside
<1>1. ASSUME NEW p, ~p.system, NEW row \in Answers(p)
      PROVE  row.tailnet = p.user.tailnet /\ (p.role # "admin" => DOMAIN row = {"tailnet"})
  <2>1. ASSUME NEW t, NEW rows, row \in OfTailnet(p, t, rows)
        PROVE  p.user.tailnet = t /\ p.role = "admin" /\ row \in rows
    BY <1>1, <2>1, Zenon DEF OfTailnet, MayAdminister, IsTailnetAdmin
  <2>2. ASSUME NEW t, \/ row \in GetTailnet(p, t) \/ row \in GetDERPMap(p, t)
                      \/ row \in GetTailnetLockStatus(p, t) \/ row \in GetACLPolicy(p, t)
                      \/ row \in GetIAMPolicy(p, t) \/ row \in GetDNSConfig(p, t)
                      \/ row \in ListMachines(p, t) \/ row \in ListUsers(p, t)
                      \/ row \in ListAuthKeys(p, t)
        PROVE  row.tailnet = p.user.tailnet /\ p.role = "admin"
    <3>1. PICK rows : /\ row \in OfTailnet(p, t, rows)
                      /\ \A x \in rows : x = [tailnet |-> t] \/ x.tailnet = t
      BY <2>2 DEF GetTailnet, GetDERPMap, GetTailnetLockStatus, GetACLPolicy, GetIAMPolicy,
         GetDNSConfig, ListMachines, ListUsers, ListAuthKeys, Rows
    <3>2. p.user.tailnet = t /\ p.role = "admin" /\ row \in rows
      BY <2>1, <3>1, Zenon
    <3>. QED
      BY <3>1, <3>2
  <2>3. ASSUME NEW k \in owned, \/ row \in GetMachine(p, k) \/ row \in GetMachineRoutes(p, k)
                                \/ row \in GetAuthKey(p, k)
        PROVE  row.tailnet = p.user.tailnet /\ p.role = "admin"
    BY <1>1, <2>3, Zenon DEF GetMachine, GetMachineRoutes, GetAuthKey, MayAdminister, IsTailnetAdmin
  <2>4. ASSUME NEW o, row \in GetTailnetByOrganization(p, o) \/ row \in ListTailnets(p, o)
        PROVE  row = [tailnet |-> p.user.tailnet]
    BY <1>1, <2>4, Zenon DEF GetTailnetByOrganization, ListTailnets
  <2>5. \/ \E t : \/ row \in GetTailnet(p, t) \/ row \in GetDERPMap(p, t)
                  \/ row \in GetTailnetLockStatus(p, t) \/ row \in GetACLPolicy(p, t)
                  \/ row \in GetIAMPolicy(p, t) \/ row \in GetDNSConfig(p, t)
                  \/ row \in ListMachines(p, t) \/ row \in ListUsers(p, t)
                  \/ row \in ListAuthKeys(p, t)
        \/ \E k \in owned : \/ row \in GetMachine(p, k) \/ row \in GetMachineRoutes(p, k)
                            \/ row \in GetAuthKey(p, k)
        \/ \E o : row \in GetTailnetByOrganization(p, o) \/ row \in ListTailnets(p, o)
    BY <1>1, Zenon DEF Answers
  <2>. QED
    <3>1. CASE \E o : row \in GetTailnetByOrganization(p, o) \/ row \in ListTailnets(p, o)
      <4>1. row = [tailnet |-> p.user.tailnet]
        BY <2>4, <3>1, Zenon
      <4>. QED
        BY <4>1, Zenon
    <3>2. CASE row.tailnet = p.user.tailnet /\ p.role = "admin"
      BY <3>2, Zenon
    <3>. QED
      BY <2>2, <2>3, <2>5, <3>1, <3>2, Zenon
<1>2. ReadsStayInside
  BY <1>1, Zenon DEF ReadsStayInside
<1>. QED
  BY <1>2, PTL

----------------------------------------------------------------------------
(* How calls begin and go on *)

Creating(c) == calls[c] # NoCall /\ calls[c].op = "create"

(* A call begins, or a revocation goes on, as what it is. *)
LEMMA OtherBegins ==
    ASSUME AdminInv, NEW c \in Callers,
           \/ Edits(c)
           \/ \E t \in TailnetIds, force \in BOOLEAN : DeleteTailnet(c, t, force)
           \/ Revokes(c) \/ \E a \in DOMAIN accounts : RevokeAccountList(c, a)
           \/ \E t \in Live, p \in Principals : CreateAuthKey(c, t, p)
           \/ \E p \in Principals : AuthenticationInterceptor(c, p)
    PROVE  \E x : calls' = [calls EXCEPT ![c] = x] /\ x.op # "login" /\ x.op # "create"
<1>1. CASE Edits(c)
  <2>1. PICK t, new : Edit(c, t, new)
    BY <1>1, EditsKeepOrg, Zenon
  <2>2. PICK old, x : /\ x = [op |-> "edit", t |-> t, old |-> old, new |-> new]
                      /\ calls' = [calls EXCEPT ![c] = x]
    BY <2>1, Zenon DEF Edit, Begin
  <2>3. x.op = "edit"
    BY <2>2, Zenon
  <2>. QED
    BY <2>2, <2>3, Zenon
<1>3. CASE \E t \in TailnetIds, force \in BOOLEAN : DeleteTailnet(c, t, force)
  <2>1. PICK t, force : DeleteTailnet(c, t, force)
    BY <1>3, Zenon
  <2>2. PICK x : /\ x = [op |-> "delete", t |-> t, force |-> force, upto |-> lastId]
                 /\ calls' = [calls EXCEPT ![c] = x]
    BY <2>1, Zenon DEF DeleteTailnet, Begin
  <2>3. x.op = "delete"
    BY <2>2, Zenon
  <2>. QED
    BY <2>2, <2>3, Zenon
<1>4. CASE Revokes(c)
  <2>1. PICK sub, o : RevokeAccount(c, sub, o)
    BY <1>4, Zenon DEF Revokes
  <2>2. PICK left, ids, upto, x :
            /\ x = [op |-> "revoke", sub |-> sub, org |-> o, left |-> left, ids |-> ids,
                    from |-> lastId, upto |-> upto]
            /\ calls' = [calls EXCEPT ![c] = x]
    BY <2>1, Zenon DEF RevokeAccount, Begin
  <2>3. x.op = "revoke"
    BY <2>2, Zenon
  <2>. QED
    BY <2>2, <2>3, Zenon
<1>7. CASE \E a \in DOMAIN accounts : RevokeAccountList(c, a)
  <2>0. PICK r : r = calls[c]
    BY Zenon
  <2>1. PICK a : RevokeAccountList(c, a)
    BY <1>7, Zenon
  <2>4. PICK left, ids, upto :
            calls' = [calls EXCEPT ![c] =
                         [r EXCEPT !.left = left, !.ids = ids, !.upto = upto]]
    BY <2>0, <2>1, Zenon DEF RevokeAccountList
  <2>5. PICK x : x = [r EXCEPT !.left = left, !.ids = ids, !.upto = upto]
    BY Zenon
  <2>2. r.op = "revoke" /\ DOMAIN r = RevokeFields
    BY <1>7, <2>0, Zenon DEF RevokeAccountList, AdminInv, CallsOK, CallOK
  <2>3. x.op = "revoke"
    BY <2>2, <2>5, Zenon DEF RevokeFields
  <2>. QED
    BY <2>3, <2>4, <2>5, Zenon
<1>5. CASE \E t \in Live, p \in Principals : CreateAuthKey(c, t, p)
  <2>1. PICK t, id, x : /\ x = [op |-> "authkey", t |-> t, user |-> id]
                        /\ calls' = [calls EXCEPT ![c] = x]
    BY <1>5, Zenon DEF CreateAuthKey, Begin
  <2>3. x.op = "authkey"
    BY <2>1, Zenon
  <2>. QED
    BY <2>1, <2>3, Zenon
<1>6. CASE \E p \in Principals : AuthenticationInterceptor(c, p)
  <2>1. PICK p, x : /\ x = [op |-> "read", by |-> p]
                    /\ calls' = [calls EXCEPT ![c] = x]
    BY <1>6, Zenon DEF AuthenticationInterceptor, Begin
  <2>3. x.op = "read"
    BY <2>1, Zenon
  <2>. QED
    BY <2>1, <2>3, Zenon
<1>. QED
  BY <1>1, <1>3, <1>4, <1>5, <1>6, <1>7, Zenon

(* A creation begins with the policy of the request, or an empty one. *)
LEMMA CreationBegins ==
    ASSUME AdminInv, NEW c \in Callers, Creates(c)
    PROVE  \E x : /\ calls' = [calls EXCEPT ![c] = x] /\ x.op = "create"
                  /\ x.row.policy \in load.policies \cup {EmptyPolicy}
<1>1. PICK n \in Names, o \in Orgs \cup {NoName}, p \in load.policies \cup {EmptyPolicy} :
          \E g : CreateTailnet(c, n, o, p, g)
  BY Zenon DEF Creates
<1>2. PICK on, t, row, x : /\ row = FreshRow(n, o, p, on)
                           /\ x = [op |-> "create", t |-> t, row |-> row]
                           /\ calls' = [calls EXCEPT ![c] = x]
  BY <1>1, Zenon DEF CreateTailnet, Begin
<1>3. x.op = "create" /\ x.row = row
  BY <1>2, Zenon
<1>4. row.policy = p
  BY <1>2, FreshRowIsRow
<1>. QED
  BY <1>2, <1>3, <1>4, Zenon

(* What a login's next step leaves of its call. *)
Continues(c) ==
    LET r == calls[c]
        q == calls'[c]
    IN
    \/ q = r
    \/ LoginList(c) /\ q.step = "sync" /\ DOMAIN q.todo = OutOfStep(r.who)
    \/ \E t \in TailnetIds :
          /\ LoginSync(c, t) /\ ByName(r.todo[t].name) \ {t} = {}
          /\ q.step = "sync" /\ DOMAIN q.todo = DOMAIN r.todo \ {t}
    \/ LoginChoose(c) /\ q.step = "account" /\ q.todo = r.todo
    \/ /\ LoginAccount(c) /\ q.step = "user" /\ q.todo = r.todo
       /\ q.name = accounts[Account(r.who)]
    \/ LoginUser(c) /\ q.step \in {"create", "rename"} /\ q.todo = r.todo /\ q.name = r.name
    \/ /\ LoginUser(c) /\ q.step = "save" /\ q.todo = r.todo /\ q.name = r.name
       /\ \E u \in users : q.user = u.id /\ u.name = r.name
    \/ /\ LoginRename(c) /\ q.step = "save" /\ q.todo = r.todo /\ q.name = r.name
       /\ q.user = r.user
    \/ /\ LoginCreate(c) /\ q.step = "save" /\ q.todo = r.todo /\ q.name = r.name
       /\ q.user = lastId + 1
       /\ users' = users \cup {NewUser(r.t, Account(r.who), r.name)}

Stays(c) ==
    /\ calls'[c].op = "login" /\ calls'[c].who = calls[c].who
    /\ calls'[c].alone = calls[c].alone /\ Continues(c)

(* A login goes on or ends. *)
LEMMA LoginNext ==
    ASSUME AdminInv, NEW c \in Callers, LoggingIn(c), LoginGoes(c), calls'[c] # NoCall
    PROVE  Stays(c)
<1>0. PICK r, q : r = calls[c] /\ q = calls'[c]
  BY Zenon
<1>1. calls = [d \in Callers |-> calls[d]] /\ DOMAIN r = LoginFields /\ r.op = "login"
  BY <1>0, LoginFacts, Zenon DEF AdminInv, CallsOK, LoggingIn
<1>2. CASE LoginList(c)
  <2>1. PICK todo : /\ DOMAIN todo = OutOfStep(r.who)
                    /\ calls' = [calls EXCEPT ![c].step = "sync", ![c].todo = todo]
    BY <1>0, <1>2, Zenon DEF LoginList
  <2>2. q = [r EXCEPT !.step = "sync", !.todo = todo]
    BY <1>0, <1>1, <2>1, Zenon
  <2>3. /\ q.op = "login" /\ q.who = r.who /\ q.alone = r.alone /\ q.step = "sync"
        /\ q.todo = todo
    BY <1>1, <2>2, Zenon DEF LoginFields
  <2>. QED
    BY <1>0, <1>2, <2>1, <2>3, Zenon DEF Stays, Continues
<1>3. CASE \E t \in TailnetIds : LoginSync(c, t)
  <2>1. PICK t \in TailnetIds : LoginSync(c, t)
    BY <1>3, Zenon
  <2>2. PICK left : left = Restrict(r.todo, DOMAIN r.todo \ {t})
    BY Zenon
  <2>3. ByName(r.todo[t].name) \ {t} = {} /\ calls' = [calls EXCEPT ![c].todo = left]
    BY <1>0, <1>1, <2>1, <2>2, Zenon DEF LoginSync, Finish
  <2>4. q = [r EXCEPT !.todo = left] /\ r.step = "sync"
    BY <1>0, <1>1, <2>1, <2>3, Zenon DEF LoginSync
  <2>5. /\ q.op = "login" /\ q.who = r.who /\ q.alone = r.alone /\ q.step = "sync"
        /\ q.todo = left
    BY <1>1, <2>4, Zenon DEF LoginFields
  <2>6. DOMAIN left = DOMAIN r.todo \ {t}
    BY <2>2, Zenon DEF Restrict
  <2>. QED
    BY <1>0, <2>1, <2>3, <2>5, <2>6, Zenon DEF Stays, Continues
<1>4. CASE LoginChoose(c)
  <2>1. PICK t : calls' = [calls EXCEPT ![c].step = "account", ![c].t = t]
    BY <1>0, <1>1, <1>4, Zenon DEF LoginChoose, Finish
  <2>2. q = [r EXCEPT !.step = "account", !.t = t]
    BY <1>0, <1>1, <2>1, Zenon
  <2>3. /\ q.op = "login" /\ q.who = r.who /\ q.alone = r.alone /\ q.step = "account"
        /\ q.todo = r.todo
    BY <1>1, <2>2, Zenon DEF LoginFields
  <2>. QED
    BY <1>0, <1>4, <2>3, Zenon DEF Stays, Continues
<1>5. CASE LoginAccount(c)
  <2>1. PICK name : name = accounts[Account(r.who)]
    BY Zenon
  <2>2. calls' = [calls EXCEPT ![c].step = "user", ![c].name = name]
    BY <1>0, <1>1, <1>5, <2>1, Zenon DEF LoginAccount, Finish
  <2>3. q = [r EXCEPT !.step = "user", !.name = name]
    BY <1>0, <1>1, <2>2, Zenon
  <2>4. /\ q.op = "login" /\ q.who = r.who /\ q.alone = r.alone /\ q.step = "user"
        /\ q.todo = r.todo /\ q.name = name
    BY <1>1, <2>3, Zenon DEF LoginFields
  <2>. QED
    BY <1>0, <1>5, <2>1, <2>4, Zenon DEF Stays, Continues
<1>6. CASE LoginUser(c) /\ calls' = [calls EXCEPT ![c].step = "create"]
  <2>1. q = [r EXCEPT !.step = "create"]
    BY <1>0, <1>1, <1>6, Zenon
  <2>2. /\ q.op = "login" /\ q.who = r.who /\ q.alone = r.alone /\ q.step = "create"
        /\ q.todo = r.todo /\ q.name = r.name
    BY <1>1, <2>1, Zenon DEF LoginFields
  <2>. QED
    BY <1>0, <1>6, <2>2, Zenon DEF Stays, Continues
<1>7. CASE LoginUser(c) /\ calls' # [calls EXCEPT ![c].step = "create"]
  <2>1. PICK u, step :
            /\ u \in users /\ step = IF u.name # r.name THEN "rename" ELSE "save"
            /\ calls' = [calls EXCEPT ![c].step = step, ![c].user = u.id]
    BY <1>0, <1>7, Zenon DEF LoginUser
  <2>2. q = [r EXCEPT !.step = step, !.user = u.id]
    BY <1>0, <1>1, <2>1, Zenon
  <2>3. /\ q.op = "login" /\ q.who = r.who /\ q.alone = r.alone /\ q.step = step
        /\ q.todo = r.todo /\ q.name = r.name /\ q.user = u.id
    BY <1>1, <2>2, Zenon DEF LoginFields
  <2>. QED
    BY <1>0, <1>7, <2>1, <2>3, Zenon DEF Stays, Continues
<1>8. CASE LoginRename(c)
  <2>1. q = [r EXCEPT !.step = "save"]
    BY <1>0, <1>1, <1>8, Zenon DEF LoginRename
  <2>2. /\ q.op = "login" /\ q.who = r.who /\ q.alone = r.alone /\ q.step = "save"
        /\ q.todo = r.todo /\ q.name = r.name /\ q.user = r.user
    BY <1>1, <2>1, Zenon DEF LoginFields
  <2>. QED
    BY <1>0, <1>8, <2>2, Zenon DEF Stays, Continues
<1>9. CASE LoginCreate(c)
  <2>1. /\ calls' = [calls EXCEPT ![c].step = "save", ![c].user = lastId + 1]
        /\ users' = users \cup {NewUser(r.t, Account(r.who), r.name)}
    BY <1>0, <1>1, <1>9, Zenon DEF LoginCreate, Finish
  <2>2. q = [r EXCEPT !.step = "save", !.user = lastId + 1]
    BY <1>0, <1>1, <2>1, Zenon
  <2>3. /\ q.op = "login" /\ q.who = r.who /\ q.alone = r.alone /\ q.step = "save"
        /\ q.todo = r.todo /\ q.name = r.name /\ q.user = lastId + 1
    BY <1>1, <2>2, Zenon DEF LoginFields
  <2>. QED
    BY <1>0, <1>9, <2>1, <2>3, Zenon DEF Stays, Continues
<1>. QED
  BY <1>2, <1>3, <1>4, <1>5, <1>6, <1>7, <1>8, <1>9, Zenon DEF LoginGoes

(* Beginning a login changes the other logins only in what they know.      *)
LEMMA LoginBegins ==
    ASSUME AdminInv, NEW e \in Callers, NEW id, Login(e, id)
    PROVE  /\ calls'[e].op = "login" /\ calls'[e].who = Exchange(id, load.orgs)
           /\ calls'[e].step = "list" /\ DOMAIN calls'[e].todo = {}
           /\ calls'[e].alone = ({d \in Callers : LoggingIn(d)} = {})
           /\ \A c \in Callers \ {e} :
                 \/ calls'[c] = calls[c] /\ ~LoggingIn(c)
                 \/ LoggingIn(c) /\ calls'[c].op = "login" /\ calls'[c].alone = FALSE
<1>. DEFINE u == Exchange(id, load.orgs)
            first == {d \in Callers : LoggingIn(d)} = {}
            none == <<>>
<1>1. calls'[e] = [op |-> "login", who |-> u, todo |-> none, step |-> "list", t |-> 0,
                   user |-> 0, name |-> NoName, alone |-> first]
  BY Zenon DEF Login
<1>2. DOMAIN none = {}
  OBVIOUS
<1>. HIDE DEF u, first, none
<1>3. /\ calls'[e].op = "login" /\ calls'[e].who = u /\ calls'[e].todo = none
      /\ calls'[e].step = "list" /\ calls'[e].alone = first
  <2>1. PICK call : call = [op |-> "login", who |-> u, todo |-> none, step |-> "list",
                            t |-> 0, user |-> 0, name |-> NoName, alone |-> first]
    BY Zenon
  <2>2. /\ call.op = "login" /\ call.who = u /\ call.todo = none /\ call.step = "list"
        /\ call.alone = first
    BY <2>1, Zenon
  <2>. QED
    BY <1>1, <2>1, <2>2, Zenon
<1>4. ASSUME NEW c \in Callers \ {e}
      PROVE  \/ calls'[c] = calls[c] /\ ~LoggingIn(c)
             \/ LoggingIn(c) /\ calls'[c].op = "login" /\ calls'[c].alone = FALSE
  <2>1. CASE ~LoggingIn(c)
    BY <2>1, Zenon DEF Login
  <2>2. CASE LoggingIn(c)
    <3>1. calls'[c] = [calls[c] EXCEPT !.alone = FALSE]
      BY <2>2, Zenon DEF Login
    <3>2. DOMAIN calls[c] = LoginFields /\ calls[c].op = "login"
      BY <2>2, LoginFacts, Zenon DEF LoggingIn
    <3>. QED
      BY <2>2, <3>1, <3>2, Zenon DEF LoginFields
  <2>. QED
    BY <2>1, <2>2, Zenon
<1>. QED
  BY <1>2, <1>3, <1>4, Zenon DEF u, first

(* How a call comes to be what it is: it was already, or it is a login     *)
(* that goes on, or somebody begins a login, or it begins to create, or it *)
(* is neither a login nor a creation.                                      *)
LEMMA CallGoesOn ==
    ASSUME AdminInv, ReadNext, NEW c \in Callers, calls'[c] # NoCall, calls'[c] # calls[c]
    PROVE  \/ LoggingIn(c) /\ Stays(c)
           \/ \E d \in Callers, id \in load.people : Login(d, id)
           \/ /\ calls'[c].op = "create"
              /\ calls'[c].row.policy \in load.policies \cup {EmptyPolicy}
           \/ calls'[c].op # "login" /\ calls'[c].op # "create"
<1>0. calls = [d \in Callers |-> calls[d]]
  BY Zenon DEF AdminInv, CallsOK
<1>1. ASSUME NEW d \in Callers, NEW x, calls' = [calls EXCEPT ![d] = x]
      PROVE  calls'[c] = x /\ x # NoCall
  BY <1>0, <1>1, Zenon
<1>2. ASSUME NEW d \in Callers,
             \/ Edits(d)
             \/ \E t \in TailnetIds, force \in BOOLEAN : DeleteTailnet(d, t, force)
             \/ Revokes(d) \/ \E a \in DOMAIN accounts : RevokeAccountList(d, a)
             \/ \E t \in Live, p \in Principals : CreateAuthKey(d, t, p)
             \/ \E p \in Principals : AuthenticationInterceptor(d, p)
      PROVE  calls'[c].op # "login" /\ calls'[c].op # "create"
  BY <1>1, <1>2, OtherBegins, Zenon
<1>3. ASSUME NEW d \in Callers, Creates(d)
      PROVE  /\ calls'[c].op = "create"
             /\ calls'[c].row.policy \in load.policies \cup {EmptyPolicy}
  <2>1. PICK x : /\ calls' = [calls EXCEPT ![d] = x] /\ x.op = "create"
                 /\ x.row.policy \in load.policies \cup {EmptyPolicy}
    BY <1>3, CreationBegins, Zenon
  <2>2. calls'[c] = x
    BY <1>1, <2>1, Zenon
  <2>. QED
    BY <2>1, <2>2, Zenon
<1>4. ASSUME NEW d \in Callers, Ends(d)
      PROVE  FALSE
  BY <1>1, <1>4, Zenon DEF Ends, CreateTailnetSave, EditSave, DeleteTailnetCommit,
     RevokeAccountCommit, CreateAuthKeySave, Read, Finish
<1>5. ASSUME \/ \E u \in users, p \in Principals : DeleteUser(u, p)
             \/ \E k \in owned : DeleteAuthKey(k)
      PROVE  FALSE
  BY <1>5, Zenon DEF DeleteUser, DeleteAuthKey
<1>6. ASSUME NEW d \in Callers, NEW kind, LoginSave(d, kind)
      PROVE  FALSE
  BY <1>1, <1>6, Zenon DEF LoginSave, Finish
<1>7. ASSUME NEW d \in Callers, LoggingIn(d), LoginGoes(d)
      PROVE  LoggingIn(c) /\ Stays(c)
  <2>1. d = c
    BY <1>7, LoginsOwn, Zenon
  <2>. QED
    BY <1>7, <2>1, LoginNext, Zenon
<1>8. ASSUME NEW d \in Callers, Logins(d)
      PROVE  \/ LoggingIn(c) /\ Stays(c)
             \/ \E id \in load.people : Login(d, id)
  BY <1>6, <1>7, <1>8, Zenon DEF Logins, LoggingIn, LoginGoes
<1>. QED
  BY <1>2, <1>3, <1>4, <1>5, <1>8, Zenon DEF ReadNext, AdminNext, Ends, Creates, Revokes

----------------------------------------------------------------------------
(* Role claims *)

(* The role under the identity's name is what its claims say. *)
Agrees(p, u) == GetRole(p, u.name) = "admin" <=> u.roles \cap AdminRoles # {}

(* What a login that nobody interferes with has reached: the account has   *)
(* the login name; once the tailnets are listed, every one of the          *)
(* organization agrees with the claims or is still to be saved; and the    *)
(* user has been renamed.                                                  *)
Synced(r) ==
    /\ accounts[Account(r.who)] = LoginName(r.who)
    /\ r.step # "sync" => DOMAIN r.todo = {}
    /\ load.orgs.enabled /\ load.orgs.rolesClaim /\ r.step # "list" =>
          \A t \in Live : r.who.org # NoName /\ tailnets[t].org = r.who.org =>
             t \in DOMAIN r.todo \/ Agrees(tailnets[t].policy, r.who)
    /\ r.step \in {"user", "create", "rename", "save"} => r.name = LoginName(r.who)
    /\ r.step = "save" => \A u \in users : u.id = r.user => u.name = LoginName(r.who)

PoliciesOK ==
    /\ \A t \in Live : "roles" \in DOMAIN tailnets[t].policy
    /\ \A c \in Callers : Creating(c) => "roles" \in DOMAIN calls[c].row.policy

OneLogin == \A c, d \in Callers : LoggingIn(c) /\ calls[c].alone /\ LoggingIn(d) => c = d

RolesInv ==
    /\ OneLogin
    /\ ~stale /\ ~edited =>
          /\ PoliciesOK
          /\ \A c \in Callers : LoggingIn(c) /\ calls[c].alone => Synced(calls[c])

(* syncOrgRoles leaves a policy that agrees with the claims. *)
LEMMA SyncAgrees ==
    ASSUME NEW p, NEW u, "roles" \in DOMAIN p
    PROVE  LET q == SyncedPolicy(p, u, AdminRoles)
           IN  "roles" \in DOMAIN q /\ Agrees(q, u)
<1>. DEFINE isAdmin == u.roles \cap AdminRoles # {}
            up == [n \in DOMAIN p.roles \cup {u.name} |-> IF n = u.name THEN "admin" ELSE p.roles[n]]
            down == Restrict(p.roles, DOMAIN p.roles \ {u.name})
            q == SyncedPolicy(p, u, AdminRoles)
<1>1. CASE isAdmin /\ GetRole(p, u.name) # "admin"
  <2>1. q = [p EXCEPT !.roles = up]
    BY <1>1, Zenon DEF SyncedPolicy
  <2>2. DOMAIN q = DOMAIN p /\ q.roles = up
    BY <2>1, Zenon
  <2>3. u.name \in DOMAIN up /\ up[u.name] = "admin"
    BY Zenon
  <2>4. GetRole(q, u.name) = "admin"
    BY <2>2, <2>3, Zenon DEF GetRole
  <2>. QED
    BY <1>1, <2>2, <2>4, Zenon DEF Agrees
<1>2. CASE ~isAdmin /\ GetRole(p, u.name) = "admin"
  <2>1. q = [p EXCEPT !.roles = down]
    BY <1>2, Zenon DEF SyncedPolicy
  <2>2. DOMAIN q = DOMAIN p /\ q.roles = down
    BY <2>1, Zenon
  <2>3. u.name \notin DOMAIN down
    BY Zenon DEF Restrict
  <2>4. GetRole(q, u.name) = "member"
    BY <2>2, <2>3, Zenon DEF GetRole
  <2>. QED
    BY <1>2, <2>2, <2>4, Zenon DEF Agrees
<1>3. CASE isAdmin <=> GetRole(p, u.name) = "admin"
  <2>1. q = p
    BY <1>3, Zenon DEF SyncedPolicy
  <2>. QED
    BY <1>3, <2>1, Zenon DEF Agrees
<1>. QED
  BY <1>1, <1>2, <1>3, Zenon

(* What is kept by every step: the histories, the accounts unless somebody *)
(* logs in, and the users' names unless a login renames its user.          *)
LEMMA LoginFrame ==
    ASSUME AdminInv, ReadNext
    PROVE  /\ (stale => stale') /\ (edited => edited')
           /\ \/ accounts' = accounts
              \/ \E d \in Callers, id \in load.people : Login(d, id)
           /\ \/ \A u \in users' : u \in users \/ u.id > lastId
              \/ \E d \in Callers : LoggingIn(d) /\ LoginRename(d)
<1>. DEFINE Histories == (stale => stale') /\ (edited => edited')
            UsersStay == \A u \in users' : u \in users \/ u.id > lastId
<1>0. \A t, a, n : NewUser(t, a, n).id > lastId
  <2>. SUFFICES ASSUME NEW t, NEW a, NEW n
                PROVE  NewUser(t, a, n).id > lastId
    BY Zenon
  <2>1. NewUser(t, a, n).id = lastId + 1
    BY Zenon DEF NewUser
  <2>. QED
    BY <2>1, AdminAssumption DEF AdminInv, Numbers
<1>1. ASSUME UNCHANGED <<stale, edited>>
      PROVE  Histories
  BY <1>1, Zenon
<1>2. ASSUME users' \subseteq users
      PROVE  UsersStay
  BY <1>2, Zenon
<1>. HIDE DEF Histories
<1>3. ASSUME NEW c \in Callers, Edits(c)
      PROVE  Histories /\ accounts' = accounts /\ UsersStay
  <2>1. UNCHANGED <<stale, edited, accounts, users>>
    BY <1>3, EditsKeepOrg, Zenon DEF Edit
  <2>. QED
    BY <1>1, <1>2, <2>1, Zenon
<1>4. ASSUME NEW c \in Callers,
             \/ Creates(c)
             \/ \E t \in TailnetIds, force \in BOOLEAN : DeleteTailnet(c, t, force)
             \/ Revokes(c) \/ \E a \in DOMAIN accounts : RevokeAccountList(c, a)
             \/ \E p \in Principals : AuthenticationInterceptor(c, p)
      PROVE  Histories /\ accounts' = accounts /\ UsersStay
  <2>1. UNCHANGED <<stale, edited, accounts, users>>
    BY <1>4, Zenon DEF Creates, CreateTailnet, DeleteTailnet, Revokes, RevokeAccount,
       RevokeAccountList, AuthenticationInterceptor
  <2>. QED
    BY <1>1, <1>2, <2>1, Zenon
<1>5. ASSUME NEW c \in Callers, \E t \in Live, p \in Principals : CreateAuthKey(c, t, p)
      PROVE  Histories /\ accounts' = accounts /\ UsersStay
  <2>1. PICK t, p : CreateAuthKey(c, t, p)
    BY <1>5, Zenon
  <2>2. users' = users \/ users' = users \cup {NewUser(t, Service, tailnets[t].name)}
    BY <2>1, Zenon DEF CreateAuthKey
  <2>3. UNCHANGED <<stale, edited, accounts>>
    BY <2>1, Zenon DEF CreateAuthKey
  <2>. QED
    BY <1>0, <1>1, <2>2, <2>3, Zenon
<1>6. ASSUME NEW c \in Callers, Ends(c)
      PROVE  Histories /\ accounts' = accounts /\ UsersStay
  <2>1. accounts' = accounts /\ users' \subseteq users
    BY <1>6, Zenon DEF Ends, CreateTailnetSave, EditSave, DeleteTailnetCommit, RemoveUsers,
       RevokeAccountCommit, CreateAuthKeySave, Read
  <2>2. CASE CreateTailnetSave(c)
    BY <2>2, Zenon DEF CreateTailnetSave, Histories
  <2>3. CASE EditSave(c)
    BY <2>3, Zenon DEF EditSave, Histories
  <2>4. CASE DeleteTailnetCommit(c) \/ RevokeAccountCommit(c) \/ CreateAuthKeySave(c) \/ Read(c)
    <3>1. UNCHANGED <<stale, edited>>
      BY <2>4, Zenon DEF DeleteTailnetCommit, RevokeAccountCommit, CreateAuthKeySave, Read
    <3>. QED
      BY <1>1, <1>2, <2>1, <3>1, Zenon
  <2>. QED
    BY <1>2, <1>6, <2>1, <2>2, <2>3, <2>4, Zenon DEF Ends
<1>7. ASSUME \/ \E u \in users, p \in Principals : DeleteUser(u, p)
             \/ \E k \in owned : DeleteAuthKey(k)
      PROVE  Histories /\ accounts' = accounts /\ UsersStay
  <2>1. UNCHANGED <<stale, edited, accounts>> /\ users' \subseteq users
    BY <1>7, Zenon DEF DeleteUser, RemoveUsers, DeleteAuthKey
  <2>. QED
    BY <1>1, <1>2, <2>1, Zenon
<1>8. ASSUME NEW c \in Callers, Logins(c)
      PROVE  /\ Histories
             /\ accounts' = accounts \/ \E id \in load.people : Login(c, id)
             /\ UsersStay \/ (LoggingIn(c) /\ LoginRename(c))
  <2>1. CASE \E id \in load.people : Login(c, id)
    <3>1. UNCHANGED <<stale, edited, users>>
      BY <2>1, Zenon DEF Login
    <3>. QED
      BY <1>1, <1>2, <2>1, <3>1, Zenon
  <2>2. CASE \E t \in TailnetIds : LoginSync(c, t)
    <3>1. UNCHANGED <<edited, users, accounts>>
      BY <2>2, Zenon DEF LoginSync
    <3>2. Histories
      BY <2>2, <3>1, Zenon DEF LoginSync, Histories
    <3>. QED
      BY <1>2, <3>1, <3>2, Zenon
  <2>3. CASE \/ LoginList(c) \/ LoginChoose(c) \/ LoginAccount(c) \/ LoginUser(c)
             \/ \E kind \in {"machine", "api"} : LoginSave(c, kind)
    <3>1. UNCHANGED <<stale, edited, users, accounts>>
      BY <2>3, Zenon DEF LoginList, LoginChoose, LoginAccount, LoginUser, LoginSave
    <3>. QED
      BY <1>1, <1>2, <3>1, Zenon
  <2>4. CASE LoggingIn(c) /\ LoginRename(c)
    <3>1. UNCHANGED <<stale, edited, accounts>>
      BY <2>4, Zenon DEF LoginRename
    <3>. QED
      BY <1>1, <2>4, <3>1, Zenon
  <2>5. CASE LoginCreate(c)
    <3>1. UNCHANGED <<stale, edited, accounts>>
      BY <2>5, Zenon DEF LoginCreate
    <3>2. users' = users \/ \E t, a, n : users' = users \cup {NewUser(t, a, n)}
      BY <2>5, ZenonT(30) DEF LoginCreate
    <3>. QED
      BY <1>0, <1>1, <3>1, <3>2, Zenon
  <2>. QED
    BY <1>8, <2>1, <2>2, <2>3, <2>4, <2>5, Zenon DEF Logins, LoggingIn
<1>. QED
  BY <1>3, <1>4, <1>5, <1>6, <1>7, <1>8, Zenon DEF ReadNext, AdminNext, Ends, Histories,
     Creates, Revokes

(* Where no outdated copy and no new policy is saved, a step other than a  *)
(* login's leaves the policies of the tailnets as they are, or a creation  *)
(* adds one, while nobody logs in.                                         *)
LEMMA PoliciesKept ==
    ASSUME AdminInv, ReadNext, ~stale', ~edited',
           \A d \in Callers : LoggingIn(d) => \A t \in TailnetIds : ~LoginSync(d, t)
    PROVE  \/ \A t \in Live' : /\ t \in Live /\ tailnets'[t].org = tailnets[t].org
                               /\ tailnets'[t].policy = tailnets[t].policy
           \/ /\ \A d \in Callers : ~LoggingIn(d)
              /\ \E c \in Callers :
                    /\ Creating(c)
                    /\ \A t \in Live' : \/ t \in Live /\ tailnets'[t] = tailnets[t]
                                        \/ tailnets'[t] = calls[c].row
<1>0. tailnets = [t \in TailnetIds |-> tailnets[t]]
  BY Zenon DEF AdminInv, RowsOK
<1>1. CASE UNCHANGED <<tailnets, stale>>
  BY <1>1, Zenon DEF Live
<1>2. CASE ~UNCHANGED <<tailnets, stale>>
  <2>1. PICK c \in Callers :
            /\ calls[c] # NoCall
            /\ CreateTailnetSave(c) \/ EditSave(c) \/ DeleteTailnetCommit(c)
    BY <1>2, RowSavers, Zenon DEF LoggingIn
  <2>2. CASE CreateTailnetSave(c)
    <3>1. Creating(c) /\ \A d \in Callers : ~LoggingIn(d)
      BY <2>2, Zenon DEF CreateTailnetSave, Creating
    <3>2. tailnets' = tailnets \/ tailnets' = [tailnets EXCEPT ![calls[c].t] = calls[c].row]
      BY <2>2, Zenon DEF CreateTailnetSave, SaveTailnet
    <3>3. \A t \in Live' : \/ t \in Live /\ tailnets'[t] = tailnets[t]
                           \/ tailnets'[t] = calls[c].row
      BY <1>0, <3>2, Zenon DEF Live
    <3>. QED
      BY <3>1, <3>3, Zenon
  <2>3. CASE EditSave(c)
    <3>0. PICK t, old, new : t = calls[c].t /\ old = calls[c].old /\ new = calls[c].new
      BY Zenon
    <3>1. /\ tailnets[t] = old /\ new.policy = old.policy
          /\ tailnets' = tailnets \/ tailnets' = [tailnets EXCEPT ![t] = new]
      BY <2>3, <3>0, Zenon DEF EditSave, SaveTailnet
    <3>2. old # NoRow
      <4>1. IsRow(old)
        BY <2>1, <2>3, <3>0, Zenon DEF AdminInv, CallsOK, CallOK, EditSave
      <4>. QED
        BY <4>1, RowIsThere, Zenon
    <3>3. \A s \in Live' : s \in Live /\ tailnets'[s].policy = tailnets[s].policy
      BY <1>0, <3>1, <3>2, Zenon DEF Live
    <3>4. \A s \in Live \cap Live' : tailnets'[s].org = tailnets[s].org
      BY AdminInductive, Zenon DEF Progress, Live
    <3>. QED
      BY <3>3, <3>4, Zenon
  <2>4. CASE DeleteTailnetCommit(c)
    <3>1. tailnets' = [tailnets EXCEPT ![calls[c].t] = NoRow]
      BY <2>4, Zenon DEF DeleteTailnetCommit
    <3>. QED
      BY <1>0, <3>1, Zenon DEF Live
  <2>. QED
    BY <2>1, <2>2, <2>3, <2>4, Zenon
<1>. QED
  BY <1>1, <1>2, Zenon

(* While nobody else begins one, a login goes on by its own steps. *)
LEMMA LoginStays ==
    ASSUME AdminInv, ReadNext, NEW c \in Callers, LoggingIn(c)',
           \A d \in Callers : \A id \in load.people : ~Login(d, id)
    PROVE  /\ LoggingIn(c) /\ calls'[c].who = calls[c].who
           /\ calls'[c].alone = calls[c].alone /\ Continues(c)
<1>1. CASE calls'[c] = calls[c]
  BY <1>1, Zenon DEF LoggingIn, Continues
<1>2. CASE calls'[c] # calls[c]
  <2>1. calls'[c] # NoCall /\ calls'[c].op = "login"
    BY Zenon DEF LoggingIn
  <2>2. LoggingIn(c) /\ Stays(c)
    BY <1>2, <2>1, CallGoesOn, Zenon
  <2>. QED
    BY <2>2, Zenon DEF Stays
<1>. QED
  BY <1>1, <1>2, Zenon

(* A login has no other beside it, or knows.                               *)
LEMMA OneLoginKept ==
    ASSUME AdminInv, OneLogin, ReadNext
    PROVE  OneLogin'
<1>. SUFFICES ASSUME NEW c \in Callers, NEW d \in Callers, LoggingIn(c)', calls'[c].alone,
                     LoggingIn(d)', c # d
              PROVE  FALSE
  BY Zenon DEF OneLogin, LoggingIn
<1>1. CASE \E e \in Callers, id \in load.people : Login(e, id)
  <2>1. PICK e \in Callers, id \in load.people : Login(e, id)
    BY <1>1, Zenon
  <2>2. /\ calls'[e].alone = ({f \in Callers : LoggingIn(f)} = {})
        /\ \A f \in Callers \ {e} :
              \/ calls'[f] = calls[f] /\ ~LoggingIn(f)
              \/ LoggingIn(f) /\ calls'[f].alone = FALSE
    BY <2>1, LoginBegins, Zenon
  <2>3. \A f \in Callers \ {e} : LoggingIn(f)' => LoggingIn(f) /\ calls'[f].alone = FALSE
    BY <2>2, Zenon DEF LoggingIn
  <2>4. c = e
    BY <2>3, Zenon
  <2>5. LoggingIn(d)
    BY <2>3, <2>4, Zenon
  <2>. QED
    BY <2>2, <2>4, <2>5, Zenon
<1>2. CASE \A e \in Callers : \A id \in load.people : ~Login(e, id)
  <2>1. ASSUME NEW e \in Callers, LoggingIn(e)'
        PROVE  LoggingIn(e) /\ calls'[e].alone = calls[e].alone
    BY <1>2, <2>1, LoginStays, Zenon
  <2>. QED
    BY <2>1, Zenon DEF OneLogin
<1>. QED
  BY <1>1, <1>2, Zenon

(* A login begins with the account under its name. *)
LEMMA LoginSyncs ==
    ASSUME AdminInv, RolesInv, ReadNext, NEW e \in Callers, NEW id, Login(e, id)
    PROVE  RolesInv'
<1>1. OneLogin'
  BY OneLoginKept, Zenon DEF RolesInv
<1>2. PICK u : u = Exchange(id, load.orgs)
  BY Zenon
<1>3. /\ calls'[e].op = "login" /\ calls'[e].who = u
      /\ calls'[e].step = "list" /\ DOMAIN calls'[e].todo = {}
      /\ \A c \in Callers \ {e} :
            \/ calls'[c] = calls[c] /\ ~LoggingIn(c)
            \/ LoggingIn(c) /\ calls'[c].op = "login" /\ calls'[c].alone = FALSE
  BY <1>2, LoginBegins, Zenon
<1>4. UNCHANGED <<tailnets, users, stale, edited>> /\ accounts'[Account(u)] = LoginName(u)
  BY <1>2, Zenon DEF Login
<1>5. ASSUME ~stale', ~edited'
      PROVE  PoliciesOK' /\ \A c \in Callers : LoggingIn(c)' /\ calls'[c].alone => Synced(calls[c])'
  <2>1. PoliciesOK /\ Live' = Live
    BY <1>4, <1>5, Zenon DEF RolesInv, Live
  <2>2. \A c \in Callers : Creating(c)' => calls'[c] = calls[c]
    BY <1>3, Zenon DEF Creating
  <2>3. PoliciesOK'
    BY <1>4, <2>1, <2>2, Zenon DEF PoliciesOK, Creating
  <2>4. Synced(calls[e])'
    <3>1. PICK q : q = calls'[e]
      BY Zenon
    <3>2. q.step # "sync" /\ q.step \notin {"user", "create", "rename", "save"}
      BY <1>3, <3>1
    <3>. QED
      BY <1>3, <1>4, <3>1, <3>2, Zenon DEF Synced
  <2>5. ASSUME NEW c \in Callers, LoggingIn(c)', calls'[c].alone
        PROVE  c = e
    BY <1>3, <2>5, Zenon DEF LoggingIn
  <2>. QED
    BY <2>3, <2>4, <2>5, Zenon
<1>. QED
  BY <1>1, <1>5, Zenon DEF RolesInv

(* A login that saves a policy up to date makes it agree with the claims,  *)
(* and a save that is refused ends it.                                     *)
LEMMA SyncSaves ==
    ASSUME AdminInv, NEW c \in Callers, LoggingIn(c), NEW t \in TailnetIds, LoginSync(c, t),
           ~stale'
    PROVE  /\ \A s \in Live' :
                 /\ s \in Live /\ tailnets'[s].org = tailnets[s].org
                 /\ \/ tailnets'[s].policy = tailnets[s].policy
                    \/ tailnets'[s].policy = SyncedPolicy(tailnets[s].policy, calls[c].who,
                                                         AdminRoles)
           /\ LoggingIn(c)' =>
                 /\ DOMAIN calls'[c].todo = DOMAIN calls[c].todo \ {t}
                 /\ tailnets'[t].policy = SyncedPolicy(tailnets[t].policy, calls[c].who, AdminRoles)
                 /\ \A s \in Live' : s # t => tailnets'[s] = tailnets[s]
<1>0. /\ tailnets = [s \in TailnetIds |-> tailnets[s]]
      /\ calls = [d \in Callers |-> calls[d]]
      /\ CallOK(calls[c]) /\ DOMAIN calls[c] = LoginFields
  BY LoginFacts, Zenon DEF AdminInv, RowsOK, CallsOK, LoggingIn
<1>1. PICK old : old = calls[c].todo[t]
  BY Zenon
<1>2. PICK p : p = SyncedPolicy(old.policy, calls[c].who, AdminRoles)
  BY Zenon
<1>3. PICK row : row = [old EXCEPT !.policy = p]
  BY Zenon
<1>4. /\ tailnets[t] = old /\ SaveTailnet(t, row) /\ t \in DOMAIN calls[c].todo
  BY <1>1, <1>2, <1>3, Zenon DEF LoginSync
<1>5. IsRow(old)
  BY <1>0, <1>1, <1>4, Zenon DEF CallOK, LoggingIn
<1>6. row.org = old.org /\ row.policy = p /\ row.name = old.name /\ old # NoRow
  BY <1>3, <1>5, RowIsThere, Zenon DEF IsRow, RowFields
<1>7. tailnets' = tailnets \/ tailnets' = [tailnets EXCEPT ![t] = row]
  BY <1>4, Zenon DEF SaveTailnet
<1>8. \A s \in TailnetIds : tailnets'[s] = tailnets[s] \/ (s = t /\ tailnets'[s] = row)
  BY <1>0, <1>7, Zenon
<1>9. ASSUME NEW s \in Live'
      PROVE  /\ s \in Live /\ tailnets'[s].org = tailnets[s].org
             /\ \/ tailnets'[s].policy = tailnets[s].policy
                \/ tailnets'[s].policy = SyncedPolicy(tailnets[s].policy, calls[c].who,
                                                     AdminRoles)
  BY <1>2, <1>4, <1>6, <1>8, <1>9, Zenon DEF Live
<1>10. ASSUME LoggingIn(c)'
       PROVE  /\ DOMAIN calls'[c].todo = DOMAIN calls[c].todo \ {t}
              /\ tailnets'[t].policy = SyncedPolicy(tailnets[t].policy, calls[c].who, AdminRoles)
              /\ \A s \in Live' : s # t => tailnets'[s] = tailnets[s]
  <2>1. PICK left : left = Restrict(calls[c].todo, DOMAIN calls[c].todo \ {t})
    BY Zenon
  <2>2. ByName(old.name) \ {t} = {} /\ calls' = [calls EXCEPT ![c].todo = left]
    BY <1>0, <1>1, <1>10, <2>1, Zenon DEF LoginSync, Finish, LoggingIn
  <2>3. calls'[c].todo = left
    BY <1>0, <2>2, Zenon DEF LoginFields
  <2>4. DOMAIN left = DOMAIN calls[c].todo \ {t}
    BY <2>1, Zenon DEF Restrict
  <2>5. tailnets' = [tailnets EXCEPT ![t] = row]
    BY <1>4, <1>6, <2>2, Zenon DEF SaveTailnet
  <2>6. tailnets'[t] = row /\ \A s \in TailnetIds : s # t => tailnets'[s] = tailnets[s]
    BY <1>0, <2>5, Zenon
  <2>. QED
    BY <1>2, <1>4, <1>6, <2>3, <2>4, <2>6, Zenon DEF Live
<1>. QED
  BY <1>9, <1>10, Zenon

(* Policies keep their shape where none is taken from outside. *)
LEMMA PoliciesStayOK ==
    ASSUME AdminInv, ReadNext, ~stale', ~edited', PoliciesOK,
           \A d \in Callers : \A id \in load.people : ~Login(d, id)
    PROVE  PoliciesOK'
<1>1. \A t \in Live' : "roles" \in DOMAIN tailnets'[t].policy
  <2>1. CASE \E c \in Callers : LoggingIn(c) /\ \E t \in TailnetIds : LoginSync(c, t)
    <3>1. PICK c \in Callers, t \in TailnetIds : LoggingIn(c) /\ LoginSync(c, t)
      BY <2>1, Zenon
    <3>2. ASSUME NEW s \in Live'
          PROVE  "roles" \in DOMAIN tailnets'[s].policy
      <4>1. PICK p, u : p = tailnets[s].policy /\ u = calls[c].who
        BY Zenon
      <4>2. /\ "roles" \in DOMAIN p
            /\ tailnets'[s].policy = p \/ tailnets'[s].policy = SyncedPolicy(p, u, AdminRoles)
        BY <3>1, <3>2, <4>1, SyncSaves, Zenon DEF PoliciesOK
      <4>3. "roles" \in DOMAIN SyncedPolicy(p, u, AdminRoles)
        BY <4>2, SyncAgrees, Zenon
      <4>. QED
        BY <4>2, <4>3, Zenon
    <3>. QED
      BY <3>2, Zenon
  <2>2. CASE \A c \in Callers : LoggingIn(c) => \A t \in TailnetIds : ~LoginSync(c, t)
    BY <2>2, PoliciesKept, Zenon DEF PoliciesOK
  <2>. QED
    BY <2>1, <2>2, Zenon
<1>2. ASSUME NEW c \in Callers, Creating(c)'
      PROVE  "roles" \in DOMAIN calls'[c].row.policy
  <2>1. CASE calls'[c] = calls[c]
    BY <1>2, <2>1, Zenon DEF PoliciesOK, Creating
  <2>2. CASE calls'[c] # calls[c]
    <3>1. calls'[c] # NoCall /\ calls'[c].op = "create" /\ calls'[c].op # "login"
      BY <1>2, Zenon DEF Creating
    <3>2. PICK p : p = calls'[c].row.policy
      BY Zenon
    <3>3. p \in load.policies \cup {EmptyPolicy}
      BY <2>2, <3>1, <3>2, CallGoesOn, Zenon DEF Stays
    <3>4. \A x \in load.policies : "roles" \in DOMAIN x
      BY AdminAssumption, Zenon DEF AdminInv, Numbers
    <3>5. "roles" \in DOMAIN EmptyPolicy
      BY Zenon DEF EmptyPolicy
    <3>. QED
      BY <3>2, <3>3, <3>4, <3>5, Zenon
  <2>. QED
    BY <2>1, <2>2, Zenon
<1>. QED
  BY <1>1, <1>2, Zenon DEF PoliciesOK

(* A login alone stays in step with the policies and the names. *)
LEMMA SyncedKept ==
    ASSUME AdminInv, RolesInv, ReadNext, ~stale', ~edited', NEW c \in Callers,
           LoggingIn(c)', calls'[c].alone,
           \A d \in Callers : \A id \in load.people : ~Login(d, id)
    PROVE  Synced(calls[c])'
<1>1. PICK r, q : r = calls[c] /\ q = calls'[c]
  BY Zenon
<1>2. LoggingIn(c) /\ q.who = r.who /\ r.alone /\ Continues(c)
  <2>1. /\ LoggingIn(c) /\ calls'[c].who = calls[c].who
        /\ calls'[c].alone = calls[c].alone /\ Continues(c)
    BY LoginStays, Zenon
  <2>. QED
    BY <1>1, <2>1, Zenon
<1>3. ~stale /\ ~edited /\ accounts' = accounts /\ load' = load
  BY LoginFrame, AdminInductive, Zenon DEF Progress
<1>4. PoliciesOK /\ Synced(r) /\ \A d \in Callers : LoggingIn(d) => d = c
  BY <1>1, <1>2, <1>3, Zenon DEF RolesInv, OneLogin
<1>5. accounts'[Account(q.who)] = LoginName(q.who)
  BY <1>2, <1>3, <1>4, Zenon DEF Synced
<1>. DEFINE later == {"account", "user", "create", "rename"}
            named == {"user", "create", "rename", "save"}
<1>0. "sync" \notin later /\ "list" \notin later
      /\ "list" \notin named /\ "sync" \notin named /\ "account" \notin named
  OBVIOUS
<1>9. \/ q = r
      \/ LoginList(c) /\ q.step = "sync" /\ DOMAIN q.todo = OutOfStep(r.who)
      \/ \E t \in TailnetIds : LoginSync(c, t) /\ r.step = "sync" /\ q.step = "sync"
      \/ LoginChoose(c) /\ q.step = "account" /\ q.todo = r.todo
      \/ LoginAccount(c) /\ r.step = "account" /\ q.step = "user" /\ q.todo = r.todo
                        /\ q.name = accounts[Account(r.who)]
      \/ r.step \in named /\ q.step \in named /\ q.todo = r.todo /\ q.name = r.name
  <2>1. "create" \in named /\ "rename" \in named /\ "save" \in named /\ "user" \in named
    OBVIOUS
  <2>. HIDE DEF named
  <2>2. LoginUser(c) => r.step \in named
    BY <1>1, <2>1, Zenon DEF LoginUser
  <2>3. LoginRename(c) \/ LoginCreate(c) => r.step \in named
    BY <1>1, <2>1, Zenon DEF LoginRename, LoginCreate
  <2>4. q.step \in {"create", "rename"} => q.step \in named
    BY <2>1, Zenon
  <2>. QED
    BY <1>1, <1>2, <2>1, <2>2, <2>3, <2>4, Zenon DEF Continues, LoginSync, LoginAccount
<1>6. q.step # "sync" => DOMAIN q.todo = {}
  <2>1. r.step \in named \/ r.step = "account" => DOMAIN r.todo = {}
    BY <1>0, <1>4, Zenon DEF Synced
  <2>2. LoginChoose(c) => DOMAIN r.todo = {}
    BY <1>1, Zenon DEF LoginChoose
  <2>3. r.step # "sync" => DOMAIN r.todo = {}
    BY <1>4, Zenon DEF Synced
  <2>. HIDE DEF named
  <2>. QED
    BY <1>9, <2>1, <2>2, <2>3, Zenon
<1>7. ASSUME load'.orgs.enabled, load'.orgs.rolesClaim, q.step # "list", NEW s \in Live',
             q.who.org # NoName, tailnets'[s].org = q.who.org
      PROVE  s \in DOMAIN q.todo \/ Agrees(tailnets'[s].policy, q.who)
  <2>0. /\ load.orgs.enabled /\ load.orgs.rolesClaim
        /\ r.step # "list" => \A t \in Live : tailnets[t].org = r.who.org =>
              t \in DOMAIN r.todo \/ Agrees(tailnets[t].policy, r.who)
    BY <1>2, <1>3, <1>4, <1>7, Zenon DEF Synced
  <2>1. CASE \E t \in TailnetIds : LoginSync(c, t)
    <3>1. PICK t \in TailnetIds : LoginSync(c, t)
      BY <2>1, Zenon
    <3>2. PICK p : p = tailnets[t].policy
      BY Zenon
    <3>3. /\ \A u \in Live' : u \in Live /\ tailnets'[u].org = tailnets[u].org
          /\ DOMAIN q.todo = DOMAIN r.todo \ {t}
          /\ tailnets'[t].policy = SyncedPolicy(p, r.who, AdminRoles)
          /\ \A u \in Live' : u # t => tailnets'[u] = tailnets[u]
      BY <1>1, <1>2, <3>1, <3>2, SyncSaves, Zenon
    <3>4. t \in Live' => Agrees(tailnets'[t].policy, r.who)
      <4>1. t \in Live' => "roles" \in DOMAIN p
        BY <1>4, <3>2, <3>3, Zenon DEF PoliciesOK
      <4>2. "roles" \in DOMAIN p => Agrees(SyncedPolicy(p, r.who, AdminRoles), r.who)
        BY SyncAgrees, Zenon
      <4>. QED
        BY <3>3, <4>1, <4>2, Zenon
    <3>5. r.step # "list"
      <4>1. r.step = "sync"
        BY <1>1, <3>1, Zenon DEF LoginSync
      <4>. QED
        BY <4>1, Zenon
    <3>. QED
      BY <1>2, <1>7, <2>0, <3>3, <3>4, <3>5, Zenon
  <2>2. CASE \A t \in TailnetIds : ~LoginSync(c, t)
    <3>1. \A t \in Live' : /\ t \in Live /\ tailnets'[t].org = tailnets[t].org
                           /\ tailnets'[t].policy = tailnets[t].policy
      BY <1>2, <1>4, <2>2, PoliciesKept, Zenon
    <3>2. CASE LoginList(c) /\ q.step = "sync" /\ DOMAIN q.todo = OutOfStep(r.who)
      <4>1. PICK p : p = tailnets[s].policy
        BY Zenon
      <4>2. s \in Live /\ tailnets'[s].policy = p /\ "roles" \in DOMAIN p
        BY <1>4, <1>7, <3>1, <4>1, Zenon DEF PoliciesOK
      <4>3. s \in OutOfStep(r.who) \/ SyncedPolicy(p, r.who, AdminRoles) = p
        BY <1>2, <1>7, <2>0, <3>1, <4>1, <4>2, Zenon DEF OutOfStep, ByOrganization
      <4>4. Agrees(SyncedPolicy(p, r.who, AdminRoles), r.who)
        BY <4>2, SyncAgrees, Zenon
      <4>. QED
        BY <1>2, <3>2, <4>2, <4>3, <4>4, Zenon
    <3>3. CASE q.todo = r.todo /\ r.step # "list"
      BY <1>2, <1>7, <2>0, <3>1, <3>3, Zenon
    <3>4. LoginChoose(c) => r.step # "list"
      <4>1. LoginChoose(c) => r.step = "sync"
        BY <1>1, Zenon DEF LoginChoose
      <4>. QED
        BY <4>1, Zenon
    <3>5. r.step \in named \/ r.step = "account" => r.step # "list"
      BY <1>0, Zenon
    <3>. HIDE DEF named
    <3>. QED
      BY <1>7, <1>9, <2>2, <3>2, <3>3, <3>4, <3>5, Zenon
  <2>. QED
    BY <2>1, <2>2, Zenon
<1>10. ASSUME q.step \in named
       PROVE  q.name = LoginName(q.who)
  <2>1. r.step \in named => r.name = LoginName(r.who)
    BY <1>4, Zenon DEF Synced
  <2>2. q.step # "sync" /\ q.step # "account"
    BY <1>0, <1>10, Zenon
  <2>3. accounts[Account(r.who)] = LoginName(r.who)
    BY <1>4, Zenon DEF Synced
  <2>. HIDE DEF named
  <2>. QED
    BY <1>2, <1>9, <1>10, <2>1, <2>2, <2>3, Zenon
<1>8. ASSUME q.step = "save", NEW w \in users', w.id = q.user
      PROVE  w.name = LoginName(q.who)
  <2>0. /\ lastId \in Nat /\ \A u \in users : DOMAIN u = UserFields /\ u.id \in 1 .. lastId
        /\ \A u, v \in users : u.id = v.id => u = v
    BY AdminAssumption DEF AdminInv, Numbers, UsersOK
  <2>1. q.name = LoginName(q.who)
    <3>1. "save" \in named
      OBVIOUS
    <3>. HIDE DEF named
    <3>. QED
      BY <1>8, <1>10, <3>1, Zenon
  <2>2. CASE q = r
    <3>1. r.step = "save" /\ r.user \in 1 .. lastId
      BY <1>1, <1>2, <1>8, <2>2, LoginFacts, Zenon DEF LoggingIn, CallOK, OfCall
    <3>2. ~LoginRename(c)
      BY <1>1, <3>1, Zenon DEF LoginRename
    <3>3. w \in users \/ w.id > lastId
      BY <1>4, <1>8, <3>2, LoginFrame, Zenon
    <3>4. w \in users
      BY <1>8, <2>0, <2>2, <3>1, <3>3
    <3>. QED
      BY <1>4, <1>8, <2>2, <3>1, <3>4, Zenon DEF Synced
  <2>3. CASE LoginUser(c) /\ q.name = r.name /\ \E u \in users : q.user = u.id /\ u.name = r.name
    <3>1. users' = users
      BY <2>3, Zenon DEF LoginUser
    <3>. QED
      BY <1>8, <2>0, <2>1, <2>3, <3>1, Zenon
  <2>4. CASE LoginRename(c) /\ q.name = r.name /\ q.user = r.user
    <3>1. PICK v \in users : w = IF v.id = r.user THEN [v EXCEPT !.name = r.name] ELSE v
      BY <1>1, <1>8, <2>4, Zenon DEF LoginRename
    <3>2. w = [v EXCEPT !.name = r.name]
      BY <1>8, <2>4, <3>1, Zenon
    <3>3. w.name = r.name
      BY <2>0, <3>2, Zenon DEF UserFields
    <3>. QED
      BY <2>1, <2>4, <3>3, Zenon
  <2>5. CASE /\ q.user = lastId + 1 /\ q.name = r.name
             /\ users' = users \cup {NewUser(r.t, Account(r.who), r.name)}
    <3>1. w \notin users
      BY <1>8, <2>0, <2>5
    <3>2. w = NewUser(r.t, Account(r.who), r.name)
      BY <1>8, <2>5, <3>1, Zenon
    <3>3. w.name = r.name
      BY <3>2, Zenon DEF NewUser
    <3>. QED
      BY <2>1, <2>5, <3>3, Zenon
  <2>6. /\ q.step # "sync" /\ q.step # "account" /\ q.step # "user"
        /\ q.step \notin {"create", "rename"}
    BY <1>8
  <2>. QED
    BY <1>1, <1>2, <2>2, <2>3, <2>4, <2>5, <2>6, Zenon DEF Continues
<1>. QED
  BY <1>1, <1>5, <1>6, <1>7, <1>8, <1>10, Zenon DEF Synced

(* A login makes its user tailnet admin, or takes that back, as the role   *)
(* claims say, for any number of tailnets and callers: while one identity  *)
(* without a username logs in and nobody else saves a policy               *)
(* (handlers/authentication.go syncOrgRoles).                              *)
THEOREM RolesAreSynced == ReadSpec => []RolesFollowClaims
<1>1. AdminInit => RolesInv
  <2>. SUFFICES ASSUME AdminInit
                PROVE  RolesInv
    BY Zenon
  <2>1. \A c \in Callers : ~LoggingIn(c) /\ ~Creating(c)
    BY Zenon DEF AdminInit, LoggingIn, Creating
  <2>2. /\ load \in Loads /\ Len(load.rows) \in 0 .. MaxTailnet
        /\ \A i \in 1 .. Len(load.rows) : "roles" \in DOMAIN load.rows[i].policy
    BY AdminAssumption, Zenon DEF AdminInit
  <2>3. \A t \in Live : t \in 1 .. Len(load.rows) /\ tailnets[t] = load.rows[t]
    BY <2>2, AdminAssumption DEF AdminInit, Live, TailnetIds
  <2>4. PoliciesOK
    BY <2>1, <2>2, <2>3, Zenon DEF PoliciesOK
  <2>. QED
    BY <2>1, <2>4, Zenon DEF RolesInv, OneLogin
<1>2. AdminInv /\ RolesInv /\ [ReadNext]_adminVars => RolesInv'
  <2>1. ASSUME RolesInv, UNCHANGED adminVars
        PROVE  RolesInv'
    BY <2>1, Zenon DEF adminVars, RolesInv, OneLogin, PoliciesOK, Synced, LoggingIn, Creating, Live
  <2>. SUFFICES ASSUME AdminInv, RolesInv, ReadNext
                PROVE  RolesInv'
    BY <2>1, Zenon
  <2>2. CASE \E d \in Callers, id \in load.people : Login(d, id)
    BY <2>2, LoginSyncs, Zenon
  <2>3. CASE \A d \in Callers : \A id \in load.people : ~Login(d, id)
    <3>1. OneLogin'
      BY OneLoginKept, Zenon DEF RolesInv
    <3>2. ASSUME ~stale', ~edited'
          PROVE  PoliciesOK'
      BY <2>3, <3>2, LoginFrame, PoliciesStayOK, Zenon DEF RolesInv
    <3>3. ASSUME ~stale', ~edited', NEW c \in Callers, LoggingIn(c)', calls'[c].alone
          PROVE  Synced(calls[c])'
      BY <2>3, <3>3, SyncedKept, Zenon
    <3>. QED
      BY <3>1, <3>2, <3>3, Zenon DEF RolesInv
  <2>. QED
    BY <2>2, <2>3, Zenon
<1>3. AdminInv /\ RolesInv => RolesFollowClaims
  <2>. SUFFICES ASSUME AdminInv, RolesInv, NEW c \in Callers, AtSave(c),
                       calls[c].who.username = NoName, calls[c].alone, ~stale, ~edited,
                       load.orgs.enabled, load.orgs.rolesClaim,
                       NEW u \in users, u.id = calls[c].user,
                       tailnets[calls[c].t] # NoRow, tailnets[calls[c].t].org # NoName
                PROVE  (GetRole(tailnets[calls[c].t].policy, u.name) = "admin")
                          = (calls[c].who.roles \cap AdminRoles # {})
    BY Zenon DEF RolesFollowClaims, RoleAtLogin
  <2>1. PICK r, t, p : r = calls[c] /\ t = r.t /\ p = tailnets[t].policy
    BY Zenon
  <2>2. LoggingIn(c) /\ r.step = "save" /\ Synced(r) /\ CallOK(r)
    BY <2>1, LoginFacts, Zenon DEF AtSave, RolesInv, LoggingIn
  <2>3. r.step # "sync" /\ r.step # "list" /\ r.step \in Chosen
    BY <2>2 DEF Chosen, LoginSteps
  <2>4. t \in Live
    <3>1. t \in Used
      BY <2>1, <2>2, <2>3, Zenon DEF CallOK, LoggingIn
    <3>. QED
      BY <2>1, <3>1, AdminAssumption DEF Used, Live, TailnetIds, AdminInv, Numbers
  <2>5. tailnets[t].org = r.who.org
    <3>1. PICK g : Bound(g)
      BY Zenon DEF AdminInv, OrgsOK
    <3>2. CallBound(g, r) /\ tailnets[t].org = g[t]
      BY <2>1, <2>2, <2>4, <3>1, Zenon DEF Bound, LoggingIn, Live
    <3>. QED
      BY <2>1, <2>2, <2>3, <3>2, Zenon DEF CallBound, LoggingIn
  <2>6. Agrees(p, r.who)
    BY <2>1, <2>2, <2>3, <2>4, <2>5, Zenon DEF Synced
  <2>7. u.name = r.who.name
    BY <2>1, <2>2, Zenon DEF Synced, LoginName
  <2>. QED
    BY <2>1, <2>6, <2>7, Zenon DEF Agrees
<1>. QED
  BY <1>1, <1>2, <1>3, AdminInvHolds, PTL DEF ReadSpec
================================================================================
