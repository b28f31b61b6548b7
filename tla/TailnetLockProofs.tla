-------------------------- MODULE TailnetLockProofs --------------------------
(***************************************************************************)
(* Proofs about TailnetLock, for any numbers of nodes, ids, genesis        *)
(* messages and updates.                                                   *)
(***************************************************************************)
EXTENDS TailnetLock, SequenceTheorems, WellFoundedInduction, TLAPS

TkaFields == {"enabled", "disabled", "head", "ancestor", "pending", "secret"}
ReqFields == {"pc", "genesis", "sigs", "aum", "listed", "id", "late"}
RowFields == {"device", "key", "sig"}

(* The messages of one authority: its genesis and what descends from it. *)
Tree(s, g) ==
    /\ <<g>> \in s
    /\ \A m \in s : /\ m \in Seq(Nat) /\ Len(m) \in 1 .. MaxChain /\ m[1] = g
                    /\ Len(m) > 1 => Parent(m) \in s

BusyOK(b) == DOMAIN b = {"disable", "edit"} /\ b.disable \in BOOLEAN

(* The rows and the records have their fields. *)
Shapes ==
    /\ load \in Loads
    /\ DOMAIN tka = TkaFields /\ tka.enabled \in BOOLEAN /\ tka.disabled \in BOOLEAN
    /\ DOMAIN req = Admins /\ \A d \in Admins : DOMAIN req[d] = ReqFields
    /\ DOMAIN rows = Ids
    /\ \A i \in Ids : rows[i] # NoRow => DOMAIN rows[i] = RowFields
    /\ reg # NoReg => DOMAIN reg.copy = RowFields
    /\ DOMAIN offer = Admins /\ DOMAIN known = Admins
    /\ feature \in BOOLEAN /\ BusyOK(switching)
    /\ overlapped \in BOOLEAN /\ torn \in BOOLEAN
    /\ drawn \subseteq Geneses

(* A handler that goes on after it took the mutex still holds it. *)
Mutex == \A d \in Admins : req[d].pc \in {"finishing", "sent", "signing"} => lock = d

(* A genesis that no client and no authority has used. *)
Fresh(g) == /\ g \in drawn
            /\ tka.ancestor # <<g>>
            /\ \A e \in Admins : <<g>> \notin known[e]

(* Genesis messages are used once: the one that is pending and the ones    *)
(* that are on their way to InitBegin are fresh and pairwise different.    *)
Draws ==
    /\ \A g \in Geneses : tka.ancestor = <<g>> => g \in drawn
    /\ tka.pending # NoGenesis => Fresh(tka.pending)
    /\ \A d \in Admins : req[d].pc = "begin" =>
          /\ Fresh(req[d].genesis) /\ req[d].genesis # tka.pending
          /\ \A e \in Admins : req[e].pc = "begin" /\ e # d
                                  => req[e].genesis # req[d].genesis

(* The server's messages while the authority is active. *)
Authority ==
    tka.enabled => /\ Root \in drawn /\ tka.ancestor = <<Root>>
                   /\ Tree(aums, Root)
                   /\ ~tka.disabled /\ tka.pending = NoGenesis
                   /\ tka.head \in aums
                   /\ feature \/ overlapped
                   /\ switching.disable => overlapped

(* The messages of the clients, and the update a client sends. *)
Clients ==
    \A d \in Admins :
        /\ known[d] = {} \/ \E g \in drawn : Tree(known[d], g)
        /\ tka.enabled /\ <<Root>> \in known[d] => known[d] \subseteq aums
        /\ req[d].pc \in {"send", "sent"} =>
              /\ req[d].aum \in Seq(Nat) /\ Len(req[d].aum) \in 2 .. MaxChain
              /\ Parent(req[d].aum) \in known[d]
        /\ req[d].pc = "sent" => req[d].aum \in aums

(* What the server tells and stores of the head. *)
HeadWritten ==
    /\ announced = Advert(tka)
    /\ (tka.enabled /\ \A d \in Admins : req[d].pc # "sent")
          => tka.head = ActiveHead(aums) \/ torn

(* The machines that InitFinish listed, and the signatures it was sent. *)
OneEach(S) == \A s \in S : \A t \in S : s[1] = t[1] => s = t

Finish(r) ==
    /\ r.pc \in {"finish", "finishing"} => OneEach(r.sigs) /\ (feature \/ overlapped)
    /\ r.pc = "finishing" =>
          /\ ~tka.enabled /\ tka.pending # NoGenesis
          /\ \A i \in Ids : r.listed[i] # NoRow =>
                /\ DOMAIN r.listed[i] = RowFields
                /\ \E s \in r.sigs :
                      /\ s[1] = i
                      /\ s[2] = <<r.listed[i].device, r.listed[i].key, tka.pending>>
          /\ r.late \/ \A i \in Ids : rows[i] # NoRow => r.listed[i] # NoRow
    /\ r.pc = "signing" => DOMAIN r.listed[r.id] = RowFields

Finishing == \A d \in Admins : OneEach(offer[d].nodes) /\ Finish(req[d])

LockInv == /\ Shapes /\ Mutex /\ Draws /\ Authority /\ Clients /\ HeadWritten
           /\ Finishing

----------------------------------------------------------------------------
(* Messages and trees of messages *)

(* The parent of a message is its path without the last update. *)
LEMMA ParentOf ==
    ASSUME NEW m \in Seq(Nat), Len(m) > 1
    PROVE  /\ Parent(m) \in Seq(Nat) /\ Len(Parent(m)) = Len(m) - 1
           /\ \A k \in 1 .. Len(m) - 1 : Parent(m)[k] = m[k]
           /\ Parent(m)[1] = m[1]
  <1>1. Len(m) \in Nat /\ \A i \in 1 .. Len(m) - 1 : m[i] \in Nat
    BY LenProperties, ElementOfSeq
  <1>2. PICK n : n = Len(m) - 1
    BY Zenon
  <1>3. n \in Int /\ 1 \in Int /\ 1 =< n /\ n - 1 + 1 = n
    BY <1>1, <1>2
  <1>7. \A i \in 1 .. n : m[i] \in Nat
    BY <1>1, <1>2, Zenon
  <1>4. /\ SubSeq(m, 1, n) \in Seq(Nat)
        /\ Len(SubSeq(m, 1, n)) = IF 1 =< n THEN n - 1 + 1 ELSE 0
        /\ \A i \in 1 .. n - 1 + 1 : SubSeq(m, 1, n)[i] = m[1 + i - 1]
    BY <1>7, <1>3, SubSeqProperties, SMT
  <1>5. \A i \in 1 .. n : SubSeq(m, 1, n)[i] = m[i]
    <2> SUFFICES ASSUME NEW i \in 1 .. n PROVE SubSeq(m, 1, n)[i] = m[i]
      BY Zenon
    <2>1. 1 + i - 1 = i /\ i \in 1 .. n - 1 + 1
      BY <1>3
    <2> QED
      BY <1>4, <2>1, Zenon
  <1>6. Len(SubSeq(m, 1, n)) = n
    BY <1>3, <1>4, Zenon
  <1> QED
    BY <1>2, <1>3, <1>4, <1>5, <1>6 DEF Parent

(* An update on top of a message has that message as its parent. *)
LEMMA ParentOfAppend ==
    ASSUME NEW m \in Seq(Nat), Len(m) >= 1, NEW u \in Nat
    PROVE  /\ Append(m, u) \in Seq(Nat) /\ Len(Append(m, u)) = Len(m) + 1
           /\ Parent(Append(m, u)) = m
  <1>1. /\ Append(m, u) \in Seq(Nat) /\ Len(Append(m, u)) = Len(m) + 1
        /\ \A i \in 1 .. Len(m) : Append(m, u)[i] = m[i]
        /\ Len(m) \in Nat
    BY AppendProperties, LenProperties, SMT
  <1>2. PICK q : q = Append(m, u)
    BY Zenon
  <1>3. q \in Seq(Nat) /\ Len(q) = Len(m) + 1 /\ Len(q) > 1 /\ Len(q) - 1 = Len(m)
    BY <1>1, <1>2
  <1>4. /\ Parent(q) \in Seq(Nat) /\ Len(Parent(q)) = Len(m)
        /\ \A k \in 1 .. Len(m) : Parent(q)[k] = q[k]
    BY <1>3, ParentOf, Zenon
  <1>5. Parent(q) = m
    BY <1>1, <1>2, <1>4, SeqEqual, Zenon
  <1> QED
    BY <1>1, <1>2, <1>5, Zenon

(* A nonempty set of naturals has a smallest element. *)
LEMMA Smallest ==
    ASSUME NEW N, N \subseteq Nat, N # {}
    PROVE  \E n \in N : \A m \in N : n =< m
  <1>1. PICK n \in N : \A m \in N : <<m, n>> \notin OpToRel(<, Nat)
    BY NatLessThanWellFounded, WFMin, Zenon
  <1>2. ASSUME NEW m \in N PROVE n =< m
    <2>1. m \in Nat /\ n \in Nat
      BY Zenon
    <2>2. ~(m < n)
      BY <1>1, <2>1, Zenon DEF OpToRel
    <2> QED
      BY <2>1, <2>2
  <1> QED
    BY <1>2, Zenon

(* The preferred messages of a tree, and the head among them. *)
Preferred(s, h) ==
    \A k \in 2 .. Len(h) : \A a \in ChildAUMs(s, SubSeq(h, 1, k - 1)) : h[k] =< a[k]

(* A preferred message with children has a child that is preferred. *)
LEMMA PreferredChild ==
    ASSUME NEW s, NEW g, Tree(s, g), NEW h \in s, Preferred(s, h),
           ChildAUMs(s, h) # {}
    PROVE  \E b \in s : Preferred(s, b) /\ Len(b) = Len(h) + 1
  <1>1. /\ h \in Seq(Nat) /\ Len(h) \in Nat /\ Len(h) >= 1
        /\ \A b \in ChildAUMs(s, h) : b \in s /\ b \in Seq(Nat) /\ Len(b) > 1
                                       /\ Len(b) \in Nat /\ Parent(b) = h
    BY DEF Tree, ChildAUMs
  <1>2. PICK n : n = Len(h) + 1
    BY Zenon
  <1>3. \A b \in ChildAUMs(s, h) :
           /\ Len(b) = n /\ b[n] \in Nat
           /\ \A k \in 1 .. n - 1 : b[k] = h[k]
    <2> SUFFICES ASSUME NEW b \in ChildAUMs(s, h)
                 PROVE  /\ Len(b) = n /\ b[n] \in Nat
                        /\ \A k \in 1 .. n - 1 : b[k] = h[k]
      BY Zenon
    <2>1. b \in Seq(Nat) /\ Len(b) > 1 /\ Parent(b) = h /\ Len(b) \in Nat
      BY <1>1, Zenon
    <2>2. Len(h) = Len(b) - 1 /\ \A k \in 1 .. Len(b) - 1 : h[k] = b[k]
      BY <2>1, ParentOf, Zenon
    <2>3. Len(b) = n /\ n \in 1 .. Len(b)
      BY <1>1, <1>2, <2>1, <2>2
    <2> QED
      BY <2>1, <2>2, <2>3, ElementOfSeq, Zenon
  <1>4. PICK N : N = {b[n] : b \in ChildAUMs(s, h)}
    BY Zenon
  <1>5. PICK v \in N : \A w \in N : v =< w
    <2>1. N \subseteq Nat /\ N # {}
      BY <1>3, <1>4, Zenon
    <2> QED
      BY <2>1, Smallest, Zenon
  <1>6. PICK b \in ChildAUMs(s, h) : b[n] = v
    BY <1>4, Zenon
  <1>7. ASSUME NEW k \in 2 .. Len(b), NEW a \in ChildAUMs(s, SubSeq(b, 1, k - 1))
        PROVE  b[k] =< a[k]
    <2>1. CASE k = n
      <3>1. SubSeq(b, 1, k - 1) = h
        BY <1>1, <1>3, <1>6, <2>1, Zenon DEF Parent
      <3>2. a[n] \in N
        BY <1>4, <3>1, Zenon
      <3> QED
        BY <1>5, <1>6, <2>1, <3>2, Zenon
    <2>2. CASE k # n
      <3>1. /\ k \in 2 .. Len(h) /\ k \in 1 .. n - 1 /\ b[k] = h[k]
            /\ k - 1 \in 1 .. n - 1 /\ Len(b) = n /\ Len(b) - 1 = Len(h)
        <4>1. Len(b) = n /\ \A j \in 1 .. n - 1 : b[j] = h[j]
          BY <1>3, <1>6, Zenon
        <4>2. k \in 2 .. Len(h) /\ k \in 1 .. n - 1 /\ k - 1 \in 1 .. n - 1
          BY <1>1, <1>2, <2>2, <4>1, SMT
        <4>3. n - 1 = Len(h)
          BY <1>1, <1>2, SMT
        <4> QED
          BY <4>1, <4>2, <4>3, Zenon
      <3>2. SubSeq(b, 1, k - 1) = SubSeq(h, 1, k - 1)
        <4>1. b \in Seq(Nat) /\ h = SubSeq(b, 1, Len(b) - 1)
          BY <1>1, <1>6, Zenon DEF Parent
        <4>2. SubSeq(SubSeq(b, 1, Len(b) - 1), 1, k - 1) = SubSeq(b, 1 + 1 - 1, 1 + (k - 1) - 1)
          <5>1. /\ 1 \in 1 .. Len(b) /\ Len(b) - 1 \in 1 .. Len(b)
                /\ 1 \in 1 .. (Len(b) - 1) - 1 + 1
                /\ k - 1 \in 1 .. (Len(b) - 1) - 1 + 1
            <6>1. PICK l \in Nat : l = Len(h) /\ l >= 1 /\ Len(b) = l + 1 /\ k \in 2 .. l
              BY <1>1, <1>2, <3>1, Zenon
            <6>2. /\ 1 \in 1 .. l + 1 /\ (l + 1) - 1 \in 1 .. l + 1
                  /\ 1 \in 1 .. ((l + 1) - 1) - 1 + 1
                  /\ k - 1 \in 1 .. ((l + 1) - 1) - 1 + 1
              BY <6>1, SMT
            <6> QED
              BY <6>1, <6>2, Zenon
          <5> QED
            BY <4>1, <5>1, SubSeqOfSubSeq
        <4>3. 1 + 1 - 1 = 1 /\ 1 + (k - 1) - 1 = k - 1
          BY <3>1
        <4> QED
          BY <4>1, <4>2, <4>3, Zenon
      <3> QED
        BY <3>1, <3>2, Zenon DEF Preferred
    <2> QED
      BY <2>1, <2>2, Zenon
  <1> QED
    BY <1>1, <1>2, <1>3, <1>6, <1>7, Zenon DEF Preferred

(* The authority opened on a tree has a head, and it is a message of it.   *)
LEMMA ActiveHeadIn ==
    ASSUME NEW s, NEW g, Tree(s, g)
    PROVE  ActiveHead(s) \in s
  <1>1. PICK P : P = {h \in s : Preferred(s, h)}
    BY Zenon
  <1>2. <<g>> \in P
    <2>1. <<g>> \in s /\ Len(<<g>>) = 1
      BY Zenon DEF Tree
    <2>2. 2 .. Len(<<g>>) = {}
      BY <2>1
    <2> QED
      BY <1>1, <2>1, <2>2, Zenon DEF Preferred
  <1>3. \A h \in P : Len(h) \in 1 .. MaxChain
    BY <1>1, Zenon DEF Tree
  <1>4. PICK N : N = {MaxChain - Len(h) : h \in P}
    BY Zenon
  <1>5. N \subseteq Nat /\ N # {}
    BY <1>2, <1>3, <1>4, LockAssumption DEF LockAssumption
  <1>6. PICK v \in N : \A w \in N : v =< w
    BY <1>5, Smallest, Zenon
  <1>7. PICK h \in P : MaxChain - Len(h) = v
    BY <1>4, Zenon
  <1>8. ChildAUMs(s, h) = {}
    <2> SUFFICES ASSUME ChildAUMs(s, h) # {} PROVE FALSE
      BY Zenon
    <2>1. h \in s /\ Preferred(s, h)
      BY <1>1, Zenon
    <2>2. PICK b \in s : Preferred(s, b) /\ Len(b) = Len(h) + 1
      BY <2>1, PreferredChild, Zenon
    <2>3. b \in P
      BY <1>1, <2>2, Zenon
    <2>4. v =< MaxChain - Len(b)
      BY <1>4, <1>6, <2>3, Zenon
    <2> QED
      BY <1>3, <1>7, <2>2, <2>3, <2>4, LockAssumption DEF LockAssumption
  <1>9. h \in Heads(s) /\ Preferred(s, h)
    BY <1>1, <1>8, Zenon DEF Heads
  <1> QED
    BY <1>9, Zenon DEF ActiveHead, Heads, Preferred

(* A genesis alone is a tree. *)
LEMMA TreeOfOne ==
    ASSUME NEW g \in Geneses
    PROVE  Tree({<<g>>}, g)
  <1>1. g \in Nat /\ MaxChain \in Nat /\ MaxChain >= 1
    BY LockAssumption DEF LockAssumption
  <1>2. <<g>> \in Seq(Nat) /\ Len(<<g>>) = 1 /\ <<g>>[1] = g
    BY <1>1
  <1> QED
    BY <1>1, <1>2 DEF Tree

(* A tree grows by a message whose parent is in it. *)
LEMMA TreeGrows ==
    ASSUME NEW s, NEW g, Tree(s, g), NEW m \in Seq(Nat), Len(m) \in 2 .. MaxChain,
           Parent(m) \in s
    PROVE  Tree(s \cup {m}, g)
  <1>1. m[1] = g /\ Len(m) \in 1 .. MaxChain
    <2>1. Parent(m)[1] = m[1]
      BY ParentOf
    <2> QED
      BY <2>1 DEF Tree
  <1> QED
    BY <1>1, Zenon DEF Tree

(* Trees with a message in common have the same genesis. *)
LEMMA OneGenesis ==
    ASSUME NEW s, NEW g, Tree(s, g)
    PROVE  /\ \A h : <<h>> \in s => h = g
           /\ \A u, h : Tree(u, h) /\ s \cap u # {} => g = h
    BY Zenon DEF Tree

----------------------------------------------------------------------------
(* The requests *)

(* Asking for the mutex keeps the invariant. *)
LEMMA AskStep ==
    ASSUME LockInv, NEW d \in Admins, NEW r, DOMAIN r = ReqFields, Ask(d, r),
           r.pc \notin {"finishing", "sent", "signing"},
           drawn' = IF r.pc = "begin" THEN drawn \cup {r.genesis} ELSE drawn,
           r.pc = "begin" => r.genesis \in Geneses \ drawn,
           r.pc = "finish" => OneEach(r.sigs) /\ feature,
           r.pc = "send" => /\ r.aum \in Seq(Nat) /\ Len(r.aum) \in 2 .. MaxChain
                            /\ Parent(r.aum) \in known[d]
    PROVE  LockInv'
  <1>1. /\ UNCHANGED <<load, feature, tka, aums, rows, used, lock, offer, reg,
                       switching, known, announced, overlapped, torn>>
        /\ req[d].pc = "idle"
    BY Zenon DEF Ask
  <1>2. /\ DOMAIN req' = Admins /\ req'[d] = r
        /\ \A e \in Admins : e # d => req'[e] = req[e]
    BY Zenon DEF Ask, LockInv, Shapes
  <1>3. drawn \subseteq drawn' /\ drawn' \subseteq Geneses
    BY Zenon DEF LockInv, Shapes
  <1>4. Shapes'
    BY <1>1, <1>2, <1>3, Zenon DEF LockInv, Shapes
  <1>5. Mutex'
    BY <1>1, <1>2, Zenon DEF LockInv, Mutex
  <1>6. Draws'
    <2>1. \A g : Fresh(g) => Fresh(g)'
      BY <1>1, <1>3, Zenon DEF Fresh
    <2>2. CASE r.pc # "begin"
      BY <1>1, <1>2, <1>3, <2>1, <2>2 DEF LockInv, Draws
    <2>3. CASE r.pc = "begin"
      <3>1. PICK g : g = r.genesis
        BY Zenon
      <3>2. g \in Geneses /\ g \notin drawn /\ g \in drawn'
        BY <2>3, <3>1, Zenon
      <3>3. tka.ancestor # <<g>>
        BY <3>2, Zenon DEF LockInv, Draws
      <3>4. ASSUME NEW e \in Admins PROVE <<g>> \notin known[e]
        BY <3>2, OneGenesis DEF LockInv, Clients
      <3>5. Fresh(g)'
        BY <1>1, <3>2, <3>3, <3>4, Zenon DEF Fresh
      <3>6. g # tka.pending /\ \A e \in Admins : req[e].pc = "begin" => req[e].genesis # g
        BY <3>2, LockAssumption, Zenon DEF LockInv, Draws, Fresh, LockAssumption
      <3> QED
        BY <1>1, <1>2, <1>3, <2>1, <2>3, <3>1, <3>5, <3>6 DEF LockInv, Draws
    <2> QED
      BY <2>2, <2>3, Zenon
  <1>7. Authority'
    BY <1>1, <1>3, Zenon DEF LockInv, Authority, Root
  <1>8. Clients'
    BY <1>1, <1>2, <1>3, Zenon DEF LockInv, Clients, Root
  <1>9. HeadWritten'
    <2>1. (\A e \in Admins : req'[e].pc # "sent") => (\A e \in Admins : req[e].pc # "sent")
      BY <1>1, <1>2, Zenon
    <2> QED
      BY <1>1, <2>1, Zenon DEF LockInv, HeadWritten
  <1>10. Finishing'
    <2>1. ASSUME NEW x, Finish(x) PROVE Finish(x)'
      BY <1>1, <2>1, Zenon DEF Finish
    <2>2. Finish(r)'
      BY <1>1, Zenon DEF Finish
    <2> QED
      BY <1>1, <1>2, <2>1, <2>2, Zenon DEF LockInv, Finishing
  <1> QED
    BY <1>4, <1>5, <1>6, <1>7, <1>8, <1>9, <1>10, Zenon DEF LockInv

(* What a client that holds messages takes for its head. *)
LEMMA ClientHead ==
    ASSUME LockInv, NEW d \in Admins, known[d] # {}
    PROVE  /\ ActiveHead(known[d]) \in known[d]
           /\ ActiveHead(known[d]) \in Seq(Nat)
           /\ Len(ActiveHead(known[d])) \in 1 .. MaxChain
           /\ \E g \in drawn : Tree(known[d], g) /\ ActiveHead(known[d])[1] = g
  <1>1. PICK g \in drawn : Tree(known[d], g)
    BY Zenon DEF LockInv, Clients
  <1>2. ActiveHead(known[d]) \in known[d]
    BY <1>1, ActiveHeadIn, Zenon
  <1> QED
    BY <1>1, <1>2, Zenon DEF Tree

(* The requests that clients send. *)
LEMMA AskInitBeginStep ==
    ASSUME LockInv, NEW d \in Admins, NEW g \in Geneses, AskInitBegin(d, g)
    PROVE  LockInv'
  <1>1. PICK r : r = [NoRequest EXCEPT !.pc = "begin", !.genesis = g]
    BY Zenon
  <1>2. DOMAIN r = ReqFields /\ r.pc = "begin" /\ r.genesis = g
    BY <1>1, Zenon DEF NoRequest, ReqFields
  <1>3. Ask(d, r) /\ g \notin drawn /\ drawn' = drawn \cup {g}
    BY <1>1, Zenon DEF AskInitBegin
  <1> QED
    BY <1>2, <1>3, AskStep, Zenon

LEMMA AskInitFinishStep ==
    ASSUME LockInv, NEW d \in Admins, AskInitFinish(d)
    PROVE  LockInv'
  <1>1. PICK sigs : sigs = {<<n[1], <<n[2], n[3], offer[d].genesis>>>> : n \in offer[d].nodes}
    BY Zenon
  <1>2. PICK r : r = [NoRequest EXCEPT !.pc = "finish", !.sigs = sigs]
    BY Zenon
  <1>3. DOMAIN r = ReqFields /\ r.pc = "finish" /\ r.sigs = sigs
    BY <1>2, Zenon DEF NoRequest, ReqFields
  <1>4. OneEach(sigs)
    BY <1>1 DEF OneEach, LockInv, Finishing
  <1>5. Ask(d, r) /\ feature /\ drawn' = drawn
    BY <1>1, <1>2, Zenon DEF AskInitFinish
  <1> QED
    BY <1>3, <1>4, <1>5, AskStep, Zenon

LEMMA AskSyncSendStep ==
    ASSUME LockInv, NEW d \in Admins, NEW u \in Updates, AskSyncSend(d, u)
    PROVE  LockInv'
  <1>1. PICK m : m = ActiveHead(known[d])
    BY Zenon
  <1>2. PICK r : r = [NoRequest EXCEPT !.pc = "send", !.aum = Append(m, u)]
    BY Zenon
  <1>3. DOMAIN r = ReqFields /\ r.pc = "send" /\ r.aum = Append(m, u)
    BY <1>2, Zenon DEF NoRequest, ReqFields
  <1>4. Ask(d, r) /\ known[d] # {} /\ Len(m) < MaxChain /\ drawn' = drawn
    BY <1>1, <1>2, Zenon DEF AskSyncSend
  <1>5. m \in known[d] /\ m \in Seq(Nat) /\ Len(m) \in 1 .. MaxChain /\ u \in Nat
    BY <1>1, <1>4, ClientHead, LockAssumption, Zenon DEF LockAssumption
  <1>6. /\ Append(m, u) \in Seq(Nat) /\ Len(Append(m, u)) = Len(m) + 1
        /\ Parent(Append(m, u)) = m
    BY <1>5, ParentOfAppend
  <1>7. Len(Append(m, u)) \in 2 .. MaxChain
    BY <1>4, <1>5, <1>6, LockAssumption DEF LockAssumption
  <1> QED
    BY <1>3, <1>4, <1>5, <1>6, <1>7, AskStep, Zenon

LEMMA AskOthersStep ==
    ASSUME LockInv, NEW d \in Admins,
           AskDisable(d) \/ \E i \in Ids : AskSubmitSignature(d, i)
    PROVE  LockInv'
  <1>1. PICK r : /\ DOMAIN r = ReqFields /\ r.pc \in {"disable", "sign"}
                 /\ Ask(d, r) /\ drawn' = drawn
    <2>1. CASE AskDisable(d)
      <3>1. PICK r : r = [NoRequest EXCEPT !.pc = "disable",
                                           !.genesis = ActiveHead(known[d])[1]]
        BY Zenon
      <3> QED
        BY <2>1, <3>1, Zenon DEF AskDisable, NoRequest, ReqFields
    <2>2. ASSUME NEW i \in Ids, AskSubmitSignature(d, i)
          PROVE  \E r : /\ DOMAIN r = ReqFields /\ r.pc \in {"disable", "sign"}
                        /\ Ask(d, r) /\ drawn' = drawn
      <3>1. PICK sigs : sigs = {<<i, <<rows[i].device, rows[i].key,
                                       ActiveHead(known[d])[1]>>>>}
        BY Zenon
      <3>2. PICK r : r = [NoRequest EXCEPT !.pc = "sign", !.sigs = sigs]
        BY Zenon
      <3>3. Ask(d, r) /\ drawn' = drawn
        BY <2>2, <3>1, <3>2, Zenon DEF AskSubmitSignature
      <3>4. DOMAIN r = ReqFields /\ r.pc = "sign"
        BY <3>2, Zenon DEF NoRequest, ReqFields
      <3> QED
        BY <3>3, <3>4, Zenon
    <2> QED
      BY <2>1, <2>2, Zenon
  <1> QED
    BY <1>1, AskStep, Zenon

----------------------------------------------------------------------------
(* The handlers *)

(* While a handler runs, no other is between two of its statements. *)
LEMMA Alone ==
    ASSUME LockInv, NEW d \in Admins, lock \in {NoOne, d}
    PROVE  \A e \in Admins : /\ e # d => req[e].pc \notin {"finishing", "sent", "signing"}
                             /\ lock = NoOne => req[e].pc \notin {"finishing", "sent", "signing"}
  BY LockAssumption, Zenon DEF LockInv, Mutex, LockAssumption

(* After the answer the mutex is free and no handler is under way. *)
LEMMA Answered ==
    ASSUME LockInv, NEW d \in Admins, lock \in {NoOne, d}, Answer(d)
    PROVE  /\ DOMAIN req' = Admins /\ req'[d] = NoRequest /\ DOMAIN req'[d] = ReqFields
           /\ req'[d].pc = "idle"
           /\ \A e \in Admins : e # d => req'[e] = req[e]
           /\ \A e \in Admins : req'[e].pc \notin {"finishing", "sent", "signing"}
           /\ \A e \in Admins : DOMAIN req'[e] = ReqFields
           /\ Mutex'
  <1>1. /\ DOMAIN req' = Admins /\ req'[d] = NoRequest
        /\ \A e \in Admins : e # d => req'[e] = req[e]
    BY Zenon DEF Answer, LockInv, Shapes
  <1>2. DOMAIN NoRequest = ReqFields /\ NoRequest.pc = "idle"
    BY Zenon DEF NoRequest, ReqFields
  <1>3. \A e \in Admins : req'[e].pc \notin {"finishing", "sent", "signing"}
    BY <1>1, <1>2, Alone, Zenon
  <1>4. \A e \in Admins : DOMAIN req'[e] = ReqFields
    BY <1>1, <1>2, Zenon DEF LockInv, Shapes
  <1> QED
    BY <1>1, <1>2, <1>3, <1>4, Zenon DEF Mutex

(* A handler that is done leaves to the others what it has not changed: a  *)
(* request that is idle or has not got the mutex asks for little.          *)
LEMMA Waiting ==
    ASSUME NEW r, Finish(r), r.pc \notin {"finishing", "signing"},
           feature \/ overlapped => (feature \/ overlapped)'
    PROVE  Finish(r)'
  BY Zenon DEF Finish

LEMMA AnsweredFinishing ==
    ASSUME LockInv, NEW d \in Admins, lock \in {NoOne, d}, Answer(d),
           feature \/ overlapped => (feature \/ overlapped)',
           \A e \in Admins : OneEach(offer'[e].nodes)
    PROVE  Finishing'
  <1>1. /\ req'[d] = NoRequest /\ \A e \in Admins : e # d => req'[e] = req[e]
    BY Answered, Zenon
  <1>2. Finish(NoRequest)'
    BY Zenon DEF Finish, NoRequest
  <1>3. ASSUME NEW e \in Admins, e # d PROVE Finish(req[e])'
    <2>1. PICK r : r = req[e]
      BY Zenon
    <2>2. Finish(r)
      BY <2>1, Zenon DEF LockInv, Finishing
    <2>3. r.pc \notin {"finishing", "signing"}
      BY <1>3, <2>1, Alone, Zenon
    <2>4. Finish(r)'
      BY <2>2, <2>3, Waiting, Zenon
    <2>5. r = req'[e]
      BY <1>1, <1>3, <2>1, Zenon
    <2> QED
      BY <2>4, <2>5, Zenon
  <1>4. Finish(req[d])'
    BY <1>1, <1>2, Zenon
  <1> QED
    BY <1>3, <1>4, Zenon DEF Finishing

(* The handler refuses, or a statement of the database failed. *)
LEMMA RefuseStep ==
    ASSUME LockInv, NEW d \in Admins, lock \in {NoOne, d}, Refuse(d), Others,
           UNCHANGED overlapped, torn' = (torn \/ req[d].pc = "sent")
    PROVE  LockInv'
  <1>1. UNCHANGED <<load, feature, tka, aums, rows, used, offer, reg, switching, known,
                    announced, drawn, overlapped>> /\ Answer(d)
    BY Zenon DEF Refuse, Others
  <1>2. /\ DOMAIN req' = Admins /\ req'[d] = NoRequest /\ req'[d].pc = "idle"
        /\ \A e \in Admins : e # d => req'[e] = req[e]
        /\ \A e \in Admins : req'[e].pc \notin {"finishing", "sent", "signing"}
        /\ \A e \in Admins : DOMAIN req'[e] = ReqFields
        /\ Mutex'
    BY <1>1, Answered, Zenon
  <1>3. Shapes'
    BY <1>1, <1>2, Zenon DEF LockInv, Shapes
  <1>4. Draws'
    BY <1>1, <1>2 DEF LockInv, Draws, Fresh
  <1>5. Authority'
    BY <1>1 DEF LockInv, Authority, Root
  <1>6. Clients'
    BY <1>1, <1>2, Zenon DEF LockInv, Clients, Root
  <1>7. HeadWritten'
    <2>1. torn' \/ \A e \in Admins : req[e].pc # "sent"
      BY Alone, Zenon
    <2>2. torn => torn'
      BY Zenon DEF LockInv, Shapes
    <2> QED
      BY <1>1, <2>1, <2>2, Zenon DEF LockInv, HeadWritten
  <1>8. Finishing'
    <2>1. \A e \in Admins : OneEach(offer'[e].nodes)
      BY <1>1, Zenon DEF LockInv, Finishing
    <2> QED
      BY <1>1, <2>1, AnsweredFinishing
  <1> QED
    BY <1>2, <1>3, <1>4, <1>5, <1>6, <1>7, <1>8, Zenon DEF LockInv

(* The first half of the initialization makes a fresh genesis pending. *)
LEMMA InitBeginStep ==
    ASSUME LockInv, NEW d \in Admins, InitBegin(d)
    PROVE  LockInv'
  <1>1. /\ lock = NoOne /\ req[d].pc = "begin" /\ Others
        /\ UNCHANGED <<overlapped, torn>>
    BY Zenon DEF InitBegin
  <1>2. CASE tka.enabled
    <2>1. Refuse(d)
      BY <1>2, Zenon DEF InitBegin
    <2>2. torn' = (torn \/ req[d].pc = "sent")
      BY <1>1, Zenon DEF LockInv, Shapes
    <2> QED
      BY <1>1, <2>1, <2>2, RefuseStep, Zenon
  <1>3. CASE ~tka.enabled
    <2>1. PICK g : g = req[d].genesis
      BY Zenon
    <2>2. PICK o : o = [genesis |-> g, nodes |-> {<<i, rows[i].device, rows[i].key>> : i \in Live}]
      BY Zenon
    <2>3. /\ tka' = [tka EXCEPT !.pending = g]
          /\ offer' = [offer EXCEPT ![d] = o]
          /\ Answer(d)
          /\ UNCHANGED <<aums, rows, known, announced>>
      BY <1>3, <2>1, <2>2, Zenon DEF InitBegin
    <2>4. UNCHANGED <<load, feature, used, reg, switching, drawn>>
      BY <1>1, Zenon DEF Others
    <2>5. /\ DOMAIN req' = Admins /\ req'[d].pc = "idle"
          /\ \A e \in Admins : e # d => req'[e] = req[e]
          /\ \A e \in Admins : req'[e].pc \notin {"finishing", "sent", "signing"}
          /\ \A e \in Admins : DOMAIN req'[e] = ReqFields
          /\ Mutex'
      BY <1>1, <2>3, Answered, Zenon
    <2>6. /\ DOMAIN tka' = TkaFields /\ tka'.enabled = tka.enabled
          /\ tka'.disabled = tka.disabled /\ tka'.ancestor = tka.ancestor
          /\ tka'.head = tka.head /\ tka'.pending = g
      BY <2>3, Zenon DEF LockInv, Shapes, TkaFields
    <2>7. Shapes'
      BY <1>1, <2>3, <2>4, <2>5, <2>6, Zenon DEF LockInv, Shapes
    <2>8. Draws'
      <3>1. \A h : Fresh(h) => Fresh(h)'
        BY <2>3, <2>4, <2>6, Zenon DEF Fresh
      <3> QED
        BY <1>1, <2>1, <2>4, <2>5, <2>6, <3>1 DEF LockInv, Draws
    <2>9. Authority'
      BY <1>3, <2>6, Zenon DEF Authority
    <2>10. Clients'
      BY <1>3, <2>3, <2>4, <2>5, <2>6, Zenon DEF LockInv, Clients
    <2>11. HeadWritten'
      BY <1>3, <2>3, <2>6, Zenon DEF LockInv, HeadWritten, Advert
    <2>12. Finishing'
      <3>1. OneEach(o.nodes)
        BY <2>2 DEF OneEach
      <3>2. \A e \in Admins : OneEach(offer'[e].nodes)
        BY <2>3, <3>1, Zenon DEF LockInv, Finishing, Shapes
      <3> QED
        BY <1>1, <2>3, <2>4, <3>2, AnsweredFinishing, Zenon
    <2> QED
      BY <2>5, <2>7, <2>8, <2>9, <2>10, <2>11, <2>12, Zenon DEF LockInv
  <1> QED
    BY <1>2, <1>3, Zenon

(* A handler that goes on with the mutex, its own request apart, changes   *)
(* no other request.                                                       *)
LEMMA TakenMutex ==
    ASSUME LockInv, NEW d \in Admins, lock = NoOne, lock' = d,
           DOMAIN req' = Admins, DOMAIN req'[d] = ReqFields,
           \A e \in Admins : e # d => req'[e] = req[e],
           feature \/ overlapped => (feature \/ overlapped)',
           UNCHANGED offer, Finish(req[d])'
    PROVE  /\ \A e \in Admins : DOMAIN req'[e] = ReqFields
           /\ Mutex' /\ Finishing'
  <1>1. \A e \in Admins : req[e].pc \notin {"finishing", "sent", "signing"}
    BY Alone, Zenon
  <1>2. Mutex'
    BY <1>1, Zenon DEF Mutex
  <1>3. ASSUME NEW e \in Admins, e # d PROVE Finish(req[e])'
    <2>1. PICK r : r = req[e]
      BY Zenon
    <2>2. Finish(r) /\ r.pc \notin {"finishing", "signing"} /\ r = req'[e]
      BY <1>1, <1>3, <2>1, Zenon DEF LockInv, Finishing
    <2>3. Finish(r)'
      BY <2>2, Waiting, Zenon
    <2> QED
      BY <2>2, <2>3, Zenon
  <1>4. \A e \in Admins : OneEach(offer'[e].nodes)
    BY Zenon DEF LockInv, Finishing
  <1> QED
    BY <1>2, <1>3, <1>4, Zenon DEF Finishing, LockInv, Shapes

(* InitFinish goes on when every machine it lists has its signature. *)
LEMMA InitFinishStep ==
    ASSUME LockInv, NEW d \in Admins, InitFinish(d)
    PROVE  LockInv'
  <1>1. /\ lock = NoOne /\ req[d].pc = "finish" /\ Others
        /\ UNCHANGED <<overlapped, torn>>
    BY Zenon DEF InitFinish
  <1>2. CASE Refuse(d)
    <2>1. torn' = (torn \/ req[d].pc = "sent")
      BY <1>1, Zenon DEF LockInv, Shapes
    <2> QED
      BY <1>1, <1>2, <2>1, RefuseStep, Zenon
  <1>3. CASE ~Refuse(d)
    <2>1. /\ ~tka.enabled /\ tka.pending # NoGenesis
          /\ \A i \in Live : Signed(i, req[d].sigs)
          /\ lock' = d
          /\ req' = [req EXCEPT ![d].pc = "finishing", ![d].listed = rows]
          /\ UNCHANGED <<tka, aums, rows, offer, known, announced>>
      BY <1>3, Zenon DEF InitFinish
    <2>2. UNCHANGED <<load, feature, used, reg, switching, drawn>>
      BY <1>1, Zenon DEF Others
    <2>3. PICK r : r = req'[d]
      BY Zenon
    <2>4. /\ DOMAIN req' = Admins /\ DOMAIN r = ReqFields
          /\ r.pc = "finishing" /\ r.listed = rows /\ r.sigs = req[d].sigs
          /\ \A e \in Admins : e # d => req'[e] = req[e]
      BY <2>1, <2>3, Zenon DEF LockInv, Shapes, ReqFields
    <2>5. OneEach(r.sigs) /\ (feature \/ overlapped)
      BY <1>1, <2>4, Zenon DEF LockInv, Finishing, Finish
    <2>6. Finish(r)'
      <3>1. ASSUME NEW i \in Ids, rows[i] # NoRow
            PROVE  /\ DOMAIN rows[i] = RowFields
                   /\ \E s \in r.sigs : s[1] = i /\ s[2] = <<rows[i].device, rows[i].key, tka.pending>>
        BY <2>1, <2>4, <3>1, ZenonT(30) DEF Live, Signed, NodeKeyAuthorized, LockInv, Shapes
      <3> QED
        BY <1>1, <2>1, <2>2, <2>4, <2>5, <3>1, Zenon DEF Finish
    <2>7. (\A e \in Admins : DOMAIN req'[e] = ReqFields) /\ Mutex' /\ Finishing'
      BY <1>1, <2>1, <2>2, <2>3, <2>4, <2>6, TakenMutex, Zenon
    <2>8. Shapes'
      BY <1>1, <2>1, <2>2, <2>4, <2>7, Zenon DEF LockInv, Shapes
    <2>9. Draws'
      BY <2>1, <2>2, <2>3, <2>4 DEF LockInv, Draws, Fresh
    <2>10. Authority'
      BY <2>1, Zenon DEF Authority
    <2>11. Clients'
      BY <2>1, <2>2, <2>3, <2>4, Zenon DEF LockInv, Clients
    <2>12. HeadWritten'
      BY <2>1, Zenon DEF LockInv, HeadWritten
    <2> QED
      BY <2>7, <2>8, <2>9, <2>10, <2>11, <2>12, Zenon DEF LockInv
  <1> QED
    BY <1>2, <1>3, Zenon

(* The transaction: the genesis that was pending becomes the authority. *)
LEMMA InitFinishCommitStep ==
    ASSUME LockInv, NEW d \in Admins, InitFinishCommit(d)
    PROVE  LockInv'
  <1>1. PICK g : g = tka.pending
    BY Zenon
  <1>2. PICK r : r = req[d]
    BY Zenon
  <1>3. /\ lock = d /\ r.pc = "finishing" /\ Answer(d)
        /\ aums' = {<<g>>}
        /\ known' = [known EXCEPT ![d] = {<<g>>}]
        /\ announced' = Advert(tka')
        /\ overlapped' = (overlapped \/ switching.disable)
        /\ UNCHANGED <<load, feature, used, reg, switching, drawn, offer, torn>>
    BY <1>1, <1>2, Zenon DEF InitFinishCommit, GoLive, CommitVerifiedAUMs, Others
  <1>4. /\ tka' = [NoState EXCEPT !.enabled = TRUE, !.head = ActiveHead(aums'),
                                  !.ancestor = <<g>>, !.pending = NoGenesis]
    BY <1>1, Zenon DEF InitFinishCommit, GoLive
  <1>5. rows' = [i \in Ids |->
                   IF r.listed[i] # NoRow
                   THEN [r.listed[i] EXCEPT !.sig = SigFor(i, r.sigs)]
                   ELSE rows[i]]
    BY <1>2, Zenon DEF InitFinishCommit, GoLive
  <1>6. /\ DOMAIN tka' = TkaFields /\ tka'.enabled = TRUE /\ tka'.disabled = FALSE
        /\ tka'.ancestor = <<g>> /\ tka'.pending = NoGenesis
        /\ tka'.head = ActiveHead(aums') /\ Root' = g
    BY <1>4, Zenon DEF NoState, TkaFields, Root
  <1>7. /\ DOMAIN req' = Admins /\ req'[d].pc = "idle"
        /\ \A e \in Admins : e # d => req'[e] = req[e]
        /\ \A e \in Admins : req'[e].pc \notin {"finishing", "sent", "signing"}
        /\ \A e \in Admins : DOMAIN req'[e] = ReqFields
        /\ Mutex'
    BY <1>3, Answered, Zenon
  <1>8. Finish(r) /\ tka.pending # NoGenesis
    BY <1>2, <1>3, Zenon DEF LockInv, Finishing, Finish
  <1>9. Fresh(g) /\ g \in drawn /\ g \in Geneses
    BY <1>1, <1>8, Zenon DEF LockInv, Draws, Fresh, Shapes
  <1>10. /\ DOMAIN known' = Admins /\ known'[d] = {<<g>>}
         /\ \A e \in Admins : e # d => known'[e] = known[e]
    BY <1>3, Zenon DEF LockInv, Shapes
  <1>11. Tree({<<g>>}, g)
    BY <1>9, TreeOfOne, Zenon
  <1>12. Shapes'
    <2>1. ASSUME NEW i \in Ids PROVE rows'[i] # NoRow => DOMAIN rows'[i] = RowFields
      BY <1>3, <1>5, <1>8, Zenon DEF Finish, LockInv, Shapes
    <2>2. overlapped' \in BOOLEAN
      BY <1>3, Zenon DEF LockInv, Shapes
    <2> QED
      <3>1. DOMAIN rows' = Ids
        BY <1>5, Zenon
      <3>2. /\ load' \in Loads /\ feature' \in BOOLEAN /\ BusyOK(switching')
            /\ torn' \in BOOLEAN /\ drawn' \subseteq Geneses /\ DOMAIN offer' = Admins
            /\ reg' # NoReg => DOMAIN reg'.copy = RowFields
        BY <1>3, Zenon DEF LockInv, Shapes
      <3> QED
        BY <1>6, <1>7, <1>10, <2>1, <2>2, <3>1, <3>2, Zenon DEF Shapes
  <1>13. Draws'
    <2>1. ASSUME NEW h, Fresh(h), h # g PROVE Fresh(h)'
      BY <1>3, <1>6, <1>10, <2>1 DEF Fresh
    <2> QED
      <3>1. ASSUME NEW e \in Admins, req'[e].pc = "begin"
            PROVE  /\ e # d /\ Fresh(req[e].genesis)' /\ req'[e].genesis # NoGenesis
                   /\ \A f \in Admins : req'[f].pc = "begin" /\ f # e
                                           => req'[f].genesis # req'[e].genesis
        <4>1. e # d /\ req'[e] = req[e] /\ Fresh(req[e].genesis) /\ req[e].genesis # g
          BY <1>1, <1>7, <3>1, Zenon DEF LockInv, Draws
        <4>2. PICK x : x = req[e].genesis
          BY Zenon
        <4>3. Fresh(x)' /\ x \in Geneses
          BY <2>1, <4>1, <4>2, Zenon DEF Fresh, LockInv, Shapes
        <4>4. req'[e].genesis = x
          BY <4>1, <4>2, Zenon
        <4>5. \A f \in Admins : req'[f].pc = "begin" /\ f # e => req'[f].genesis # x
          BY <1>7, <3>1, <4>1, <4>2 DEF LockInv, Draws
        <4> QED
          BY <4>1, <4>3, <4>4, <4>5, LockAssumption, Zenon DEF LockAssumption
      <3> QED
        BY <1>3, <1>6, <1>9, <3>1 DEF Draws
  <1>14. (feature \/ overlapped)' /\ (switching.disable => overlapped)'
    BY <1>3, <1>8, Zenon DEF Finish, LockInv, Shapes
  <1>15. ActiveHead(aums') \in aums'
    BY <1>3, <1>11, ActiveHeadIn, Zenon
  <1>16. Authority'
    BY <1>3, <1>6, <1>9, <1>11, <1>14, <1>15, Zenon DEF Authority
  <1>17. Clients'
    BY <1>3, <1>6, <1>7, <1>9, <1>10, <1>11, Zenon DEF LockInv, Clients, Fresh
  <1>18. HeadWritten'
    BY <1>3, <1>6, Zenon DEF HeadWritten
  <1>19. Finishing'
    BY <1>3, <1>14, AnsweredFinishing, Zenon DEF LockInv, Finishing
  <1> QED
    BY <1>7, <1>12, <1>13, <1>16, <1>17, <1>18, <1>19, Zenon DEF LockInv

(* Inform stores a message on top of one that is stored. *)
LEMMA SyncSendStep ==
    ASSUME LockInv, NEW d \in Admins, SyncSend(d)
    PROVE  LockInv'
  <1>1. /\ lock = NoOne /\ req[d].pc = "send" /\ Others
        /\ UNCHANGED <<overlapped, torn>>
    BY Zenon DEF SyncSend
  <1>2. CASE Refuse(d)
    <2>1. torn' = (torn \/ req[d].pc = "sent")
      BY <1>1, Zenon DEF LockInv, Shapes
    <2> QED
      BY <1>1, <1>2, <2>1, RefuseStep, Zenon
  <1>3. CASE ~Refuse(d)
    <2>1. PICK m : m = req[d].aum
      BY Zenon
    <2>2. /\ CanOpen /\ (m \in aums \/ Parent(m) \in aums)
          /\ aums' = aums \cup {m}
          /\ lock' = d
          /\ req' = [req EXCEPT ![d].pc = "sent"]
          /\ UNCHANGED <<tka, rows, offer, known, announced>>
      BY <1>3, <2>1, Zenon DEF SyncSend, CommitVerifiedAUMs
    <2>3. UNCHANGED <<load, feature, used, reg, switching, drawn>>
      BY <1>1, Zenon DEF Others
    <2>4. PICK r : r = req'[d]
      BY Zenon
    <2>5. /\ DOMAIN req' = Admins /\ DOMAIN r = ReqFields
          /\ r.pc = "sent" /\ r.aum = m
          /\ \A e \in Admins : e # d => req'[e] = req[e]
      BY <2>1, <2>2, <2>4, Zenon DEF LockInv, Shapes, ReqFields
    <2>6. Finish(r)'
      BY <2>5, Zenon DEF Finish
    <2>7. (\A e \in Admins : DOMAIN req'[e] = ReqFields) /\ Mutex' /\ Finishing'
      BY <1>1, <2>2, <2>3, <2>4, <2>5, <2>6, TakenMutex, Zenon
    <2>8. Shapes'
      BY <1>1, <2>2, <2>3, <2>5, <2>7, Zenon DEF LockInv, Shapes
    <2>9. Draws'
      BY <2>2, <2>3, <2>4, <2>5 DEF LockInv, Draws, Fresh
    <2>10. m \in Seq(Nat) /\ Len(m) \in 2 .. MaxChain /\ Parent(m) \in known[d]
      BY <1>1, <2>1, Zenon DEF LockInv, Clients
    <2>11. tka.enabled /\ Tree(aums, Root)
      BY <2>2, Zenon DEF CanOpen, LockInv, Authority
    <2>12. Tree(aums', Root)
      <3>1. CASE m \in aums
        <4>1. aums' = aums
          BY <2>2, <3>1, Zenon
        <4> QED
          BY <2>11, <4>1, Zenon
      <3>2. CASE Parent(m) \in aums
        BY <2>2, <2>10, <2>11, <3>2, TreeGrows, Zenon
      <3> QED
        BY <2>2, <3>1, <3>2, Zenon
    <2>13. Authority'
      BY <1>1, <2>2, <2>3, <2>12, Zenon DEF LockInv, Authority, Root
    <2>14. Clients'
      <3>1. Root' = Root /\ aums \subseteq aums' /\ m \in aums'
        BY <2>2, Zenon DEF Root
      <3>2. ASSUME NEW e \in Admins
            PROVE  /\ known'[e] = {} \/ \E g \in drawn' : Tree(known'[e], g)
                   /\ tka'.enabled /\ <<Root'>> \in known'[e] => known'[e] \subseteq aums'
        <4>1. /\ known[e] = {} \/ \E g \in drawn : Tree(known[e], g)
              /\ tka.enabled /\ <<Root>> \in known[e] => known[e] \subseteq aums
          BY Zenon DEF LockInv, Clients
        <4> QED
          BY <2>2, <2>3, <3>1, <4>1, Zenon
      <3>3. ASSUME NEW e \in Admins, e # d
            PROVE  /\ req'[e].pc \in {"send", "sent"} =>
                         /\ req'[e].aum \in Seq(Nat) /\ Len(req'[e].aum) \in 2 .. MaxChain
                         /\ Parent(req'[e].aum) \in known'[e]
                   /\ req'[e].pc = "sent" => req'[e].aum \in aums'
        <4>1. req'[e] = req[e] /\ known' = known
          BY <2>2, <2>5, <3>3, Zenon
        <4> QED
          BY <3>1, <4>1, Zenon DEF LockInv, Clients
      <3>4. /\ req'[d].aum \in Seq(Nat) /\ Len(req'[d].aum) \in 2 .. MaxChain
            /\ Parent(req'[d].aum) \in known'[d] /\ req'[d].aum \in aums'
        BY <2>2, <2>4, <2>5, <2>10, <3>1, Zenon
      <3> QED
        BY <3>2, <3>3, <3>4, Zenon DEF Clients
    <2>15. HeadWritten'
      BY <2>2, <2>4, <2>5, Zenon DEF LockInv, HeadWritten
    <2> QED
      BY <2>7, <2>8, <2>9, <2>13, <2>14, <2>15, Zenon DEF LockInv
  <1> QED
    BY <1>2, <1>3, Zenon

(* The second statement of SyncSend writes the head of what is stored. *)
LEMMA SyncSendHeadStep ==
    ASSUME LockInv, NEW d \in Admins, SyncSendHead(d)
    PROVE  LockInv'
  <1>1. PICK m : m = req[d].aum
    BY Zenon
  <1>2. /\ lock = d /\ req[d].pc = "sent" /\ Answer(d)
        /\ tka' = [tka EXCEPT !.head = ActiveHead(aums)]
        /\ known' = [known EXCEPT ![d] = known[d] \cup {m}]
        /\ announced' = Advert(tka')
        /\ torn' = FALSE
        /\ UNCHANGED <<aums, rows, offer, overlapped>>
        /\ UNCHANGED <<load, feature, used, reg, switching, drawn>>
    BY <1>1, Zenon DEF SyncSendHead, Others
  <1>3. /\ DOMAIN tka' = TkaFields /\ tka'.enabled = tka.enabled
        /\ tka'.disabled = tka.disabled /\ tka'.ancestor = tka.ancestor
        /\ tka'.pending = tka.pending /\ tka'.head = ActiveHead(aums) /\ Root' = Root
    BY <1>2, Zenon DEF LockInv, Shapes, TkaFields, Root
  <1>4. /\ DOMAIN req' = Admins /\ req'[d].pc = "idle"
        /\ \A e \in Admins : e # d => req'[e] = req[e]
        /\ \A e \in Admins : req'[e].pc \notin {"finishing", "sent", "signing"}
        /\ \A e \in Admins : DOMAIN req'[e] = ReqFields
        /\ Mutex'
    BY <1>2, Answered, Zenon
  <1>5. /\ DOMAIN known' = Admins /\ known'[d] = known[d] \cup {m}
        /\ \A e \in Admins : e # d => known'[e] = known[e]
    BY <1>2, Zenon DEF LockInv, Shapes
  <1>6. /\ m \in Seq(Nat) /\ Len(m) \in 2 .. MaxChain /\ Parent(m) \in known[d]
        /\ m \in aums /\ \A g : m # <<g>>
    <2>1. /\ m \in Seq(Nat) /\ Len(m) \in 2 .. MaxChain /\ Parent(m) \in known[d]
          /\ m \in aums
      BY <1>1, <1>2, Zenon DEF LockInv, Clients
    <2>2. ASSUME NEW g, m = <<g>> PROVE FALSE
      <3>1. Len(m) = 1
        BY <2>2, Zenon
      <3> QED
        BY <2>1, <3>1
    <2> QED
      BY <2>1, <2>2, Zenon
  <1>7. Shapes'
    BY <1>2, <1>3, <1>4, <1>5, Zenon DEF LockInv, Shapes
  <1>8. Draws'
    <2>1. \A h : Fresh(h) => Fresh(h)'
      BY <1>2, <1>3, <1>5, <1>6, Zenon DEF Fresh
    <2> QED
      BY <1>2, <1>3, <1>4, <2>1 DEF LockInv, Draws
  <1>9. Authority'
    <2>1. tka.enabled => ActiveHead(aums) \in aums
      BY ActiveHeadIn, Zenon DEF LockInv, Authority
    <2> QED
      BY <1>2, <1>3, <2>1 DEF LockInv, Authority
  <1>10. Clients'
    <2>1. \E g \in drawn : Tree(known[d] \cup {m}, g)
      <3>1. PICK g \in drawn : Tree(known[d], g)
        BY <1>6, Zenon DEF LockInv, Clients
      <3> QED
        BY <1>6, <3>1, TreeGrows, Zenon
    <2> QED
      BY <1>2, <1>3, <1>4, <1>5, <1>6, <2>1, Zenon DEF LockInv, Clients
  <1>11. HeadWritten'
    BY <1>2, <1>3, Zenon DEF HeadWritten
  <1>12. Finishing'
    BY <1>2, AnsweredFinishing, Zenon DEF LockInv, Finishing
  <1> QED
    BY <1>4, <1>7, <1>8, <1>9, <1>10, <1>11, <1>12, Zenon DEF LockInv

(* Disable leaves the messages and the genesis, and nothing pending. *)
LEMMA DisableStep ==
    ASSUME LockInv, NEW d \in Admins, Disable(d)
    PROVE  LockInv'
  <1>1. /\ lock = NoOne /\ req[d].pc = "disable" /\ Others
        /\ UNCHANGED <<overlapped, torn>>
    BY Zenon DEF Disable
  <1>2. CASE Refuse(d)
    <2>1. torn' = (torn \/ req[d].pc = "sent")
      BY <1>1, Zenon DEF LockInv, Shapes
    <2> QED
      BY <1>1, <1>2, <2>1, RefuseStep, Zenon
  <1>3. CASE ~Refuse(d)
    <2>1. /\ tka' = [tka EXCEPT !.enabled = FALSE, !.disabled = TRUE,
                                !.secret = req[d].genesis]
          /\ announced' = Advert(tka')
          /\ Answer(d)
          /\ UNCHANGED <<aums, rows, offer, known>>
      BY <1>3, Zenon DEF Disable
    <2>2. UNCHANGED <<load, feature, used, reg, switching, drawn>>
      BY <1>1, Zenon DEF Others
    <2>3. /\ DOMAIN tka' = TkaFields /\ tka'.enabled = FALSE
          /\ tka'.disabled = TRUE /\ tka'.ancestor = tka.ancestor
          /\ tka'.pending = tka.pending
      BY <2>1, Zenon DEF LockInv, Shapes, TkaFields
    <2>4. /\ DOMAIN req' = Admins /\ req'[d].pc = "idle"
          /\ \A e \in Admins : e # d => req'[e] = req[e]
          /\ \A e \in Admins : req'[e].pc \notin {"finishing", "sent", "signing"}
          /\ \A e \in Admins : DOMAIN req'[e] = ReqFields
          /\ Mutex'
      BY <1>1, <2>1, Answered, Zenon
    <2>5. Shapes'
      BY <1>1, <2>1, <2>2, <2>3, <2>4, Zenon DEF LockInv, Shapes
    <2>6. Draws'
      <3>1. \A h : Fresh(h) => Fresh(h)'
        BY <2>1, <2>2, <2>3, Zenon DEF Fresh
      <3> QED
        BY <2>2, <2>3, <2>4, <3>1 DEF LockInv, Draws
    <2>7. Authority'
      BY <2>3, Zenon DEF Authority
    <2>8. Clients'
      BY <2>1, <2>2, <2>3, <2>4, Zenon DEF LockInv, Clients
    <2>9. HeadWritten'
      BY <2>1, <2>3, Zenon DEF HeadWritten
    <2>10. Finishing'
      BY <1>1, <2>1, <2>2, AnsweredFinishing, Zenon DEF LockInv, Finishing
    <2> QED
      BY <2>4, <2>5, <2>6, <2>7, <2>8, <2>9, <2>10, Zenon DEF LockInv
  <1> QED
    BY <1>2, <1>3, Zenon

(* SubmitSignature keeps a copy of the machine it found. *)
LEMMA SubmitSignatureStep ==
    ASSUME LockInv, NEW d \in Admins, SubmitSignature(d)
    PROVE  LockInv'
  <1>1. /\ lock = NoOne /\ req[d].pc = "sign" /\ Others
        /\ UNCHANGED <<overlapped, torn>>
    BY Zenon DEF SubmitSignature
  <1>2. CASE Refuse(d)
    <2>1. torn' = (torn \/ req[d].pc = "sent")
      BY <1>1, Zenon DEF LockInv, Shapes
    <2> QED
      BY <1>1, <1>2, <2>1, RefuseStep, Zenon
  <1>3. CASE ~Refuse(d)
    <2>1. PICK i \in Live :
            /\ lock' = d
            /\ req' = [req EXCEPT ![d].pc = "signing", ![d].id = i, ![d].listed = rows]
            /\ UNCHANGED <<tka, aums, rows, offer, known, announced>>
      BY <1>3, Zenon DEF SubmitSignature, Targets
    <2>2. UNCHANGED <<load, feature, used, reg, switching, drawn>>
      BY <1>1, Zenon DEF Others
    <2>3. PICK r : r = req'[d]
      BY Zenon
    <2>4. /\ DOMAIN req' = Admins /\ DOMAIN r = ReqFields
          /\ r.pc = "signing" /\ r.listed = rows /\ r.id = i
          /\ \A e \in Admins : e # d => req'[e] = req[e]
      BY <2>1, <2>3, Zenon DEF LockInv, Shapes, ReqFields
    <2>5. Finish(r)'
      <3>1. DOMAIN rows[i] = RowFields
        BY <2>1, Zenon DEF Live, LockInv, Shapes
      <3> QED
        BY <2>4, <3>1, Zenon DEF Finish
    <2>6. (\A e \in Admins : DOMAIN req'[e] = ReqFields) /\ Mutex' /\ Finishing'
      BY <1>1, <2>1, <2>2, <2>3, <2>4, <2>5, TakenMutex, Zenon
    <2>7. Shapes'
      BY <1>1, <2>1, <2>2, <2>4, <2>6, Zenon DEF LockInv, Shapes
    <2>8. Draws'
      BY <2>1, <2>2, <2>3, <2>4 DEF LockInv, Draws, Fresh
    <2>9. Authority'
      BY <1>1, <2>1, <2>2, Zenon DEF LockInv, Authority, Root
    <2>10. Clients'
      BY <2>1, <2>2, <2>3, <2>4 DEF LockInv, Clients, Root
    <2>11. HeadWritten'
      <3>1. \A e \in Admins : req[e].pc # "sent"
        BY <1>1, Alone, Zenon
      <3> QED
        BY <1>1, <2>1, <3>1, Zenon DEF LockInv, HeadWritten
    <2> QED
      BY <2>6, <2>7, <2>8, <2>9, <2>10, <2>11, Zenon DEF LockInv
  <1> QED
    BY <1>2, <1>3, Zenon

(* It saves the copy with the signature. *)
LEMMA SubmitSignatureSaveStep ==
    ASSUME LockInv, NEW d \in Admins, SubmitSignatureSave(d)
    PROVE  LockInv'
  <1>1. PICK i, row : i = req[d].id /\ row = [req[d].listed[i] EXCEPT !.sig = TheSig(d)]
    BY Zenon
  <1>2. /\ lock = d /\ req[d].pc = "signing" /\ Answer(d)
        /\ rows' = [rows EXCEPT ![i] = row]
        /\ announced' = Advert(tka)
        /\ UNCHANGED <<tka, aums, offer, known, overlapped, torn>>
        /\ UNCHANGED <<load, feature, used, reg, switching, drawn>>
    BY <1>1, Zenon DEF SubmitSignatureSave, SaveSignature, Others
  <1>3. DOMAIN row = RowFields
    BY <1>1, <1>2, Zenon DEF LockInv, Finishing, Finish
  <1>4. /\ DOMAIN req' = Admins /\ req'[d].pc = "idle"
        /\ \A e \in Admins : e # d => req'[e] = req[e]
        /\ \A e \in Admins : req'[e].pc \notin {"finishing", "sent", "signing"}
        /\ \A e \in Admins : DOMAIN req'[e] = ReqFields
        /\ Mutex'
    BY <1>2, Answered, Zenon
  <1>5. Shapes'
    BY <1>2, <1>3, <1>4, Zenon DEF LockInv, Shapes
  <1>6. Draws'
    BY <1>2, <1>4 DEF LockInv, Draws, Fresh
  <1>7. Authority'
    BY <1>2, Zenon DEF LockInv, Authority, Root
  <1>8. Clients'
    BY <1>2, <1>4, Zenon DEF LockInv, Clients, Root
  <1>9. HeadWritten'
    <2>1. \A e \in Admins : req[e].pc # "sent"
      BY <1>2, Alone, Zenon
    <2> QED
      BY <1>2, <2>1, Zenon DEF LockInv, HeadWritten
  <1>10. Finishing'
    BY <1>2, AnsweredFinishing, Zenon DEF LockInv, Finishing
  <1> QED
    BY <1>4, <1>5, <1>6, <1>7, <1>8, <1>9, <1>10, Zenon DEF LockInv

(* A statement of the database failed. *)
LEMMA DatabaseFailsStep ==
    ASSUME LockInv, NEW d \in Admins, DatabaseFails(d)
    PROVE  LockInv'
  BY RefuseStep, Zenon DEF DatabaseFails

----------------------------------------------------------------------------
(* What clients learn *)

(* A client drops its messages, or learns messages of the authority that   *)
(* is active.                                                              *)
LEMMA LearnStep ==
    ASSUME LockInv, NEW d \in Admins, NEW s, Learn(d, s), req[d].pc = "idle",
           s = {} \/ (tka.enabled /\ Tree(s, Root) /\ s \subseteq aums)
    PROVE  LockInv'
  <1>1. UNCHANGED <<load, feature, tka, aums, rows, used, req, lock, offer, reg,
                    switching, announced, drawn, overlapped, torn>>
    BY Zenon DEF Learn
  <1>2. /\ DOMAIN known' = Admins /\ known'[d] = s
        /\ \A e \in Admins : e # d => known'[e] = known[e]
    BY Zenon DEF Learn, LockInv, Shapes
  <1>3. Shapes' /\ Mutex' /\ Authority' /\ HeadWritten'
    <2>1. Shapes'
      BY <1>1, <1>2, Zenon DEF LockInv, Shapes
    <2>2. Mutex'
      BY <1>1, Zenon DEF LockInv, Mutex
    <2>3. Authority'
      BY <1>1, Zenon DEF LockInv, Authority, Root
    <2>4. HeadWritten'
      BY <1>1, Zenon DEF LockInv, HeadWritten
    <2> QED
      BY <2>1, <2>2, <2>3, <2>4, Zenon
  <1>4. Draws'
    <2>1. ASSUME NEW h, Fresh(h) PROVE Fresh(h)'
      <3>1. <<h>> \notin s
        <4>1. CASE s = {}
          BY <4>1, Zenon
        <4>2. CASE tka.enabled /\ Tree(s, Root)
          BY <2>1, <4>2, OneGenesis, Zenon DEF Fresh, LockInv, Authority
        <4> QED
          BY <4>1, <4>2, Zenon
      <3> QED
        BY <1>1, <1>2, <2>1, <3>1, Zenon DEF Fresh
    <2> QED
      BY <1>1, <2>1, Zenon DEF LockInv, Draws
  <1>5. Clients'
    <2>1. s = {} \/ \E g \in drawn : Tree(s, g)
      BY Zenon DEF LockInv, Authority
    <2>2. tka.enabled /\ <<Root>> \in s => s \subseteq aums
      BY Zenon
    <2>3. Root' = Root
      BY <1>1, Zenon DEF Root
    <2> QED
      BY <1>1, <1>2, <2>1, <2>2, <2>3, Zenon DEF LockInv, Clients
  <1>6. Finishing'
    BY <1>1 DEF LockInv, Finishing, Finish
  <1> QED
    BY <1>3, <1>4, <1>5, <1>6, Zenon DEF LockInv

LEMMA BootstrapStep ==
    ASSUME LockInv, NEW d \in Admins, Bootstrap(d)
    PROVE  LockInv'
  <1>1. req[d].pc = "idle" /\ (Learn(d, {}) \/ (CanOpen /\ Learn(d, {tka.ancestor})))
    BY Zenon DEF Bootstrap
  <1>2. CASE Learn(d, {})
    BY <1>1, <1>2, LearnStep, Zenon
  <1>3. CASE CanOpen /\ Learn(d, {tka.ancestor})
    <2>1. tka.enabled /\ tka.ancestor = <<Root>> /\ Tree(aums, Root) /\ Root \in Geneses
      BY <1>3, Zenon DEF CanOpen, LockInv, Authority, Shapes
    <2>2. Tree({tka.ancestor}, Root) /\ {tka.ancestor} \subseteq aums
      BY <2>1, TreeOfOne, Zenon DEF Tree
    <2> QED
      BY <1>1, <1>3, <2>1, <2>2, LearnStep, Zenon
  <1> QED
    BY <1>1, <1>2, <1>3, Zenon

LEMMA SyncOfferStep ==
    ASSUME LockInv, NEW d \in Admins, SyncOffer(d)
    PROVE  LockInv'
  <1>1. /\ req[d].pc = "idle" /\ CanOpen /\ known[d] \cap aums # {}
        /\ Learn(d, known[d] \cup aums)
    BY Zenon DEF SyncOffer
  <1>2. tka.enabled /\ Tree(aums, Root)
    BY <1>1, Zenon DEF CanOpen, LockInv, Authority
  <1>3. PICK g \in drawn : Tree(known[d], g)
    BY <1>1, Zenon DEF LockInv, Clients
  <1>4. g = Root
    BY <1>1, <1>2, <1>3, OneGenesis
  <1>5. known[d] \subseteq aums
    BY <1>2, <1>3, <1>4, Zenon DEF LockInv, Clients, Tree
  <1>6. known[d] \cup aums = aums
    BY <1>5, Zenon
  <1> QED
    BY <1>1, <1>2, <1>6, LearnStep, Zenon

----------------------------------------------------------------------------
(* The machines, the switch, a restart *)

(* A step of the machines leaves the lock and its clients alone. *)
LEMMA RowsStep ==
    ASSUME LockInv,
           UNCHANGED <<load, feature, tka, aums, lock, offer, switching, known,
                       announced, drawn, overlapped, torn>>,
           DOMAIN rows' = Ids,
           \A i \in Ids : rows'[i] # NoRow => DOMAIN rows'[i] = RowFields,
           reg' # NoReg => DOMAIN reg'.copy = RowFields,
           DOMAIN req' = Admins,
           \A d \in Admins : /\ DOMAIN req'[d] = ReqFields /\ req'[d].pc = req[d].pc
                             /\ req'[d].genesis = req[d].genesis
                             /\ req'[d].aum = req[d].aum
                             /\ Finish(req[d])'
    PROVE  LockInv'
  <1>1. Shapes'
    BY Zenon DEF LockInv, Shapes
  <1>2. Mutex'
    BY Zenon DEF LockInv, Mutex
  <1>3. Draws'
    BY DEF LockInv, Draws, Fresh
  <1>4. Authority'
    BY Zenon DEF LockInv, Authority, Root
  <1>5. Clients'
    BY Zenon DEF LockInv, Clients, Root
  <1>6. HeadWritten'
    BY Zenon DEF LockInv, HeadWritten
  <1>7. Finishing'
    BY Zenon DEF LockInv, Finishing
  <1> QED
    BY <1>1, <1>2, <1>3, <1>4, <1>5, <1>6, <1>7, Zenon DEF LockInv

LEMMA RegisterStep ==
    ASSUME LockInv, NEW d, NEW key, NEW sig, Register(d, key, sig)
    PROVE  LockInv'
  <1>1. UNCHANGED <<load, feature, tka, aums, rows, req, lock, offer, switching, known,
                    announced, drawn, overlapped, torn>>
    BY Zenon DEF Register, RegisterAs
  <1>2. DOMAIN reg'.copy = RowFields
    BY DEF Register, RegisterAs, RegisteredCopy, RowFields
  <1>3. ASSUME NEW e \in Admins PROVE Finish(req[e])'
    BY <1>1, Zenon DEF LockInv, Finishing, Finish
  <1> QED
    BY <1>1, <1>2, <1>3, RowsStep, Zenon DEF LockInv, Shapes

LEMMA RegisterSaveStep ==
    ASSUME LockInv, RegisterSave
    PROVE  LockInv'
  <1>1. /\ reg # NoReg /\ rows' = [rows EXCEPT ![reg.id] = reg.copy] /\ reg' = NoReg
        /\ UNCHANGED <<load, feature, tka, aums, lock, offer, switching, known,
                       announced, drawn, overlapped, torn>>
    BY Zenon DEF RegisterSave
  <1>2. DOMAIN rows' = Ids /\ \A i \in Ids : rows'[i] # NoRow => DOMAIN rows'[i] = RowFields
    BY <1>1, Zenon DEF LockInv, Shapes
  <1>3. DOMAIN req' = Admins
    BY Zenon DEF RegisterSave
  <1>4. ASSUME NEW e \in Admins
        PROVE  /\ DOMAIN req'[e] = ReqFields /\ req'[e].pc = req[e].pc
               /\ req'[e].genesis = req[e].genesis /\ req'[e].aum = req[e].aum
               /\ Finish(req[e])'
    <2>1. PICK r, q : r = req[e] /\ q = req'[e]
      BY Zenon
    <2>2. q = [r EXCEPT !.late = @ \/ r.pc = "finishing"] /\ DOMAIN r = ReqFields
      BY <2>1, Zenon DEF RegisterSave, LockInv, Shapes
    <2>3. /\ DOMAIN q = ReqFields /\ q.pc = r.pc /\ q.genesis = r.genesis
          /\ q.aum = r.aum /\ q.sigs = r.sigs /\ q.listed = r.listed /\ q.id = r.id
          /\ r.pc = "finishing" => q.late = TRUE
      BY <2>2, Zenon DEF ReqFields
    <2>4. Finish(r)
      BY <2>1, Zenon DEF LockInv, Finishing
    <2>5. Finish(q)'
      <3>1. q.pc = "finishing" =>
              /\ ~tka.enabled /\ tka.pending # NoGenesis
              /\ \A i \in Ids : q.listed[i] # NoRow =>
                    /\ DOMAIN q.listed[i] = RowFields
                    /\ \E s \in q.sigs :
                          /\ s[1] = i
                          /\ s[2] = <<q.listed[i].device, q.listed[i].key, tka.pending>>
        BY <2>3, <2>4 DEF Finish
      <3>2. /\ q.pc \in {"finish", "finishing"} => OneEach(q.sigs) /\ (feature \/ overlapped)
            /\ q.pc = "signing" => DOMAIN q.listed[q.id] = RowFields
        BY <2>3, <2>4, Zenon DEF Finish
      <3> QED
        BY <1>1, <2>3, <3>1, <3>2, Zenon DEF Finish
    <2> QED
      BY <2>1, <2>3, <2>5, Zenon
  <1> QED
    BY <1>1, <1>2, <1>3, <1>4, RowsStep, Zenon

LEMMA DeleteMachineStep ==
    ASSUME LockInv, NEW i \in Ids, DeleteMachine(i)
    PROVE  LockInv'
  <1>1. /\ rows' = [rows EXCEPT ![i] = NoRow]
        /\ UNCHANGED <<load, feature, tka, aums, req, lock, offer, reg, switching, known,
                       announced, drawn, overlapped, torn>>
    BY Zenon DEF DeleteMachine
  <1>2. /\ DOMAIN rows' = Ids
        /\ \A j \in Ids : rows'[j] # NoRow => rows[j] # NoRow /\ rows'[j] = rows[j]
    BY <1>1, Zenon DEF LockInv, Shapes
  <1>3. ASSUME NEW e \in Admins PROVE Finish(req[e])'
    <2>1. PICK r : r = req[e]
      BY Zenon
    <2>2. Finish(r) /\ r = req'[e]
      BY <1>1, <2>1, Zenon DEF LockInv, Finishing
    <2>3. r.pc = "finishing" => r.late \/ \A j \in Ids : rows'[j] # NoRow => r.listed[j] # NoRow
      BY <1>2, <2>2, Zenon DEF Finish
    <2>4. Finish(r)'
      BY <1>1, <2>2, <2>3, Zenon DEF Finish
    <2> QED
      BY <2>2, <2>4, Zenon
  <1> QED
    BY <1>1, <1>2, <1>3, RowsStep, Zenon DEF LockInv, Shapes

(* The switch: it goes off only beside an InitFinish that it did not see,  *)
(* or by a save of the value that was read before it went on.              *)
LEMMA SwitchStep ==
    ASSUME LockInv, NEW on \in BOOLEAN, NEW busy, NEW over \in BOOLEAN,
           Switch(on, busy, over), BusyOK(busy),
           overlapped => over,
           tka.enabled => (on \/ over) /\ (busy.disable => over),
           \A d \in Admins : req[d].pc \in {"finish", "finishing"} => on \/ over
    PROVE  LockInv'
  <1>1. /\ feature' = on /\ switching' = busy /\ overlapped' = over
        /\ announced' = IF on = feature THEN announced ELSE Advert(tka)
        /\ UNCHANGED <<load, tka, aums, rows, used, req, lock, offer, reg, known,
                       drawn, torn>>
    BY Zenon DEF Switch
  <1>2. Shapes'
    BY <1>1, Zenon DEF LockInv, Shapes
  <1>3. Mutex'
    BY <1>1, Zenon DEF LockInv, Mutex
  <1>4. Draws'
    BY <1>1, Zenon DEF LockInv, Draws, Fresh
  <1>5. Authority'
    BY <1>1, Zenon DEF LockInv, Authority, Root
  <1>6. Clients'
    BY <1>1, Zenon DEF LockInv, Clients, Root
  <1>7. HeadWritten'
    <2>1. announced' = Advert(tka)
      BY <1>1, Zenon DEF LockInv, HeadWritten
    <2> QED
      BY <1>1, <2>1, Zenon DEF LockInv, HeadWritten
  <1>8. Finishing'
    <2>1. ASSUME NEW e \in Admins PROVE Finish(req[e])'
      <3>1. PICK r : r = req[e]
        BY Zenon
      <3>2. Finish(r) /\ r = req'[e] /\ (r.pc \in {"finish", "finishing"} => on \/ over)
        BY <1>1, <3>1, Zenon DEF LockInv, Finishing
      <3>3. Finish(r)'
        BY <1>1, <3>2, Zenon DEF Finish
      <3> QED
        BY <3>2, <3>3, Zenon
    <2> QED
      BY <1>1, <2>1, Zenon DEF LockInv, Finishing
  <1> QED
    BY <1>2, <1>3, <1>4, <1>5, <1>6, <1>7, <1>8, Zenon DEF LockInv

LEMMA SwitchesStep ==
    ASSUME LockInv,
           \/ EnableTailnetLock \/ DisableTailnetLock \/ DisableTailnetLockSave
           \/ EditTailnet \/ EditTailnetSave
    PROVE  LockInv'
  <1>0. feature \in BOOLEAN /\ BusyOK(switching) /\ overlapped \in BOOLEAN
    BY Zenon DEF LockInv, Shapes
  <1>1. /\ tka.enabled => (feature \/ overlapped) /\ (switching.disable => overlapped)
        /\ \A d \in Admins : req[d].pc \in {"finish", "finishing"} => feature \/ overlapped
    BY Zenon DEF LockInv, Authority, Finishing, Finish
  <1>2. CASE EnableTailnetLock
    <2>1. Switch(TRUE, switching, overlapped)
      BY <1>2, Zenon DEF EnableTailnetLock
    <2> QED
      BY <1>0, <1>1, <2>1, SwitchStep, Zenon
  <1>3. CASE DisableTailnetLock
    <2>1. PICK busy : busy = [switching EXCEPT !.disable = TRUE]
      BY Zenon
    <2>2. BusyOK(busy)
      BY <1>0, <2>1, Zenon DEF BusyOK
    <2>3. Switch(feature, busy, overlapped) /\ ~tka.enabled
      BY <1>3, <2>1, Zenon DEF DisableTailnetLock
    <2> QED
      BY <1>0, <1>1, <2>2, <2>3, SwitchStep, Zenon
  <1>4. CASE DisableTailnetLockSave
    <2>1. PICK over : over = (overlapped \/ \E d \in Admins : req[d].pc \in {"finish", "finishing"})
      BY Zenon
    <2>2. PICK busy : busy = [switching EXCEPT !.disable = FALSE]
      BY Zenon
    <2>3. /\ over \in BOOLEAN /\ (overlapped => over)
          /\ \A d \in Admins : req[d].pc \in {"finish", "finishing"} => over
      BY <1>0, <2>1, Zenon
    <2>4. BusyOK(busy) /\ busy.disable = FALSE
      BY <1>0, <2>2, Zenon DEF BusyOK
    <2>5. switching.disable /\ Switch(FALSE, busy, over)
      BY <1>4, <2>1, <2>2, Zenon DEF DisableTailnetLockSave
    <2>6. tka.enabled => over
      BY <1>1, <2>3, <2>5, Zenon
    <2> QED
      BY <2>3, <2>4, <2>5, <2>6, SwitchStep, Zenon
  <1>5. CASE EditTailnet
    <2>1. PICK busy : busy = [switching EXCEPT !.edit = IF feature THEN "on" ELSE "off"]
      BY Zenon
    <2>2. BusyOK(busy) /\ busy.disable = switching.disable
      BY <1>0, <2>1, Zenon DEF BusyOK
    <2>3. Switch(feature, busy, overlapped)
      BY <1>5, <2>1, Zenon DEF EditTailnet
    <2> QED
      BY <1>0, <1>1, <2>2, <2>3, SwitchStep, Zenon
  <1>6. CASE EditTailnetSave
    <2>1. PICK old : old = (switching.edit = "on")
      BY Zenon
    <2>2. PICK over : over = (overlapped \/ old # feature)
      BY Zenon
    <2>3. PICK busy : busy = [switching EXCEPT !.edit = "none"]
      BY Zenon
    <2>4. BusyOK(busy) /\ busy.disable = switching.disable
      BY <1>0, <2>3, Zenon DEF BusyOK
    <2>5. Switch(old, busy, over)
      BY <1>6, <2>1, <2>2, <2>3, Zenon DEF EditTailnetSave
    <2>6. /\ old \in BOOLEAN /\ over \in BOOLEAN /\ (overlapped => over)
          /\ feature \/ overlapped => old \/ over
      BY <1>0, <2>1, <2>2, Zenon
    <2> QED
      BY <1>1, <2>4, <2>5, <2>6, SwitchStep, Zenon
  <1> QED
    BY <1>2, <1>3, <1>4, <1>5, <1>6, Zenon

(* After a restart no request is under way; the head may be behind. *)
LEMMA CrashStep ==
    ASSUME LockInv, Crash
    PROVE  LockInv'
  <1>1. /\ req' = [d \in Admins |-> NoRequest] /\ lock' = NoOne /\ reg' = NoReg
        /\ switching' = NotSwitching /\ announced' = Advert(tka)
        /\ torn' = (torn \/ \E d \in Admins : req[d].pc = "sent")
        /\ UNCHANGED <<load, feature, tka, aums, rows, used, offer, known, drawn, overlapped>>
    BY Zenon DEF Crash
  <1>2. /\ DOMAIN req' = Admins
        /\ \A e \in Admins : req'[e] = NoRequest /\ req'[e].pc = "idle"
                              /\ DOMAIN req'[e] = ReqFields
    BY <1>1, Zenon DEF NoRequest, ReqFields
  <1>3. /\ torn' \in BOOLEAN /\ (torn => torn')
        /\ torn' \/ \A e \in Admins : req[e].pc # "sent"
    BY <1>1, Zenon DEF LockInv, Shapes
  <1>a. BusyOK(switching') /\ switching'.disable = FALSE
    BY <1>1, Zenon DEF BusyOK, NotSwitching
  <1>4. Shapes'
    BY <1>1, <1>2, <1>3, <1>a, Zenon DEF LockInv, Shapes
  <1>5. Mutex'
    BY <1>2, Zenon DEF Mutex
  <1>6. Draws'
    BY <1>1, <1>2, Zenon DEF LockInv, Draws, Fresh
  <1>7. Authority'
    BY <1>1, <1>a, Zenon DEF LockInv, Authority, Root
  <1>8. Clients'
    BY <1>1, <1>2, Zenon DEF LockInv, Clients, Root
  <1>9. HeadWritten'
    BY <1>1, <1>3, Zenon DEF LockInv, HeadWritten
  <1>10. Finishing'
    <2>1. Finish(NoRequest)'
      BY Zenon DEF Finish, NoRequest
    <2> QED
      BY <1>1, <1>2, <2>1, Zenon DEF LockInv, Finishing
  <1> QED
    BY <1>4, <1>5, <1>6, <1>7, <1>8, <1>9, <1>10, Zenon DEF LockInv

----------------------------------------------------------------------------
(* The theorems *)

LEMMA LockInitially == LockInit => LockInv
  <1> SUFFICES ASSUME LockInit PROVE LockInv
    BY Zenon
  <1>1. /\ DOMAIN tka = TkaFields /\ tka.enabled = FALSE /\ tka.disabled = FALSE
        /\ tka.pending = NoGenesis /\ tka.ancestor = NoAum
    BY Zenon DEF LockInit, NoState, TkaFields
  <1>2. /\ DOMAIN req = Admins
        /\ \A e \in Admins : req[e] = NoRequest /\ req[e].pc = "idle"
                              /\ DOMAIN req[e] = ReqFields
    BY Zenon DEF LockInit, NoRequest, ReqFields
  <1>3. /\ \A e \in Admins : known[e] = {} /\ offer[e].nodes = {}
        /\ DOMAIN known = Admins /\ DOMAIN offer = Admins
    BY Zenon DEF LockInit, NoOffer
  <1>4. DOMAIN rows = Ids /\ \A i \in Ids : rows[i] # NoRow => DOMAIN rows[i] = RowFields
    BY LockAssumption, Zenon DEF LockInit, LockAssumption, RowFields
  <1>a. BusyOK(switching)
    BY Zenon DEF LockInit, BusyOK, NotSwitching
  <1>5. Shapes
    BY <1>1, <1>2, <1>3, <1>4, <1>a, Zenon DEF LockInit, Shapes
  <1>6. Mutex /\ Authority /\ Clients
    BY <1>1, <1>2, <1>3, Zenon DEF Mutex, Authority, Clients
  <1>7. Draws
    <2>1. ASSUME NEW g \in Geneses PROVE tka.ancestor # <<g>>
      <3>1. <<g>> \in Seq(Nat)
        BY LockAssumption DEF LockAssumption
      <3> QED
        BY <1>1, <3>1, LockAssumption, Zenon DEF LockAssumption
    <2> QED
      BY <1>1, <1>2, <2>1, Zenon DEF Draws
  <1>8. HeadWritten
    BY <1>1, Zenon DEF LockInit, HeadWritten
  <1>9. Finishing
    <2>1. Finish(NoRequest)
      BY Zenon DEF Finish, NoRequest
    <2> QED
      BY <1>2, <1>3, <2>1, Zenon DEF Finishing, OneEach
  <1> QED
    BY <1>5, <1>6, <1>7, <1>8, <1>9, Zenon DEF LockInv

LEMMA LockSteps == LockInv /\ [LockNext]_lockVars => LockInv'
  <1> SUFFICES ASSUME LockInv, [LockNext]_lockVars PROVE LockInv'
    BY Zenon
  <1>1. CASE UNCHANGED lockVars
    <2>1. UNCHANGED <<load, feature, tka, aums, lock, offer, switching, known,
                      announced, drawn, overlapped, torn>> /\ UNCHANGED <<rows, reg, req>>
      BY <1>1, Zenon DEF lockVars
    <2>2. ASSUME NEW e \in Admins PROVE Finish(req[e])'
      BY <2>1, Zenon DEF LockInv, Finishing, Finish
    <2> QED
      BY <2>1, <2>2, RowsStep, Zenon DEF LockInv, Shapes
  <1>2. /\ load.admins \subseteq Admins /\ load.geneses \subseteq Geneses
        /\ load.updates \subseteq Updates
    BY LockAssumption, Zenon DEF LockAssumption, LockInv, Shapes
  <1>3. ASSUME NEW d \in load.admins,
               \/ \E g \in load.geneses : AskInitBegin(d, g)
               \/ AskInitFinish(d)
               \/ \E u \in load.updates : AskSyncSend(d, u)
               \/ AskDisable(d)
               \/ \E i \in Ids : AskSubmitSignature(d, i)
        PROVE  LockInv'
    <2>1. d \in Admins
      BY <1>2, Zenon
    <2> QED
      BY <1>2, <1>3, <2>1, AskInitBeginStep, AskInitFinishStep, AskSyncSendStep, AskOthersStep,
         Zenon
  <1>4. ASSUME NEW d \in load.admins, Acquire(d) \/ Locked(d) \/ Bootstrap(d) \/ SyncOffer(d)
        PROVE  LockInv'
    <2>1. d \in Admins
      BY <1>2, Zenon
    <2> QED
      BY <1>4, <2>1, InitBeginStep, InitFinishStep, SyncSendStep, DisableStep,
         SubmitSignatureStep, InitFinishCommitStep, SyncSendHeadStep, SubmitSignatureSaveStep,
         DatabaseFailsStep, BootstrapStep, SyncOfferStep, Zenon DEF Acquire, Locked
  <1>5. ASSUME NEW d, NEW key, NEW sig, Register(d, key, sig)
        PROVE  LockInv'
    BY <1>5, RegisterStep, Zenon
  <1>6. ASSUME \/ RegisterSave \/ \E i \in Ids : DeleteMachine(i)
               \/ EnableTailnetLock \/ DisableTailnetLock \/ DisableTailnetLockSave
               \/ EditTailnet \/ EditTailnetSave \/ Crash
        PROVE  LockInv'
    BY <1>6, RegisterSaveStep, DeleteMachineStep, SwitchesStep, CrashStep, Zenon
  <1> QED
    BY <1>1, <1>3, <1>4, <1>5, <1>6, Zenon DEF LockNext

(* The invariant on which the theorems below rest. *)
THEOREM LockInvariant == LockSpec => []LockInv
  BY LockInitially, LockSteps, PTL DEF LockSpec

(* While the authority is active its store holds one chain, from the       *)
(* genesis that Bootstrap serves, and it is active only in a tailnet with  *)
(* the lock switched on (tka.go), whatever handlers, registrations,        *)
(* switches and restarts run beside each other.                            *)
THEOREM AuthorityIsOne == LockSpec => []OneAuthority
  <1>1. LockInv => OneAuthority
    <2> SUFFICES ASSUME LockInv, tka.enabled PROVE OneAuthority
      BY Zenon DEF OneAuthority
    <2>1. /\ tka.ancestor = <<Root>> /\ Tree(aums, Root) /\ ~tka.disabled
          /\ feature \/ overlapped
      BY Zenon DEF LockInv, Authority
    <2>2. /\ tka.ancestor \in aums /\ \A a \in aums : a[1] = Root
          /\ \A a \in aums : Len(a) > 1 => Parent(a) \in aums
      BY <2>1, Zenon DEF Tree
    <2> QED
      BY <2>1, <2>2, Zenon DEF OneAuthority
  <1> QED
    BY <1>1, LockInvariant, PTL

(* What the polls were told of the lock is what is stored, and the head is *)
(* the head of the stored chain unless a SyncSend died half way.           *)
THEOREM HeadsFollow == LockSpec => []HeadFollowsChain
  <1>1. LockInv => HeadFollowsChain
    <2> SUFFICES ASSUME LockInv PROVE HeadFollowsChain
      BY Zenon
    <2>1. lock = NoOne => \A d \in Admins : req[d].pc # "sent"
      BY LockAssumption, Zenon DEF LockInv, Mutex, LockAssumption
    <2> QED
      BY <2>1, Zenon DEF LockInv, Authority, HeadWritten, HeadFollowsChain
  <1> QED
    BY <1>1, LockInvariant, PTL

(* No client holds a message of the active authority that is not stored. *)
THEOREM NoClientAhead == LockSpec => []ClientsNotAhead
  <1>1. LockInv => ClientsNotAhead
    <2> SUFFICES ASSUME LockInv, NEW d \in Admins, tka.enabled, known[d] # {},
                        ActiveHead(known[d])[1] = Root
                 PROVE  known[d] \subseteq aums
      BY Zenon DEF ClientsNotAhead
    <2>1. PICK g \in drawn : Tree(known[d], g) /\ ActiveHead(known[d])[1] = g
      BY ClientHead, Zenon
    <2>2. <<Root>> \in known[d]
      BY <2>1, Zenon DEF Tree
    <2> QED
      BY <2>2, Zenon DEF LockInv, Clients
  <1> QED
    BY <1>1, LockInvariant, PTL

(* The authority becomes active only by the transaction of InitFinish. *)
LEMMA GoesLive ==
    ASSUME LockInv, [LockNext]_lockVars, ~tka.enabled, tka'.enabled
    PROVE  \E d \in Admins : InitFinishCommit(d)
  <1>1. tka' # tka
    BY Zenon
  <1>2. load.admins \subseteq Admins
    BY LockAssumption, Zenon DEF LockAssumption, LockInv, Shapes
  <1>3. ASSUME NEW d, NEW r, Ask(d, r) PROVE FALSE
    BY <1>1, <1>3, Zenon DEF Ask
  <1>4. ASSUME NEW d, NEW s, Learn(d, s) PROVE FALSE
    BY <1>1, <1>4, Zenon DEF Learn
  <1>5. ASSUME NEW d, InitBegin(d) PROVE FALSE
    <2>1. CASE tka' = [tka EXCEPT !.pending = req[d].genesis]
      BY <2>1, Zenon DEF LockInv, Shapes, TkaFields
    <2> QED
      BY <1>1, <1>5, <2>1, Zenon DEF InitBegin, Refuse
  <1>6. ASSUME NEW d, InitFinish(d) \/ SyncSend(d) \/ SubmitSignature(d) PROVE FALSE
    BY <1>1, <1>6, Zenon DEF InitFinish, SyncSend, SubmitSignature, Refuse
  <1>7. ASSUME NEW d, Disable(d) PROVE FALSE
    BY <1>1, <1>7, Zenon DEF Disable, Refuse, CanOpen
  <1>8. ASSUME NEW d, SyncSendHead(d) \/ SubmitSignatureSave(d) \/ DatabaseFails(d) PROVE FALSE
    <2>1. CASE SyncSendHead(d)
      BY <2>1, Zenon DEF SyncSendHead, LockInv, Shapes, TkaFields
    <2> QED
      BY <1>1, <1>8, <2>1, Zenon DEF SubmitSignatureSave, SaveSignature, DatabaseFails, Refuse
  <1>9. ASSUME \/ \E d, key, sig : Register(d, key, sig)
               \/ RegisterSave \/ (\E i \in Ids : DeleteMachine(i))
               \/ EnableTailnetLock \/ DisableTailnetLock \/ DisableTailnetLockSave
               \/ EditTailnet \/ EditTailnetSave \/ Crash
               \/ UNCHANGED lockVars
        PROVE  FALSE
    BY <1>1, <1>9, Zenon DEF Register, RegisterAs, RegisterSave, DeleteMachine,
       EnableTailnetLock, DisableTailnetLock, DisableTailnetLockSave, EditTailnet,
       EditTailnetSave, Switch, Crash, lockVars
  <1>10. ASSUME NEW d,
                \/ \E g \in load.geneses : AskInitBegin(d, g)
                \/ AskInitFinish(d)
                \/ \E u \in load.updates : AskSyncSend(d, u)
                \/ AskDisable(d)
                \/ \E i \in Ids : AskSubmitSignature(d, i)
                \/ Bootstrap(d) \/ SyncOffer(d)
         PROVE  FALSE
    BY <1>3, <1>4, <1>10, Zenon DEF AskInitBegin, AskInitFinish, AskSyncSend, AskDisable,
       AskSubmitSignature, Bootstrap, SyncOffer
  <1> QED
    BY <1>2, <1>5, <1>6, <1>7, <1>8, <1>9, <1>10, Zenon DEF LockNext, Acquire, Locked

(* SigFor finds the one signature that was sent for a machine. *)
LEMMA SigForIs ==
    ASSUME NEW S, OneEach(S), NEW s \in S
    PROVE  SigFor(s[1], S) = s[2]
  <1>1. PICK i : i = s[1]
    BY Zenon
  <1>2. {x \in S : x[1] = i} = {s}
    BY <1>1, Zenon DEF OneEach
  <1>3. SigFor(i, S) = (CHOOSE x \in {s} : TRUE)[2]
    BY <1>2, Zenon DEF SigFor
  <1>4. (CHOOSE x \in {s} : TRUE) = s
    BY Zenon
  <1> QED
    BY <1>1, <1>3, <1>4, Zenon

(* When the authority goes live every machine carries a valid signature,   *)
(* unless a registration was saved after InitFinish had listed them        *)
(* (TKAInitFinish of tka.go).                                              *)
THEOREM SignedWhenLive == LockSpec => SignedAtGoLive
  <1>1. LockInv /\ [LockNext]_lockVars =>
          [\A d \in Admins :
              (~tka.enabled /\ tka'.enabled /\ lock = d /\ ~req[d].late)
                  => \A i \in Ids : rows'[i] # NoRow =>
                        NodeKeyAuthorized(rows'[i].device, rows'[i].key,
                                          rows'[i].sig, tka'.ancestor[1])]_lockVars
    <2> SUFFICES ASSUME LockInv, [LockNext]_lockVars, NEW d \in Admins,
                        ~tka.enabled, tka'.enabled, lock = d, ~req[d].late,
                        NEW i \in Ids, rows'[i] # NoRow
                 PROVE  NodeKeyAuthorized(rows'[i].device, rows'[i].key,
                                          rows'[i].sig, tka'.ancestor[1])
      BY Zenon
    <2>1. InitFinishCommit(d)
      <3>1. PICK e \in Admins : InitFinishCommit(e)
        BY GoesLive, Zenon
      <3>2. lock = e
        BY <3>1, Zenon DEF InitFinishCommit, GoLive
      <3> QED
        BY <3>1, <3>2, Zenon
    <2>2. PICK g, r : g = tka.pending /\ r = req[d]
      BY Zenon
    <2>3. /\ r.pc = "finishing"
          /\ tka' = [NoState EXCEPT !.enabled = TRUE, !.head = ActiveHead(aums'),
                                    !.ancestor = <<g>>, !.pending = NoGenesis]
          /\ rows' = [j \in Ids |->
                 IF r.listed[j] # NoRow
                 THEN [r.listed[j] EXCEPT !.sig = SigFor(j, r.sigs)]
                 ELSE rows[j]]
      BY <2>1, <2>2, Zenon DEF InitFinishCommit, GoLive
    <2>4. tka'.ancestor[1] = g
      BY <2>3, Zenon DEF NoState
    <2>5. /\ OneEach(r.sigs)
          /\ \A j \in Ids : r.listed[j] # NoRow =>
                /\ DOMAIN r.listed[j] = RowFields
                /\ \E s \in r.sigs :
                      s[1] = j /\ s[2] = <<r.listed[j].device, r.listed[j].key, g>>
          /\ \A j \in Ids : rows[j] # NoRow => r.listed[j] # NoRow
      <3>1. Finish(r) /\ ~r.late
        BY <2>2, Zenon DEF LockInv, Finishing
      <3> QED
        BY <2>2, <2>3, <3>1, ZenonT(30) DEF Finish
    <2>6. PICK l : l = r.listed[i]
      BY Zenon
    <2>7. l # NoRow
      BY <2>3, <2>5, <2>6, Zenon
    <2>8. PICK s \in r.sigs : s[1] = i /\ s[2] = <<l.device, l.key, g>>
      BY <2>5, <2>6, <2>7, Zenon
    <2>9. SigFor(i, r.sigs) = <<l.device, l.key, g>>
      BY <2>5, <2>8, SigForIs, Zenon
    <2>10. rows'[i] = [l EXCEPT !.sig = <<l.device, l.key, g>>] /\ DOMAIN l = RowFields
      BY <2>3, <2>5, <2>6, <2>7, <2>9, Zenon
    <2>11. /\ rows'[i].device = l.device /\ rows'[i].key = l.key
           /\ rows'[i].sig = <<l.device, l.key, g>>
      BY <2>10, Zenon DEF RowFields
    <2> QED
      BY <2>4, <2>11, Zenon DEF NodeKeyAuthorized
  <1> QED
    BY <1>1, LockInvariant, PTL DEF LockSpec, SignedAtGoLive

(* A disabled authority is never active again: genesis messages are drawn  *)
(* afresh, and InitFinish makes active only the one that is pending.       *)
THEOREM DisabledStaysDisabled == LockSpec => DisabledForGood
  <1>1. LockInv /\ [LockNext]_lockVars =>
          [\A g \in Geneses : (tka.disabled /\ tka.ancestor = <<g>>)
              => ~(tka'.enabled /\ tka'.ancestor = <<g>>)]_lockVars
    <2> SUFFICES ASSUME LockInv, [LockNext]_lockVars, NEW g \in Geneses, tka.disabled,
                        tka.ancestor = <<g>>, tka'.enabled, tka'.ancestor = <<g>>
                 PROVE  FALSE
      BY Zenon
    <2>1. ~tka.enabled
      BY Zenon DEF LockInv, Authority
    <2>2. PICK d \in Admins : InitFinishCommit(d)
      BY <2>1, GoesLive, Zenon
    <2>3. PICK h : h = tka.pending
      BY Zenon
    <2>4. tka' = [NoState EXCEPT !.enabled = TRUE, !.head = ActiveHead(aums'),
                                 !.ancestor = <<h>>, !.pending = NoGenesis]
          /\ lock = d /\ req[d].pc = "finishing"
      BY <2>2, <2>3, Zenon DEF InitFinishCommit, GoLive
    <2>5. tka'.ancestor = <<h>>
      BY <2>4, Zenon DEF NoState
    <2>6. Fresh(h)
      BY <2>3, <2>4, Zenon DEF LockInv, Finishing, Finish, Draws
    <2> QED
      BY <2>5, <2>6, Zenon DEF Fresh
  <1> QED
    BY <1>1, LockInvariant, PTL DEF LockSpec, DisabledForGood
==============================================================================
