---------------------------- MODULE LoginFlowProofs ----------------------------
(***************************************************************************)
(* Theorems about the logins, for any number of people, tailnets, devices, *)
(* browsers, request keys and workloads.                                   *)
(*                                                                         *)
(* The argument: whatever a browser's handler carries from its read to its *)
(* write -- the copy of the row, the sealed session, the user it found --  *)
(* was granted when it was made (HandlerOK, SessionOK), and no step takes  *)
(* back what that rests on (Grows): request keys and users are drawn anew, *)
(* grants are history, a machine that goes is remembered as removed, and a *)
(* token goes only together with its user.                                 *)
(***************************************************************************)
EXTENDS LoginFlow, WellFoundedInduction, TLAPS

HandlerFields == {"pc", "flow", "key", "row", "who", "tailnet", "admin", "user"}
RegFields == {"device", "key", "authenticated", "error", "user"}
Drawn == 1 .. lastKey

(* An exchange with the provider admitted i to tailnet t for request k. *)
Granted(flow, k, i, t) ==
    \E g \in grants : g.flow = flow /\ g.key = k /\ g.who = i /\ t \in g.tailnets

GrantedAdmin(k, i) ==
    \E g \in grants : g.flow = "c" /\ g.key = k /\ g.who = i /\ g.admin

GrantedSSH(k, i) == \E g \in grants : g.flow = "s" /\ g.key = k /\ g.who = i

(* A row of registration_requests, in the table or in a handler's hands. *)
RegOK(row) ==
    /\ DOMAIN row = RegFields
    /\ row.device \in Devices /\ row.key \in Drawn /\ asked[row.key] = row.device
    /\ row.authenticated =>
          [device |-> row.device, user |-> row.user] \in machines \cup removed

TokenOK(k, x) ==
    x # NoToken => /\ x.key = k
                   /\ x.user # NoUser => x.user.id \in 0 .. lastUser
                   /\ (x.user \in users \/ x.user = NoUser) => x \in tokens

AuthOK(k, row) == DOMAIN row = {"token", "error"} /\ TokenOK(k, row.token)

SSHOK(k, row) ==
    /\ DOMAIN row = {"src", "action"}
    /\ row.src = check[k].src
    /\ row.action = "accept" => GrantedSSH(k, row.src.user.who)

RowOK(flow, k, row) ==
    /\ k \in Drawn
    /\ flow = "r" => RegOK(row) /\ row.key = k
    /\ flow = "c" => AuthOK(k, row)
    /\ flow = "s" => SSHOK(k, row)

SessionOK(c) ==
    /\ c.flow \in {"r", "c"} /\ c.key \in Drawn /\ c.who \in Identities
    /\ \A t \in c.tailnets : t \in Tailnets /\ Granted(c.flow, c.key, c.who, t)
    /\ c.admin => c.flow = "c" /\ GrantedAdmin(c.key, c.who)

(* What a handler carries between its steps. *)
HandlerOK(r) ==
    /\ DOMAIN r = HandlerFields
    /\ r.pc \in {"idle", "refuse", "ssh", "end", "create", "save"}
    /\ r.flow \in {"r", "c", "s"}
    /\ r.pc # "idle" => RowOK(r.flow, r.key, r.row)
    /\ r.pc \in {"end", "create", "save"} => r.flow \in {"r", "c"}
    /\ r.pc \in {"end", "create"} => r.who \in Identities /\ r.user = NoUser
    /\ r.pc \in {"end", "create"} /\ ~r.admin =>
          r.tailnet \in Tailnets /\ Granted(r.flow, r.key, r.who, r.tailnet)
    /\ r.admin => r.pc = "end" /\ r.flow = "c" /\ GrantedAdmin(r.key, r.who)
    /\ r.pc = "save" =>
          /\ r.user.id \in 0 .. lastUser /\ r.user # NoUser
          /\ r.flow = "r" => Granted("r", r.key, r.user.who, r.user.tailnet)
          /\ r.flow = "c" => r.tailnet \in Tailnets /\ Granted("c", r.key, r.who, r.tailnet)

Numbers ==
    /\ load \in Loads /\ lastKey \in 0 .. MaxKey /\ lastUser \in Nat
    /\ tailnets \subseteq Tailnets

Functions ==
    /\ DOMAIN regs = Devices
    /\ DOMAIN auths = Keys
    /\ DOMAIN sshs = Keys
    /\ DOMAIN hs = Handlers
    /\ DOMAIN stream = Keys
    /\ DOMAIN check = Keys
    /\ DOMAIN asked = Keys

UsersOK ==
    \A u \in users : /\ u \in [id : Nat, who : Identities, tailnet : Tailnets]
                     /\ u.id =< lastUser

RegsOK == \A d \in Devices : regs[d] # NoRow => RegOK(regs[d]) /\ regs[d].device = d
AuthsOK == \A k \in Keys : auths[k] # NoRow => RowOK("c", k, auths[k])
SSHsOK == \A k \in Keys : sshs[k] # NoRow => RowOK("s", k, sshs[k])
StatesOK == \A s \in states : s.flow \in {"r", "c", "s"} /\ s.key \in Keys \cap Drawn
SessionsOK == \A c \in sessions : SessionOK(c)
HandlersOK == \A h \in Handlers : HandlerOK(hs[h])

StreamsOK ==
    \A k \in Keys : DOMAIN stream[k] = {"st", "token"} /\ TokenOK(k, stream[k].token)

ChecksOK ==
    \A k \in Keys : /\ DOMAIN check[k] = {"st", "src"}
                    /\ check[k].st = "accepted" => /\ k \in Drawn
                                                   /\ GrantedSSH(k, check[k].src.user.who)

MachineOK(m) ==
    \E k \in Drawn : asked[k] = m.device /\ Granted("r", k, m.user.who, m.user.tailnet)

MachinesOK == \A m \in machines \ load.machines : MachineOK(m)

GivenOK(x) ==
    /\ x.tailnet = NoTailnet => GrantedAdmin(x.key, x.who)
    /\ x.tailnet # NoTailnet => Granted("c", x.key, x.who, x.tailnet)

TokensOK == \A x \in tokens : GivenOK(x)

(* The inductive invariant. *)
LoginInv ==
    /\ Numbers /\ Functions /\ UsersOK /\ RegsOK /\ AuthsOK /\ SSHsOK /\ StatesOK
    /\ SessionsOK /\ HandlersOK /\ StreamsOK /\ ChecksOK /\ MachinesOK /\ TokensOK

(* What a step may add and never takes back. *)
Grows ==
    /\ load' = load /\ lastKey =< lastKey' /\ lastUser =< lastUser'
    /\ \A k \in Drawn : asked'[k] = asked[k] /\ check'[k].src = check[k].src
    /\ grants \subseteq grants'
    /\ machines \cup removed \subseteq machines' \cup removed'
    /\ \A u \in users' : u \in users \/ (u.id \in Nat /\ lastUser < u.id)
    /\ \A x \in tokens : x \in tokens' \/ (x.user \notin users' /\ x.user # NoUser)

----------------------------------------------------------------------------
(* What was once granted, and a copy that was once sound, stays so: a      *)
(* browser's handler may hold its row, its session and its user for as     *)
(* long as it likes.                                                       *)
LEMMA GrantsStay ==
    ASSUME Grows
    PROVE  /\ \A f, k, i, t : Granted(f, k, i, t) => Granted(f, k, i, t)'
           /\ \A k, i : GrantedAdmin(k, i) => GrantedAdmin(k, i)'
           /\ \A k, i : GrantedSSH(k, i) => GrantedSSH(k, i)'
  BY Zenon DEF Grows, Granted, GrantedAdmin, GrantedSSH

(* See GrantsStay: the rows. *)
LEMMA RowsStay ==
    ASSUME Grows, Numbers, Numbers'
    PROVE  /\ Drawn \subseteq Drawn'
           /\ \A row : RegOK(row) => RegOK(row)'
           /\ \A k, x : TokenOK(k, x) => TokenOK(k, x)'
           /\ \A k, row : AuthOK(k, row) => AuthOK(k, row)'
           /\ \A k, row : k \in Drawn /\ SSHOK(k, row) => SSHOK(k, row)'
           /\ \A f, k, row : RowOK(f, k, row) => RowOK(f, k, row)'
  <1>1. Drawn \subseteq Drawn'
    BY SMT DEF Grows, Numbers, Drawn
  <1>2. ASSUME NEW row, RegOK(row) PROVE RegOK(row)'
    BY <1>1, <1>2, Zenon DEF Grows, RegOK
  <1>3. ASSUME NEW k, NEW x, TokenOK(k, x) PROVE TokenOK(k, x)'
    <2>1. x # NoToken /\ x.user # NoUser => x.user.id \in 0 .. lastUser'
      BY <1>3, SMT DEF TokenOK, Grows, Numbers
    <2>2. ASSUME x # NoToken, x.user \in users' PROVE x.user \in users \/ x.user = NoUser
      BY <1>3, <2>2, SMT DEF TokenOK, Grows, Numbers
    <2> QED
      BY <1>3, <2>1, <2>2, Zenon DEF TokenOK, Grows
  <1>4. ASSUME NEW k, NEW row, AuthOK(k, row) PROVE AuthOK(k, row)'
    BY <1>3, <1>4, Zenon DEF AuthOK
  <1>5. ASSUME NEW k \in Drawn, NEW row, SSHOK(k, row) PROVE SSHOK(k, row)'
    BY <1>5, GrantsStay, Zenon DEF SSHOK, Grows
  <1>6. ASSUME NEW f, NEW k, NEW row, RowOK(f, k, row) PROVE RowOK(f, k, row)'
    BY <1>1, <1>2, <1>4, <1>5, <1>6, Zenon DEF RowOK
  <1> QED
    BY <1>1, <1>2, <1>3, <1>4, <1>5, <1>6, Zenon

(* See GrantsStay: the sessions, the handlers, what was saved. *)
LEMMA CopiesStay ==
    ASSUME Grows, Numbers, Numbers'
    PROVE  /\ \A c : SessionOK(c) => SessionOK(c)'
           /\ \A r : HandlerOK(r) => HandlerOK(r)'
           /\ \A m : MachineOK(m) => MachineOK(m)'
           /\ \A x : GivenOK(x) => GivenOK(x)'
  <1>1. ASSUME NEW c, SessionOK(c) PROVE SessionOK(c)'
    BY <1>1, GrantsStay, RowsStay, Zenon DEF SessionOK
  <1>2. ASSUME NEW r, HandlerOK(r) PROVE HandlerOK(r)'
    <2>1. r.user.id \in 0 .. lastUser => r.user.id \in 0 .. lastUser'
      BY SMT DEF Grows, Numbers
    <2> QED
      BY <1>2, <2>1, GrantsStay, RowsStay, Zenon DEF HandlerOK
  <1>3. ASSUME NEW m, MachineOK(m) PROVE MachineOK(m)'
    BY <1>3, GrantsStay, RowsStay, Zenon DEF MachineOK, Grows
  <1>4. ASSUME NEW x, GivenOK(x) PROVE GivenOK(x)'
    BY <1>4, GrantsStay, Zenon DEF GivenOK
  <1> QED
    BY <1>1, <1>2, <1>3, <1>4, Zenon

(* A step that only grows, and whose new rows, sessions, handlers and      *)
(* holdings are sound, keeps the invariant.                                *)
Sound ==
    /\ Numbers' /\ Functions' /\ UsersOK'
    /\ \A d \in Devices : regs'[d] \in {regs[d], NoRow}
                          \/ (RegOK(regs[d])' /\ regs'[d].device = d)
    /\ \A k \in Keys : auths'[k] \in {auths[k], NoRow} \/ RowOK("c", k, auths[k])'
    /\ \A k \in Keys : sshs'[k] \in {sshs[k], NoRow} \/ RowOK("s", k, sshs[k])'
    /\ \A s \in states' : s \in states
                           \/ (s.flow \in {"r", "c", "s"} /\ s.key \in Keys \cap Drawn')
    /\ \A c \in sessions' : c \in sessions \/ SessionOK(c)'
    /\ \A h \in Handlers : hs'[h] = hs[h] \/ HandlerOK(hs[h])'
    /\ \A k \in Keys : stream'[k] = stream[k]
                       \/ (DOMAIN stream'[k] = {"st", "token"} /\ TokenOK(k, stream[k].token)')
    /\ \A k \in Keys : check'[k] = check[k]
                       \/ /\ DOMAIN check'[k] = {"st", "src"}
                          /\ check'[k].st = "accepted" =>
                                k \in Drawn' /\ GrantedSSH(k, check[k].src.user.who)'
    /\ \A m \in machines' : m \in machines \/ MachineOK(m)'
    /\ \A x \in tokens' : x \in tokens \/ GivenOK(x)'

(* See Sound. *)
LEMMA SoundSteps ==
    ASSUME LoginInv, Grows, Sound
    PROVE  LoginInv'
  <1> USE DEF LoginInv, Sound
  <1>1. Numbers /\ Numbers' /\ Functions' /\ UsersOK'
    BY Zenon
  <1>2. RegsOK'
    BY <1>1, RowsStay, Zenon DEF RegsOK
  <1>3. AuthsOK' /\ SSHsOK'
    BY <1>1, RowsStay, Zenon DEF AuthsOK, SSHsOK
  <1>4. StatesOK'
    BY <1>1, RowsStay, Zenon DEF StatesOK
  <1>5. SessionsOK' /\ HandlersOK'
    BY <1>1, CopiesStay, Zenon DEF SessionsOK, HandlersOK
  <1>6. StreamsOK'
    BY <1>1, RowsStay, Zenon DEF StreamsOK
  <1>7. ChecksOK'
    BY <1>1, RowsStay, GrantsStay, Zenon DEF ChecksOK
  <1>8. MachinesOK' /\ TokensOK'
    BY <1>1, CopiesStay, Zenon DEF MachinesOK, TokensOK, Grows
  <1> QED
    BY <1>1, <1>2, <1>3, <1>4, <1>5, <1>6, <1>7, <1>8, Zenon

----------------------------------------------------------------------------
(* The steps.  First those of the sides that wait.                         *)

(* A row that is found by its key is a sound one. *)
LEMMA RowFound ==
    ASSUME LoginInv, NEW flow \in {"r", "c", "s"}, NEW k \in Keys, Row(flow, k) # NoRow
    PROVE  RowOK(flow, k, Row(flow, k))
  <1>1. CASE flow = "r"
    <2>1. ByKey(k) # {} /\ Row(flow, k) = regs[CHOOSE d \in ByKey(k) : TRUE]
      BY <1>1, Zenon DEF Row
    <2>2. PICK d \in ByKey(k) : Row(flow, k) = regs[d]
      BY <2>1, Zenon
    <2>3. RegOK(regs[d]) /\ regs[d].key = k
      BY <2>2, Zenon DEF LoginInv, RegsOK, ByKey
    <2>4. k \in Drawn
      BY <2>3, Zenon DEF RegOK
    <2> QED
      BY <1>1, <2>2, <2>3, <2>4, Zenon DEF RowOK
  <1>2. CASE flow = "c"
    BY <1>2, Zenon DEF Row, LoginInv, AuthsOK
  <1>3. CASE flow = "s"
    BY <1>3, Zenon DEF Row, LoginInv, SSHsOK
  <1> QED
    BY <1>1, <1>2, <1>3, Zenon

(* A step of a waiting device that only moves its follow-up request. *)
LEMMA FollowSteps ==
    ASSUME LoginInv,
           UNCHANGED <<load, dataVars, rowVars, browserVars, stream, check, asked, lastKey>>
    PROVE  LoginInv'
  <1> USE DEF dataVars, rowVars, browserVars
  <1>1. Grows
    BY SMT DEF Grows, LoginInv, Numbers
  <1>2. Numbers' /\ Functions' /\ UsersOK'
    BY Zenon DEF LoginInv, Numbers, Functions, UsersOK
  <1>3. Sound
    BY <1>2, Zenon DEF Sound
  <1> QED
    BY <1>1, <1>3, SoundSteps, Zenon

(* A drawn key is a new one. *)
LEMMA DrawnKey ==
    ASSUME LoginInv, NEW x, Draw(x), load' = load
    PROVE  /\ lastKey + 1 \in Keys /\ lastKey + 1 \in Drawn' /\ lastKey + 1 \notin Drawn
           /\ lastKey' = lastKey + 1 /\ lastKey' \in 0 .. MaxKey
           /\ asked'[lastKey + 1] = x /\ \A k \in Drawn : asked'[k] = asked[k]
           /\ DOMAIN asked' = Keys
           /\ Drawn \subseteq Keys
  <1>1. load.keys \in 0 .. MaxKey /\ lastKey < load.keys /\ lastKey \in Nat /\ MaxKey \in Nat
    BY LoginAssumption DEF Draw, LoginInv, Numbers
  <1>2. /\ lastKey + 1 \in Keys /\ lastKey + 1 \in Drawn' /\ lastKey + 1 \notin Drawn
        /\ lastKey' = lastKey + 1 /\ lastKey' \in 0 .. MaxKey /\ Drawn \subseteq Keys
    BY <1>1, SMT DEF Draw, Keys, Drawn
  <1>3. asked' = [asked EXCEPT ![lastKey + 1] = x] /\ DOMAIN asked = Keys
    BY Zenon DEF Draw, LoginInv, Functions
  <1> QED
    BY <1>2, <1>3, Zenon

(* authenticateMachine draws a key and replaces the row of the device. *)
LEMMA AuthenticateMachineStep ==
    ASSUME LoginInv, NEW d \in Devices, AuthenticateMachine(d)
    PROVE  LoginInv'
  <1> USE DEF dataVars, rowVars, browserVars, waitVars
  <1>1. Draw(d) /\ load' = load
    BY Zenon DEF AuthenticateMachine
  <1>2. Grows
    BY <1>1, DrawnKey, SMT DEF AuthenticateMachine, Grows, LoginInv, Numbers
  <1>3. PICK row : row = [device |-> d, key |-> lastKey + 1, authenticated |-> FALSE,
                          error |-> FALSE, user |-> NoUser]
    BY Zenon
  <1>4. regs' = [regs EXCEPT ![d] = row]
    BY <1>3, Zenon DEF AuthenticateMachine
  <1>5. RegOK(row)' /\ row.device = d
    BY <1>1, <1>3, DrawnKey, Zenon DEF RegOK, RegFields
  <1>6. Functions' /\ Numbers' /\ UsersOK'
    BY <1>1, <1>4, DrawnKey, Zenon DEF AuthenticateMachine, LoginInv, Functions, Numbers, UsersOK
  <1>7. \A e \in Devices : regs'[e] = IF e = d THEN row ELSE regs[e]
    BY <1>4, Zenon DEF LoginInv, Functions
  <1>8. Sound
    BY <1>5, <1>6, <1>7, Zenon DEF AuthenticateMachine, Sound
  <1> QED
    BY <1>2, <1>8, SoundSteps, Zenon

(* Authenticate opens a request of its own and a stream that waits for it. *)
LEMMA AuthenticateStep ==
    ASSUME LoginInv, NEW sent \in BOOLEAN, Authenticate(sent)
    PROVE  LoginInv'
  <1> USE DEF dataVars, rowVars, browserVars, waitVars
  <1>1. Draw(NoRow) /\ load' = load
    BY Zenon DEF Authenticate
  <1>0. PICK n : n = lastKey + 1
    BY Zenon
  <1>2. Grows
    BY <1>1, DrawnKey, SMT DEF Authenticate, Grows, LoginInv, Numbers
  <1>3. PICK row : row = [token |-> NoToken, error |-> FALSE]
    BY Zenon
  <1>4. PICK st : st = [st |-> IF sent THEN "open" ELSE "unsent", token |-> NoToken]
    BY Zenon
  <1>5. /\ auths' = [auths EXCEPT ![n] = row]
        /\ stream' = [stream EXCEPT ![n] = st]
    BY <1>0, <1>3, <1>4, Zenon DEF Authenticate
  <1>6. RowOK("c", n, row)'
    BY <1>0, <1>1, <1>3, DrawnKey, Zenon DEF RowOK, AuthOK, TokenOK
  <1>7. DOMAIN st = {"st", "token"} /\ TokenOK(n, st.token)'
    BY <1>4, Zenon DEF TokenOK
  <1>8. Functions' /\ Numbers' /\ UsersOK'
    BY <1>0, <1>1, <1>5, DrawnKey, Zenon DEF Authenticate, LoginInv, Functions, Numbers, UsersOK
  <1>9. \A k \in Keys : /\ auths'[k] = IF k = n THEN row ELSE auths[k]
                        /\ stream'[k] = IF k = n THEN st ELSE stream[k]
    BY <1>5, Zenon DEF LoginInv, Functions
  <1>10. /\ \A k \in Keys : auths'[k] = auths[k] \/ RowOK("c", k, auths[k])'
         /\ \A k \in Keys : stream'[k] = stream[k]
                   \/ (DOMAIN stream'[k] = {"st", "token"} /\ TokenOK(k, stream[k].token)')
    BY <1>6, <1>7, <1>9, Zenon
  <1>11. Sound
    BY <1>8, <1>10, Zenon DEF Authenticate, Sound
  <1> QED
    BY <1>2, <1>11, SoundSteps, Zenon

(* The end of a stream: it takes the token of its own row and deletes it. *)
LEMMA EndStreamStep ==
    ASSUME LoginInv, NEW k \in Keys, NEW x, NEW st, EndStream(k, st, x), TokenOK(k, x)
    PROVE  LoginInv'
  <1> USE DEF dataVars, rowVars, browserVars, waitVars
  <1>1. Grows
    BY SMT DEF EndStream, Grows, LoginInv, Numbers
  <1>2. PICK s : s = [st |-> st, token |-> x]
    BY Zenon
  <1>3. stream' = [stream EXCEPT ![k] = s]
    BY <1>2, Zenon DEF EndStream
  <1>4. DOMAIN s = {"st", "token"} /\ TokenOK(k, s.token)'
    <2>1. TokenOK(k, x)'
      BY Zenon DEF EndStream, TokenOK
    <2> QED
      BY <1>2, <2>1, Zenon
  <1>5. Functions' /\ Numbers' /\ UsersOK'
    BY <1>3, Zenon DEF EndStream, LoginInv, Functions, Numbers, UsersOK
  <1>6. \A j \in Keys : /\ auths'[j] = IF j = k THEN NoRow ELSE auths[j]
                        /\ stream'[j] = IF j = k THEN s ELSE stream[j]
    BY <1>3, Zenon DEF LoginInv, Functions, EndStream
  <1>7. Sound
    BY <1>4, <1>5, <1>6, Zenon DEF EndStream, Sound
  <1> QED
    BY <1>1, <1>7, SoundSteps, Zenon

(* The streams that end, whoever ends them. *)
LEMMA StreamSteps ==
    ASSUME LoginInv, NEW k \in Keys, AuthenticateAnswer(k) \/ AuthenticateHangUp(k)
    PROVE  LoginInv'
  <1>1. CASE AuthenticateHangUp(k)
    <2>1. TokenOK(k, NoToken)
      BY Zenon DEF TokenOK
    <2> QED
      BY <1>1, <2>1, EndStreamStep, Zenon DEF AuthenticateHangUp
  <1>2. CASE AuthenticateAnswer(k)
    <2>1. PICK x : x = IF auths[k] = NoRow THEN NoToken ELSE auths[k].token
      BY Zenon
    <2>2. TokenOK(k, x)
      BY <2>1, Zenon DEF TokenOK, LoginInv, AuthsOK, RowOK, AuthOK
    <2>3. EndStream(k, "closed", x)
      BY <1>2, <2>1, Zenon DEF AuthenticateAnswer
    <2> QED
      BY <2>2, <2>3, EndStreamStep, Zenon
  <1> QED
    BY <1>1, <1>2, Zenon

(* SSH StartAuth opens a request of its own, unless the check is recent. *)
LEMMA SSHStartAuthStep ==
    ASSUME LoginInv, NEW m, SSHStartAuth(m)
    PROVE  LoginInv'
  <1> USE DEF dataVars, rowVars, browserVars, waitVars
  <1>1. Draw(NoRow) /\ load' = load
    BY Zenon DEF SSHStartAuth
  <1>2. PICK n : n = lastKey + 1
    BY Zenon
  <1>3. /\ n \in Keys /\ n \in Drawn' /\ n \notin Drawn /\ Drawn \subseteq Keys
        /\ \A k \in Drawn : asked'[k] = asked[k]
    BY <1>1, <1>2, DrawnKey, Zenon
  <1>4. PICK st : /\ st \in {"trusted", "waiting"}
                  /\ check' = [check EXCEPT ![n] = [st |-> st, src |-> m]]
    BY <1>2, Zenon DEF SSHStartAuth
  <1>5. PICK c : c = [st |-> st, src |-> m]
    BY Zenon
  <1>6. DOMAIN c = {"st", "src"} /\ c.st # "accepted" /\ c.src = m
    BY <1>4, <1>5, Zenon
  <1>7. \A k \in Keys : check'[k] = IF k = n THEN c ELSE check[k]
    BY <1>4, <1>5, Zenon DEF LoginInv, Functions
  <1>8. PICK row : row = [src |-> m, action |-> "none"]
    BY Zenon
  <1>9. sshs' = sshs \/ sshs' = [sshs EXCEPT ![n] = row]
    BY <1>2, <1>8, Zenon DEF SSHStartAuth
  <1>10. RowOK("s", n, row)'
    BY <1>3, <1>6, <1>7, <1>8, Zenon DEF RowOK, SSHOK
  <1>11. \A k \in Keys : sshs'[k] = sshs[k] \/ RowOK("s", k, sshs[k])'
    BY <1>9, <1>10, Zenon DEF LoginInv, Functions
  <1>12. Grows
    <2>1. \A k \in Drawn : check'[k] = check[k]
      BY <1>3, <1>7, Zenon
    <2> QED
      BY <1>1, <1>3, <2>1, DrawnKey, SMT DEF SSHStartAuth, Grows, LoginInv, Numbers
  <1>13. DOMAIN sshs' = Keys /\ DOMAIN check' = Keys
    BY <1>4, <1>9, Zenon DEF LoginInv, Functions
  <1>14. Functions' /\ Numbers' /\ UsersOK'
    BY <1>1, <1>13, DrawnKey, Zenon DEF SSHStartAuth, LoginInv, Functions, Numbers, UsersOK
  <1>15. Sound
    BY <1>6, <1>7, <1>11, <1>14, Zenon DEF SSHStartAuth, Sound
  <1> QED
    BY <1>12, <1>15, SoundSteps, Zenon

(* A held request is answered from its own row, or the node hangs up. *)
LEMMA CheckSteps ==
    ASSUME LoginInv, NEW k \in Keys, CheckAnswer(k) \/ CheckHangUp(k)
    PROVE  LoginInv'
  <1> USE DEF dataVars, rowVars, browserVars, waitVars
  <1>1. DOMAIN check[k] = {"st", "src"} /\ DOMAIN check = Keys /\ DOMAIN sshs = Keys
    BY Zenon DEF LoginInv, ChecksOK, Functions
  <1>2. PICK st : /\ check' = [check EXCEPT ![k].st = st]
                  /\ st = "accepted" => sshs[k] # NoRow /\ sshs[k].action = "accept"
    BY DEF CheckAnswer, CheckHangUp
  <1>3. PICK c : c = [check[k] EXCEPT !.st = st]
    BY Zenon
  <1>4. DOMAIN c = {"st", "src"} /\ c.st = st /\ c.src = check[k].src
    BY <1>1, <1>3, Zenon
  <1>5. \A j \in Keys : check'[j] = IF j = k THEN c ELSE check[j]
    BY <1>1, <1>2, <1>3, Zenon
  <1>6. \A j \in Keys : check'[j].src = check[j].src
    BY <1>4, <1>5, Zenon
  <1>7. st = "accepted" => k \in Drawn /\ GrantedSSH(k, check[k].src.user.who)
    BY <1>2, Zenon DEF LoginInv, SSHsOK, RowOK, SSHOK
  <1>8. Grows
    BY <1>6, LoginAssumption, SMT
    DEF CheckAnswer, CheckHangUp, Grows, LoginInv, Numbers, Keys, Drawn
  <1>9. \A j \in Keys : sshs'[j] \in {sshs[j], NoRow}
    BY <1>1, Zenon DEF CheckAnswer, CheckHangUp
  <1>10. DOMAIN check' = Keys /\ DOMAIN sshs' = Keys
    BY <1>1, <1>2, Zenon DEF CheckAnswer, CheckHangUp
  <1>11. Functions' /\ Numbers' /\ UsersOK'
    BY <1>10, Zenon DEF CheckAnswer, CheckHangUp, LoginInv, Functions, Numbers, UsersOK
  <1>12. st = "accepted" => k \in Drawn' /\ GrantedSSH(k, check[k].src.user.who)'
    <2>1. st = "accepted" => k \in Drawn' /\ GrantedSSH(k, c.src.user.who)'
      BY <1>4, <1>7, <1>8, <1>11, RowsStay, GrantsStay, Zenon DEF LoginInv
    <2> QED
      BY <2>1, <1>5, Zenon
  <1>13. Sound
    BY <1>4, <1>5, <1>9, <1>11, <1>12, Zenon DEF CheckAnswer, CheckHangUp, Sound
  <1> QED
    BY <1>8, <1>13, SoundSteps, Zenon

----------------------------------------------------------------------------
(* The steps of the browser's side. *)

(* StartAuth hands out a state. *)
LEMMA StartAuthStep ==
    ASSUME LoginInv, NEW flow \in {"r", "c", "s"}, NEW k \in Keys, StartAuth(flow, k)
    PROVE  LoginInv'
  <1> USE DEF dataVars, rowVars, browserVars, waitVars
  <1>1. Grows
    BY SMT DEF StartAuth, Grows, LoginInv, Numbers
  <1>2. Functions' /\ Numbers' /\ UsersOK'
    BY Zenon DEF StartAuth, LoginInv, Functions, Numbers, UsersOK
  <1>3. \A s \in states' : s \in states
                          \/ (s.flow \in {"r", "c", "s"} /\ s.key \in Keys \cap Drawn')
    <2>1. k \in Drawn'
      BY <1>1, <1>2, RowFound, RowsStay, Zenon DEF StartAuth, RowOK, LoginInv
    <2> QED
      BY <2>1, SMT DEF StartAuth
  <1>4. Sound
    BY <1>2, <1>3, Zenon DEF StartAuth, Sound
  <1> QED
    BY <1>1, <1>4, SoundSteps, Zenon

(* A step that gives one handler something sound to carry, and at most     *)
(* adds a grant and sessions that are sound.                               *)
LEMMA HandlerSteps ==
    ASSUME LoginInv, grants \subseteq grants', DOMAIN hs' = Handlers,
           \A h \in Handlers : hs'[h] = hs[h] \/ HandlerOK(hs[h])',
           \A c \in sessions' : c \in sessions \/ SessionOK(c)',
           UNCHANGED <<load, dataVars, rowVars, states, waitVars>>
    PROVE  LoginInv'
  <1> USE DEF dataVars, rowVars, browserVars, waitVars
  <1>1. Grows
    BY SMT DEF Grows, LoginInv, Numbers
  <1>2. Functions' /\ Numbers' /\ UsersOK'
    BY Zenon DEF LoginInv, Functions, Numbers, UsersOK
  <1>3. Sound
    BY <1>2, Zenon DEF Sound
  <1> QED
    BY <1>1, <1>3, SoundSteps, Zenon

(* The same, for the record that the handler is given. *)
LEMMA BusySteps ==
    ASSUME LoginInv, NEW h \in Handlers, NEW r, Busy(h, r), HandlerOK(r)',
           grants \subseteq grants', UNCHANGED sessions,
           UNCHANGED <<load, dataVars, rowVars, states, waitVars>>
    PROVE  LoginInv'
  <1>1. DOMAIN hs' = Handlers /\ \A g \in Handlers : hs'[g] = IF g = h THEN r ELSE hs[g]
    BY Zenon DEF Busy, LoginInv, Functions
  <1>2. \A g \in Handlers : hs'[g] = hs[g] \/ HandlerOK(hs[g])'
    BY <1>1, Zenon
  <1> QED
    BY <1>1, <1>2, HandlerSteps, Zenon

(* A handler that does nothing carries nothing. *)
LEMMA IdleOK == HandlerOK(Idle) /\ HandlerOK(Idle)'
  BY Zenon DEF HandlerOK, Idle, HandlerFields

(* Refusing a registration leaves a sound row. *)
LEMMA UndoOK ==
    ASSUME NEW k, NEW row
    PROVE  /\ RowOK("r", k, row) => RowOK("r", k, Undo(row))
           /\ RowOK("r", k, row)' => RowOK("r", k, Undo(row))'
  <1>1. PICK u : u = Undo(row)
    BY Zenon
  <1>2. DOMAIN row = RegFields =>
            /\ DOMAIN u = RegFields /\ u.device = row.device /\ u.key = row.key
            /\ u.authenticated = FALSE
    BY <1>1, Zenon DEF Undo, RegFields
  <1> QED
    BY <1>1, <1>2, Zenon DEF RowOK, RegOK

(* So does the note that a login failed. *)
LEMMA ErrorOK ==
    ASSUME NEW flow \in {"r", "c"}, NEW k, NEW row, RowOK(flow, k, row)
    PROVE  RowOK(flow, k, [row EXCEPT !.error = TRUE])
  <1>1. PICK u : u = [row EXCEPT !.error = TRUE]
    BY Zenon
  <1>2. CASE flow = "r"
    <2>1. RegOK(row) /\ row.key = k /\ k \in Drawn
      BY <1>2, Zenon DEF RowOK
    <2>2. /\ DOMAIN u = RegFields /\ u.device = row.device /\ u.key = row.key
          /\ u.authenticated = row.authenticated /\ u.user = row.user
      BY <1>1, <2>1, Zenon DEF RegOK, RegFields
    <2>3. RegOK(u)
      BY <2>1, <2>2, Zenon DEF RegOK
    <2> QED
      BY <1>1, <1>2, <2>1, <2>2, <2>3, Zenon DEF RowOK
  <1>3. CASE flow = "c"
    <2>1. AuthOK(k, row) /\ k \in Drawn
      BY <1>3, Zenon DEF RowOK
    <2>2. DOMAIN u = {"token", "error"} /\ u.token = row.token
      BY <1>1, <2>1, Zenon DEF AuthOK
    <2> QED
      BY <1>1, <1>3, <2>1, <2>2, Zenon DEF RowOK, AuthOK
  <1> QED
    BY <1>2, <1>3, Zenon

(* A browser that brings an auth key. *)
LEMMA StartAuthWithKeyStep ==
    ASSUME LoginInv, NEW h \in Handlers, NEW k \in Keys, NEW u \in users \cup {NoUser},
           StartAuthWithKey(h, k, u)
    PROVE  LoginInv'
  <1> DEFINE owner == u # NoUser /\ u.who \in TagOwners
  <1>1. PICK row : row = Row("r", k)
    BY Zenon
  <1>2. RowOK("r", k, row) /\ RowOK("r", k, Undo(row))
    BY <1>1, RowFound, UndoOK, Zenon DEF StartAuthWithKey
  <1>3. PICK r : r = [Idle EXCEPT !.key = k, !.user = u,
                            !.pc = IF owner THEN "save" ELSE "refuse",
                            !.row = IF owner THEN row ELSE Undo(row)]
    BY Zenon
  <1>4. Busy(h, r)
    BY <1>1, <1>3, Zenon DEF StartAuthWithKey
  <1>5. /\ DOMAIN r = HandlerFields /\ r.key = k /\ r.user = u /\ r.flow = "r"
        /\ r.admin = FALSE
        /\ r.pc = IF owner THEN "save" ELSE "refuse"
        /\ r.row = IF owner THEN row ELSE Undo(row)
    BY <1>3, Zenon DEF Idle, HandlerFields
  <1>6. UNCHANGED <<load, dataVars, rowVars, states, sessions, waitVars>>
    BY Zenon DEF StartAuthWithKey
  <1>7. Grows /\ Numbers /\ Numbers'
    BY <1>6, SMT
    DEF StartAuthWithKey, Grows, LoginInv, Numbers, dataVars, rowVars, waitVars
  <1>8. RowOK("r", k, r.row)'
    BY <1>2, <1>5, <1>7, RowsStay, Zenon
  <1>9. u # NoUser => u.id \in 0 .. lastUser'
    BY <1>7, SMT DEF LoginInv, UsersOK, Grows, Numbers
  <1>10. u # NoUser => Granted("r", k, u.who, u.tailnet)'
    <2>1. PICK g : g = [flow |-> "r", key |-> k, who |-> u.who,
                        tailnets |-> {u.tailnet}, admin |-> FALSE]
      BY Zenon
    <2>2. u # NoUser => g \in grants'
      BY <2>1, Zenon DEF StartAuthWithKey
    <2> QED
      BY <2>1, <2>2, Zenon DEF Granted
  <1>11. HandlerOK(r)'
    BY <1>5, <1>8, <1>9, <1>10, Zenon DEF HandlerOK
  <1> QED
    BY <1>4, <1>6, <1>7, <1>11, BusySteps, Zenon DEF Grows

(* The SSH branch of Callback. *)
LEMMA CallbackSSHStep ==
    ASSUME LoginInv, NEW h \in Handlers, NEW s \in states, NEW i \in load.people,
           Callback(h, s, i), s.flow = "s", Grows, Numbers'
    PROVE  LoginInv'
  <1>1. PICK row : row = Row("s", s.key)
    BY Zenon
  <1>2. UNCHANGED <<load, dataVars, rowVars, states, waitVars>> /\ UNCHANGED sessions
    BY Zenon DEF Callback, CallbackSSH
  <1>3. grants \subseteq grants'
    BY Zenon DEF Grows
  <1>4. CASE UNCHANGED hs
    BY <1>2, <1>3, <1>4, HandlerSteps, Zenon DEF LoginInv, Functions
  <1>5. CASE hs' # hs
    <2>1. PICK k : k = s.key
      BY Zenon
    <2>a. PICK hasTags \in BOOLEAN :
             /\ row # NoRow
             /\ Busy(h, [Idle EXCEPT !.pc = "ssh", !.flow = "s", !.key = s.key,
                            !.user = row.src.user,
                            !.row = [row EXCEPT !.action =
                                IF ~hasTags /\ row.src.user.who = i
                                THEN "accept" ELSE "reject"]])
      BY <1>1, <1>5, Zenon DEF Callback, CallbackSSH
    <2>2. PICK x : x = IF ~hasTags /\ row.src.user.who = i THEN "accept" ELSE "reject"
      BY Zenon
    <2>3. PICK a : a = [row EXCEPT !.action = x]
      BY Zenon
    <2>4. PICK r : r = [Idle EXCEPT !.pc = "ssh", !.flow = "s", !.key = k,
                                    !.user = row.src.user, !.row = a]
      BY Zenon
    <2>5. row # NoRow /\ Busy(h, r)
      BY <2>a, <2>1, <2>2, <2>3, <2>4, Zenon
    <2>6. k \in Keys
      BY <2>1, Zenon DEF LoginInv, StatesOK
    <2>7. RowOK("s", k, row)'
      BY <1>1, <2>1, <2>5, <2>6, RowFound, RowsStay, Zenon DEF LoginInv
    <2>8. DOMAIN a = {"src", "action"} /\ a.src = row.src /\ a.action = x
      BY <2>3, <2>7, Zenon DEF RowOK, SSHOK
    <2>9. row.src.user.who = i => GrantedSSH(k, row.src.user.who)'
      <3>1. PICK g : g = [flow |-> s.flow, key |-> s.key, who |-> i,
                          tailnets |-> Avail(i), admin |-> i \in SystemAdmins]
        BY Zenon
      <3>2. g \in grants' /\ g.flow = "s" /\ g.key = k /\ g.who = i
        BY <2>1, <3>1, Zenon DEF Callback
      <3> QED
        BY <3>2, Zenon DEF GrantedSSH
    <2>10. RowOK("s", k, a)'
      BY <2>2, <2>7, <2>8, <2>9, Zenon DEF RowOK, SSHOK
    <2>11. /\ DOMAIN r = HandlerFields /\ r.key = k /\ r.flow = "s" /\ r.admin = FALSE
           /\ r.pc = "ssh" /\ r.row = a
      BY <2>4, Zenon DEF Idle, HandlerFields
    <2>12. HandlerOK(r)'
      BY <2>10, <2>11, Zenon DEF HandlerOK
    <2> QED
      BY <1>2, <1>3, <2>5, <2>12, BusySteps, Zenon
  <1> QED
    BY <1>4, <1>5, Zenon

(* The record of a handler that ends a login, of Callback or of EndAuth. *)
LEMMA EndOK ==
    ASSUME NEW s, NEW row, NEW i \in Identities, NEW t, NEW a \in BOOLEAN, NEW h, NEW r,
           r = [Idle EXCEPT !.pc = "end", !.flow = s.flow, !.key = s.key,
                            !.row = row, !.who = i, !.tailnet = t, !.admin = a],
           s.flow \in {"r", "c"}, RowOK(s.flow, s.key, row)',
           ~a => t \in Tailnets /\ Granted(s.flow, s.key, i, t)',
           a => s.flow = "c" /\ GrantedAdmin(s.key, i)'
    PROVE  HandlerOK(r)'
  <1>1. PICK f, k : f = s.flow /\ k = s.key
    BY Zenon
  <1>2. /\ DOMAIN r = HandlerFields /\ r.pc = "end" /\ r.flow = f /\ r.key = k
        /\ r.row = row /\ r.who = i /\ r.tailnet = t /\ r.admin = a /\ r.user = NoUser
    BY <1>1, Zenon DEF Idle, HandlerFields
  <1> QED
    BY <1>1, <1>2, Zenon DEF HandlerOK

(* The other branches of Callback. *)
LEMMA CallbackLoginStep ==
    ASSUME LoginInv, NEW h \in Handlers, NEW s \in states, NEW i \in load.people,
           Callback(h, s, i), s.flow # "s", Grows, Numbers'
    PROVE  LoginInv'
  <1> DEFINE sysadmin == s.flow = "c" /\ i \in SystemAdmins
  <1>1. PICK row : row = Row(s.flow, s.key)
    BY Zenon
  <1>2. UNCHANGED <<load, dataVars, rowVars, states, waitVars>> /\ CallbackLogin(h, s, i)
    BY Zenon DEF Callback
  <1>3. grants \subseteq grants' /\ DOMAIN hs = Handlers
    BY Zenon DEF Grows, LoginInv, Functions
  <1>4. s.flow \in {"r", "c"} /\ s.key \in Keys /\ i \in Identities
    BY LoginAssumption, Zenon DEF LoginInv, StatesOK, Numbers
  <1>5. Avail(i) \subseteq Tailnets
    BY Zenon DEF LoginInv, Numbers, Avail
  <1>6. /\ \A t \in Avail(i) : Granted(s.flow, s.key, i, t)'
        /\ sysadmin => GrantedAdmin(s.key, i)'
    <2>1. PICK g : g = [flow |-> s.flow, key |-> s.key, who |-> i,
                        tailnets |-> Avail(i), admin |-> i \in SystemAdmins]
      BY Zenon
    <2>2. /\ g \in grants' /\ g.flow = s.flow /\ g.key = s.key /\ g.who = i
          /\ g.tailnets = Avail(i) /\ g.admin = (i \in SystemAdmins)
      BY <2>1, Zenon DEF Callback
    <2>3. ASSUME NEW t \in Avail(i) PROVE Granted(s.flow, s.key, i, t)'
      BY <2>2, Zenon DEF Granted
    <2>4. ASSUME sysadmin PROVE GrantedAdmin(s.key, i)'
      BY <2>2, <2>4, Zenon DEF GrantedAdmin
    <2> QED
      BY <2>3, <2>4, Zenon
  <1>7. row # NoRow => RowOK(s.flow, s.key, row) /\ RowOK(s.flow, s.key, row)'
    BY <1>1, <1>4, RowFound, RowsStay, SMTT(60) DEF LoginInv
  <1>8. CASE UNCHANGED <<hs, sessions>>
    BY <1>2, <1>3, <1>8, HandlerSteps, Zenon
  <1>9. CASE Refuse(h, s, row) /\ UNCHANGED sessions /\ row # NoRow
    <2>1. PICK e : e = [row EXCEPT !.error = TRUE]
      BY Zenon
    <2>2. PICK r : r = [Idle EXCEPT !.pc = "refuse", !.flow = s.flow, !.key = s.key,
                                    !.row = e]
      BY Zenon
    <2>3. Busy(h, r)
      BY <1>9, <2>1, <2>2, Zenon DEF Refuse
    <2>4. RowOK(s.flow, s.key, e)'
      BY <1>4, <1>7, <1>9, <2>1, ErrorOK, RowsStay, Zenon DEF LoginInv
    <2>5. PICK f, k : f = s.flow /\ k = s.key
      BY Zenon
    <2>6. /\ DOMAIN r = HandlerFields /\ r.pc = "refuse" /\ r.flow = f /\ r.key = k
          /\ r.row = e /\ r.admin = FALSE
      BY <2>2, <2>5, Zenon DEF Idle, HandlerFields
    <2>7. HandlerOK(r)'
      BY <1>4, <2>4, <2>5, <2>6, Zenon DEF HandlerOK
    <2> QED
      BY <1>2, <1>3, <1>9, <2>3, <2>7, BusySteps, Zenon
  <1>10. CASE \E t \in Avail(i) : End(h, s, row, i, t, FALSE) /\ UNCHANGED sessions /\ row # NoRow
    <2>1. PICK t \in Avail(i) : End(h, s, row, i, t, FALSE)
      BY <1>10, Zenon
    <2>2. PICK r : r = [Idle EXCEPT !.pc = "end", !.flow = s.flow, !.key = s.key,
                            !.row = row, !.who = i, !.tailnet = t, !.admin = FALSE]
      BY Zenon
    <2>3. Busy(h, r)
      BY <1>10, <2>1, <2>2, Zenon DEF End
    <2>4. HandlerOK(r)'
      BY <1>4, <1>5, <1>6, <1>7, <1>10, <2>2, EndOK, Zenon
    <2> QED
      BY <1>2, <1>3, <1>10, <2>3, <2>4, BusySteps, Zenon
  <1>11. CASE /\ sessions' = sessions \cup {[flow |-> s.flow, key |-> s.key, who |-> i,
                                             admin |-> sysadmin, tailnets |-> Avail(i)]}
              /\ UNCHANGED hs
    <2>1. PICK c : c = [flow |-> s.flow, key |-> s.key, who |-> i,
                        admin |-> sysadmin, tailnets |-> Avail(i)]
      BY Zenon
    <2>2. s.key \in Drawn'
      BY RowsStay, Zenon DEF LoginInv, StatesOK
    <2>3. SessionOK(c)'
      <3>1. /\ c.flow = s.flow /\ c.key = s.key /\ c.who = i
            /\ c.admin = sysadmin /\ c.tailnets = Avail(i)
        BY <2>1, Zenon
      <3> QED
        BY <1>4, <1>5, <1>6, <2>2, <3>1, Zenon DEF SessionOK
    <2> QED
      BY <1>2, <1>3, <1>11, <2>1, <2>3, HandlerSteps, Zenon
  <1> QED
    BY <1>1, <1>2, <1>8, <1>9, <1>10, <1>11, Zenon DEF CallbackLogin, Refuse, End

(* Callback adds a grant, and what its branches make of it is sound. *)
LEMMA CallbackStep ==
    ASSUME LoginInv, NEW h \in Handlers, NEW s \in states, NEW i \in load.people,
           Callback(h, s, i)
    PROVE  LoginInv'
  <1>1. Grows /\ Numbers'
    BY SMTT(60) DEF Callback, Grows, LoginInv, Numbers, dataVars, rowVars, waitVars
  <1> QED
    BY <1>1, CallbackSSHStep, CallbackLoginStep, Zenon

(* EndAuth takes from a session only what that session grants. *)
LEMMA EndAuthStep ==
    ASSUME LoginInv, NEW h \in Handlers, NEW s \in states, NEW c \in sessions, NEW t,
           NEW a \in BOOLEAN, EndAuth(h, s, c, t, a)
    PROVE  LoginInv'
  <1>1. PICK row : row = Row(s.flow, s.key)
    BY Zenon
  <1>2. /\ UNCHANGED <<load, dataVars, rowVars, states, waitVars>>
        /\ UNCHANGED sessions /\ UNCHANGED grants
    BY Zenon DEF EndAuth
  <1>3. Grows /\ Numbers'
    BY <1>2, SMTT(60) DEF Grows, LoginInv, Numbers, dataVars, rowVars, waitVars
  <1>4. SessionOK(c)'
    BY <1>3, CopiesStay, Zenon DEF LoginInv, SessionsOK
  <1>5. s.flow \in {"r", "c"} /\ s.key \in Keys /\ c.flow = s.flow /\ c.key = s.key
    BY Zenon DEF EndAuth, LoginInv, StatesOK
  <1>6. row # NoRow /\ RowOK(s.flow, s.key, row)'
    BY <1>1, <1>3, <1>5, RowFound, RowsStay, SMTT(60) DEF EndAuth, LoginInv
  <1>7. PICK r : r = [Idle EXCEPT !.pc = "end", !.flow = s.flow, !.key = s.key,
                          !.row = row, !.who = c.who, !.tailnet = t, !.admin = a]
    BY Zenon
  <1>8. Busy(h, r)
    BY <1>1, <1>6, <1>7, Zenon DEF EndAuth, End
  <1>9. c.who \in Identities
    BY <1>4, Zenon DEF SessionOK
  <1>10. ~a => t \in Tailnets /\ Granted(s.flow, s.key, c.who, t)'
    BY <1>4, <1>5, Zenon DEF EndAuth, SessionOK
  <1>11. a => s.flow = "c" /\ GrantedAdmin(s.key, c.who)'
    BY <1>4, <1>5, Zenon DEF EndAuth, SessionOK
  <1>12. HandlerOK(r)'
    BY <1>5, <1>6, <1>7, <1>9, <1>10, <1>11, EndOK, Zenon
  <1> QED
    BY <1>2, <1>8, <1>12, BusySteps, Zenon

(* What WithUser gives the handler. *)
LEMMA WithUserOK ==
    ASSUME NEW r, HandlerOK(r)', r.pc \in {"end", "create"}, ~r.admin,
           NEW u, u # NoUser, u.id \in 0 .. lastUser', u.who = r.who, u.tailnet = r.tailnet
    PROVE  /\ HandlerOK([r EXCEPT !.pc = "refuse", !.row = Undo(r.row)])' \/ r.flow # "r"
           /\ HandlerOK([r EXCEPT !.pc = "save", !.user = u])'
  <1>1. /\ DOMAIN r = HandlerFields /\ RowOK(r.flow, r.key, r.row)' /\ r.flow \in {"r", "c"}
        /\ r.tailnet \in Tailnets /\ Granted(r.flow, r.key, r.who, r.tailnet)'
    BY Zenon DEF HandlerOK
  <1>2. PICK x : x = [r EXCEPT !.pc = "save", !.user = u]
    BY Zenon
  <1>3. /\ DOMAIN x = HandlerFields /\ x.pc = "save" /\ x.user = u /\ x.flow = r.flow
        /\ x.key = r.key /\ x.row = r.row /\ x.who = r.who /\ x.tailnet = r.tailnet
        /\ x.admin = r.admin
    BY <1>1, <1>2, Zenon DEF HandlerFields
  <1>4. HandlerOK(x)'
    BY <1>1, <1>3, Zenon DEF HandlerOK
  <1>5. ASSUME r.flow = "r" PROVE HandlerOK([r EXCEPT !.pc = "refuse", !.row = Undo(r.row)])'
    <2>1. PICK w : w = Undo(r.row)
      BY Zenon
    <2>2. PICK y : y = [r EXCEPT !.pc = "refuse", !.row = w]
      BY Zenon
    <2>3. /\ DOMAIN y = HandlerFields /\ y.pc = "refuse" /\ y.flow = r.flow
          /\ y.key = r.key /\ y.row = w /\ y.admin = r.admin
      BY <1>1, <2>2, Zenon DEF HandlerFields
    <2>4. RowOK("r", r.key, w)'
      BY <1>1, <1>5, <2>1, UndoOK, Zenon
    <2> QED
      BY <1>5, <2>1, <2>2, <2>3, <2>4, Zenon DEF HandlerOK
  <1> QED
    BY <1>2, <1>4, <1>5, Zenon

(* Among users there is one with the smallest id. *)
LEMMA FirstUser ==
    ASSUME NEW S, S # {}, \A u \in S : u.id \in Nat
    PROVE  \E u \in S : \A v \in S : u.id =< v.id
  <1>1. PICK ids : ids = {u.id : u \in S}
    BY Zenon
  <1>2. ids \subseteq Nat /\ ids # {}
    BY <1>1, Zenon
  <1>3. PICK n \in ids : \A m \in ids : <<m, n>> \notin OpToRel(<, Nat)
    BY <1>2, NatLessThanWellFounded, WFMin, Zenon
  <1>4. \A m \in ids : ~(m < n)
    BY <1>2, <1>3, Zenon DEF OpToRel
  <1>5. PICK u \in S : u.id = n
    BY <1>1, Zenon
  <1>6. ASSUME NEW v \in S PROVE u.id =< v.id
    <2>1. v.id \in ids /\ v.id \in Nat /\ n \in Nat
      BY <1>1, <1>2, Zenon
    <2> QED
      BY <1>4, <1>5, <2>1
  <1> QED
    BY <1>6, Zenon

(* The first half of GetOrCreateUserWithAccount. *)
LEMMA GetUserStep ==
    ASSUME LoginInv, NEW h \in Handlers, GetUserWithAccount(h)
    PROVE  LoginInv'
  <1>1. PICK r : r = hs[h]
    BY Zenon
  <1>2. /\ UNCHANGED <<load, dataVars, rowVars, states, waitVars>>
        /\ UNCHANGED sessions /\ UNCHANGED grants /\ r.pc = "end" /\ ~r.admin
    BY <1>1, Zenon DEF GetUserWithAccount
  <1>3. Grows /\ Numbers'
    BY <1>2, SMT DEF Grows, LoginInv, Numbers, dataVars, rowVars, waitVars
  <1>4. HandlerOK(r)'
    BY <1>1, <1>3, CopiesStay, Zenon DEF LoginInv, HandlersOK
  <1>5. CASE Busy(h, Idle)
    BY <1>2, <1>5, IdleOK, BusySteps, Zenon
  <1>6. CASE Busy(h, [r EXCEPT !.pc = "create"])
    <2>1. PICK x : x = [r EXCEPT !.pc = "create"]
      BY Zenon
    <2>2. /\ DOMAIN x = HandlerFields /\ x.pc = "create" /\ x.user = r.user
          /\ x.flow = r.flow /\ x.key = r.key /\ x.row = r.row /\ x.who = r.who
          /\ x.tailnet = r.tailnet /\ x.admin = r.admin
      BY <1>4, <2>1, Zenon DEF HandlerFields, HandlerOK
    <2>3. HandlerOK(x)'
      BY <1>2, <1>4, <2>2, Zenon DEF HandlerOK
    <2> QED
      BY <1>2, <1>6, <2>1, <2>3, BusySteps, Zenon
  <1>7. CASE \E u \in users : WithUser(h, u) /\ u.who = r.who /\ u.tailnet = r.tailnet
    <2>1. PICK u \in users : WithUser(h, u) /\ u.who = r.who /\ u.tailnet = r.tailnet
      BY <1>7, Zenon
    <2>2. u # NoUser /\ u.id \in 0 .. lastUser'
      BY <1>3, LoginAssumption, SMT DEF LoginInv, UsersOK, Grows, Numbers
    <2>3. PICK x : HandlerOK(x)' /\ Busy(h, x)
      BY <1>1, <1>2, <1>4, <2>1, <2>2, WithUserOK, Zenon DEF WithUser
    <2> QED
      BY <1>2, <2>3, BusySteps, Zenon
  <1> QED
    <2> DEFINE found == {u \in users : u.who = r.who /\ u.tailnet = r.tailnet}
    <2>1. CASE r.tailnet \notin tailnets
      BY <1>1, <1>5, <2>1, Zenon DEF GetUserWithAccount
    <2>2. CASE r.tailnet \in tailnets /\ found = {}
      BY <1>1, <1>6, <2>2, Zenon DEF GetUserWithAccount
    <2>3. CASE r.tailnet \in tailnets /\ found # {}
      <3>1. WithUser(h, CHOOSE u \in found : \A v \in found : u.id =< v.id)
        BY <1>1, <2>3, Zenon DEF GetUserWithAccount
      <3>2. (CHOOSE u \in found : \A v \in found : u.id =< v.id) \in found
        <4>1. \A u \in found : u.id \in Nat
          BY Zenon DEF LoginInv, UsersOK
        <4>2. \E u \in found : \A v \in found : u.id =< v.id
          BY <2>3, <4>1, FirstUser, Zenon
        <4> QED
          BY <4>2, Zenon
      <3> QED
        BY <1>7, <3>1, <3>2, Zenon
    <2> QED
      BY <2>1, <2>2, <2>3, Zenon

(* Its second half inserts a user with an id nobody had. *)
LEMMA CreateUserStep ==
    ASSUME LoginInv, NEW h \in Handlers, CreateUserWithAccount(h)
    PROVE  LoginInv'
  <1> USE DEF dataVars, rowVars, waitVars
  <1>1. PICK r : r = hs[h]
    BY Zenon
  <1>2. r.pc = "create" /\ HandlerOK(r)
    BY <1>1, Zenon DEF CreateUserWithAccount, LoginInv, HandlersOK
  <1>3. CASE r.tailnet \notin tailnets
    <2>1. /\ Busy(h, Idle) /\ UNCHANGED sessions /\ UNCHANGED grants
          /\ UNCHANGED <<load, dataVars, rowVars, states, waitVars>>
      BY <1>1, <1>3, Zenon DEF CreateUserWithAccount
    <2> QED
      BY <2>1, IdleOK, BusySteps, Zenon
  <1>4. CASE r.tailnet \in tailnets
    <2>1. PICK u : u = [id |-> lastUser + 1, who |-> r.who, tailnet |-> r.tailnet]
      BY Zenon
    <2>2. /\ users' = users \cup {u} /\ lastUser' = lastUser + 1 /\ WithUser(h, u)
          /\ UNCHANGED <<load, access, tailnets, fresh, machines, removed, admin, rowVars,
                         states, sessions, grants, waitVars>>
      BY <1>1, <1>4, <2>1, Zenon DEF CreateUserWithAccount
    <2>3. lastUser \in Nat /\ lastKey \in 0 .. MaxKey
      BY Zenon DEF LoginInv, Numbers
    <2>4. r.who \in Identities /\ r.tailnet \in Tailnets /\ ~r.admin
      BY <1>2, <1>4, Zenon DEF HandlerOK, LoginInv, Numbers
    <2>5. u \in [id : Nat, who : Identities, tailnet : Tailnets]
      BY <2>1, <2>3, <2>4
    <2>6. /\ u.id = lastUser + 1 /\ u.id \in 0 .. lastUser' /\ u.who = r.who
          /\ u.tailnet = r.tailnet /\ u # NoUser
      BY <2>1, <2>2, <2>3, <2>5, LoginAssumption
    <2>7. Grows
      BY <2>2, <2>3, <2>6, SMT DEF Grows
    <2>8. Numbers' /\ UsersOK'
      BY <2>2, <2>3, <2>5, <2>6, SMT DEF LoginInv, Numbers, UsersOK
    <2>9. HandlerOK(r)'
      BY <1>2, <2>7, <2>8, CopiesStay, Zenon DEF LoginInv
    <2>10. PICK x : HandlerOK(x)' /\ Busy(h, x)
      BY <1>1, <1>2, <2>2, <2>4, <2>6, <2>9, WithUserOK, Zenon DEF WithUser
    <2>11. DOMAIN hs' = Handlers /\ \A g \in Handlers : hs'[g] = IF g = h THEN x ELSE hs[g]
      BY <2>10, Zenon DEF Busy, LoginInv, Functions
    <2>12. \A g \in Handlers : hs'[g] = hs[g] \/ HandlerOK(hs[g])'
      BY <2>10, <2>11, Zenon
    <2>13. Functions'
      BY <2>2, <2>11, Zenon DEF LoginInv, Functions
    <2>14. Sound
      BY <2>2, <2>8, <2>12, <2>13, Zenon DEF Sound
    <2> QED
      BY <2>7, <2>14, SoundSteps, Zenon
  <1> QED
    BY <1>3, <1>4, Zenon

(* Saving a sound row into its table. *)
LEMMA SaveRowOK ==
    ASSUME LoginInv, Grows, Numbers', NEW f \in {"r", "c", "s"}, NEW k \in Keys, NEW row,
           RowOK(f, k, row)', SaveRow(f, k, row)
    PROVE  /\ DOMAIN regs' = Devices /\ DOMAIN auths' = Keys /\ DOMAIN sshs' = Keys
           /\ \A d \in Devices : regs'[d] \in {regs[d], NoRow}
                                 \/ (RegOK(regs[d])' /\ regs'[d].device = d)
           /\ \A j \in Keys : auths'[j] \in {auths[j], NoRow} \/ RowOK("c", j, auths[j])'
           /\ \A j \in Keys : sshs'[j] \in {sshs[j], NoRow} \/ RowOK("s", j, sshs[j])'
  <1>1. DOMAIN regs = Devices /\ DOMAIN auths = Keys /\ DOMAIN sshs = Keys
    BY Zenon DEF LoginInv, Functions
  <1>2. CASE f = "r"
    <2>1. regs' = [regs EXCEPT ![row.device] = row] /\ auths' = auths /\ sshs' = sshs
      BY <1>2, Zenon DEF SaveRow
    <2>2. PICK d : d = row.device
      BY Zenon
    <2>3. RegOK(row)' /\ d \in Devices
      BY <1>2, <2>2, Zenon DEF RowOK, RegOK
    <2>4. DOMAIN regs' = Devices /\ \A e \in Devices : regs'[e] = IF e = d THEN row ELSE regs[e]
      BY <1>1, <2>1, <2>2, Zenon
    <2> QED
      BY <1>1, <2>1, <2>2, <2>3, <2>4, Zenon
  <1>3. CASE f = "c"
    BY <1>1, <1>3, Zenon DEF SaveRow
  <1>4. CASE f = "s"
    BY <1>1, <1>4, Zenon DEF SaveRow
  <1> QED
    BY <1>2, <1>3, <1>4, Zenon

(* The end of a handler: what it saved is sound, and it is idle again. *)
LEMMA SaveSteps ==
    ASSUME LoginInv, Grows, Numbers', NEW h \in Handlers, Busy(h, Idle),
           DOMAIN regs' = Devices, DOMAIN auths' = Keys, DOMAIN sshs' = Keys,
           \A d \in Devices : regs'[d] \in {regs[d], NoRow}
                              \/ (RegOK(regs[d])' /\ regs'[d].device = d),
           \A j \in Keys : auths'[j] \in {auths[j], NoRow} \/ RowOK("c", j, auths[j])',
           \A j \in Keys : sshs'[j] \in {sshs[j], NoRow} \/ RowOK("s", j, sshs[j])',
           \A m \in machines' : m \in machines \/ MachineOK(m)',
           \A x \in tokens' : x \in tokens \/ GivenOK(x)',
           UNCHANGED <<users, lastUser, states, sessions, waitVars>>
    PROVE  LoginInv'
  <1>1. DOMAIN hs' = Handlers /\ \A g \in Handlers : hs'[g] = IF g = h THEN Idle ELSE hs[g]
    BY Zenon DEF Busy, LoginInv, Functions
  <1>2. \A g \in Handlers : hs'[g] = hs[g] \/ HandlerOK(hs[g])'
    BY <1>1, IdleOK, Zenon DEF Idle
  <1>3. Functions' /\ UsersOK'
    BY <1>1, Zenon DEF LoginInv, Functions, UsersOK, waitVars
  <1>4. Sound
    BY <1>2, <1>3, Zenon DEF Sound, waitVars
  <1> QED
    BY <1>4, SoundSteps, Zenon

(* A refusal, and the decision on an SSH session. *)
LEMMA SaveDecisionStep ==
    ASSUME LoginInv, NEW h \in Handlers, SaveDecision(h)
    PROVE  LoginInv'
  <1>1. PICK r : r = hs[h]
    BY Zenon
  <1>2. HandlerOK(r) /\ r.pc \in {"refuse", "ssh"} /\ SaveRow(r.flow, r.key, r.row)
    BY <1>1, Zenon DEF SaveDecision, LoginInv, HandlersOK
  <1>3. Grows /\ Numbers'
    BY SMT DEF SaveDecision, Grows, LoginInv, Numbers, waitVars
  <1>4. r.flow \in {"r", "c", "s"} /\ r.key \in Drawn /\ RowOK(r.flow, r.key, r.row)'
    BY <1>2, <1>3, RowsStay, Zenon DEF HandlerOK, RowOK, LoginInv
  <1>5. r.key \in Keys
    BY <1>4, LoginAssumption, SMTT(60) DEF Drawn, Keys, LoginInv, Numbers
  <1> QED
    BY <1>2, <1>3, <1>4, <1>5, SaveRowOK, SaveSteps, Zenon DEF SaveDecision

(* The transaction of a registration, or its rollback. *)
LEMMA SaveRegistrationStep ==
    ASSUME LoginInv, NEW h \in Handlers, SaveRegistration(h)
    PROVE  LoginInv'
  <1> USE DEF waitVars
  <1>1. PICK r : r = hs[h]
    BY Zenon
  <1>2. HandlerOK(r) /\ r.pc = "save" /\ r.flow = "r" /\ Busy(h, Idle)
    BY <1>1, Zenon DEF SaveRegistration, LoginInv, HandlersOK
  <1>3. UNCHANGED <<load, access, tailnets, users, removed, lastUser, admin, tokens,
                    states, sessions, grants, waitVars>>
    BY Zenon DEF SaveRegistration
  <1>4. machines \subseteq machines'
    BY <1>1, Zenon DEF SaveRegistration
  <1>5. Grows /\ Numbers'
    BY <1>3, <1>4, SMT DEF Grows, LoginInv, Numbers
  <1>6. CASE r.user \notin users
    <2>1. UNCHANGED <<machines, regs, auths, sshs>>
      BY <1>1, <1>6, Zenon DEF SaveRegistration
    <2>2. DOMAIN regs = Devices /\ DOMAIN auths = Keys /\ DOMAIN sshs = Keys
      BY Zenon DEF LoginInv, Functions
    <2> QED
      BY <1>2, <1>3, <1>5, <2>1, <2>2, SaveSteps, Zenon
  <1>7. CASE r.user \in users
    <2>1. PICK m : m = [device |-> r.row.device, user |-> r.user]
      BY Zenon
    <2>2. PICK w : w = [r.row EXCEPT !.authenticated = TRUE, !.error = FALSE, !.user = r.user]
      BY Zenon
    <2>3. machines' = machines \cup {m} /\ SaveRow("r", r.key, w)
      BY <1>1, <1>7, <2>1, <2>2, Zenon DEF SaveRegistration
    <2>4. RegOK(r.row)' /\ r.row.key = r.key /\ r.key \in Drawn'
      BY <1>2, <1>5, RowsStay, Zenon DEF HandlerOK, RowOK, LoginInv
    <2>5. /\ DOMAIN w = RegFields /\ w.device = r.row.device /\ w.key = r.row.key
          /\ w.user = r.user
      BY <2>2, <2>4, Zenon DEF RegOK, RegFields
    <2>6. RowOK("r", r.key, w)'
      BY <2>1, <2>3, <2>4, <2>5, Zenon DEF RowOK, RegOK
    <2>7. MachineOK(m)'
      <3>1. Granted("r", r.key, r.user.who, r.user.tailnet)'
        BY <1>2, <1>5, GrantsStay, Zenon DEF HandlerOK
      <3>2. m.device = r.row.device /\ m.user = r.user
        BY <2>1, Zenon
      <3> QED
        BY <2>4, <3>1, <3>2, Zenon DEF MachineOK, RegOK
    <2>8. \A n \in machines' : n \in machines \/ MachineOK(n)'
      BY <2>3, <2>7, Zenon
    <2>9. r.key \in Keys
      BY <1>5, <2>4, LoginAssumption, SMTT(60) DEF Drawn, Keys, Numbers
    <2> QED
      BY <1>2, <1>3, <1>5, <2>3, <2>6, <2>8, <2>9, SaveRowOK, SaveSteps, Zenon
  <1> QED
    BY <1>6, <1>7, Zenon

(* The transactions of a command line login, or their rollback. *)
LEMMA SaveTokenStep ==
    ASSUME LoginInv, NEW h \in Handlers, SaveToken(h)
    PROVE  LoginInv'
  <1> USE DEF waitVars
  <1>1. PICK r : r = hs[h]
    BY Zenon
  <1>2. /\ HandlerOK(r) /\ Busy(h, Idle)
        /\ (r.pc = "save" /\ r.flow = "c") \/ (r.pc = "end" /\ r.admin)
    BY <1>1, Zenon DEF SaveToken, LoginInv, HandlersOK
  <1>3. UNCHANGED <<load, access, tailnets, users, machines, removed, lastUser, admin,
                    states, sessions, grants, waitVars>>
    BY Zenon DEF SaveToken
  <1>4. tokens \subseteq tokens'
    BY <1>1, Zenon DEF SaveToken
  <1>5. Grows /\ Numbers'
    BY <1>3, <1>4, SMT DEF Grows, LoginInv, Numbers
  <1>6. CASE ~(r.admin \/ r.user \in users)
    <2>1. UNCHANGED <<tokens, regs, auths, sshs>>
      BY <1>1, <1>6, Zenon DEF SaveToken
    <2>2. DOMAIN regs = Devices /\ DOMAIN auths = Keys /\ DOMAIN sshs = Keys
      BY Zenon DEF LoginInv, Functions
    <2> QED
      BY <1>2, <1>3, <1>5, <2>1, <2>2, SaveSteps, Zenon
  <1>7. CASE r.admin \/ r.user \in users
    <2>1. PICK x : x = [key |-> r.key, who |-> r.who, user |-> r.user,
                        tailnet |-> IF r.admin THEN NoTailnet ELSE r.tailnet]
      BY Zenon
    <2>2. PICK w : w = [r.row EXCEPT !.token = x]
      BY Zenon
    <2>3. tokens' = tokens \cup {x} /\ SaveRow("c", r.key, w)
      BY <1>1, <1>7, <2>1, <2>2, Zenon DEF SaveToken
    <2>4. r.flow = "c" /\ AuthOK(r.key, r.row)' /\ r.key \in Drawn'
      BY <1>2, <1>5, RowsStay, Zenon DEF HandlerOK, RowOK, LoginInv
    <2>5. DOMAIN w = {"token", "error"} /\ w.token = x
      BY <2>2, <2>4, Zenon DEF AuthOK
    <2>6. /\ x.key = r.key /\ x.who = r.who /\ x.user = r.user
          /\ r.admin => x.tailnet = NoTailnet
          /\ ~r.admin => x.tailnet = r.tailnet
      BY <2>1, Zenon
    <2>7. r.user # NoUser => r.user.id \in 0 .. lastUser'
      BY <1>2, <1>3, Zenon DEF HandlerOK
    <2>8. TokenOK(r.key, x)'
      BY <2>3, <2>6, <2>7, Zenon DEF TokenOK
    <2>9. RowOK("c", r.key, w)'
      BY <2>4, <2>5, <2>8, Zenon DEF RowOK, AuthOK
    <2>10. GivenOK(x)'
      <3>1. CASE r.admin
        BY <1>2, <1>5, <2>6, <3>1, GrantsStay, Zenon DEF HandlerOK, GivenOK
      <3>2. CASE ~r.admin
        BY <1>2, <1>5, <2>4, <2>6, <3>2, GrantsStay, LoginAssumption, Zenon DEF HandlerOK, GivenOK
      <3> QED
        BY <3>1, <3>2, Zenon
    <2>11. \A y \in tokens' : y \in tokens \/ GivenOK(y)'
      BY <2>3, <2>10, Zenon
    <2>12. r.key \in Keys
      BY <1>5, <2>4, LoginAssumption, SMT DEF Drawn, Keys, Numbers
    <2> QED
      BY <1>2, <1>3, <1>5, <2>3, <2>9, <2>11, <2>12, SaveRowOK, SaveSteps, Zenon
  <1> QED
    BY <1>6, <1>7, Zenon

----------------------------------------------------------------------------
(* Time, administrators and restarts. *)

(* What lapses, and a change of a policy. *)
LEMMA LapseSteps ==
    ASSUME LoginInv,
           \/ \E s \in states : StateExpires(s)
           \/ \E c \in sessions : SessionExpires(c)
           \/ \E u \in fresh : CheckPeriodLapses(u)
           \/ \E i \in load.people, t \in Tailnets : ChangeAccess(i, t)
    PROVE  LoginInv'
  <1>1. /\ UNCHANGED <<load, tailnets, users, machines, removed, lastUser, rowVars, hs, grants,
                       waitVars>>
        /\ states' \subseteq states /\ sessions' \subseteq sessions
    BY Zenon
    DEF StateExpires, SessionExpires, CheckPeriodLapses, ChangeAccess, dataVars, browserVars
  <1>2. Grows
    BY <1>1, SMT DEF Grows, LoginInv, Numbers, rowVars, waitVars
  <1>3. Functions' /\ Numbers' /\ UsersOK'
    BY <1>1, Zenon DEF LoginInv, Functions, Numbers, UsersOK, rowVars, waitVars
  <1>4. Sound
    BY <1>1, <1>3, Zenon DEF Sound, rowVars, waitVars
  <1> QED
    BY <1>2, <1>4, SoundSteps, Zenon

(* A deletion takes the users with their machines and their tokens. *)
LEMMA RemoveUsersStep ==
    ASSUME LoginInv, NEW gone, gone \subseteq users, RemoveUsers(gone), tailnets' \subseteq tailnets
    PROVE  LoginInv'
  <1> USE DEF browserVars, waitVars
  <1>1. UNCHANGED <<load, lastUser, regs, auths, sshs, browserVars, waitVars>>
    BY Zenon DEF RemoveUsers
  <1>2. NoUser \notin gone
    BY LoginAssumption, Zenon DEF LoginInv, UsersOK
  <1>3. Grows
    <2>1. machines \cup removed \subseteq machines' \cup removed'
      BY Zenon DEF RemoveUsers
    <2>2. \A x \in tokens : x \in tokens' \/ (x.user \notin users' /\ x.user # NoUser)
      BY <1>2, Zenon DEF RemoveUsers
    <2>3. users' \subseteq users
      BY Zenon DEF RemoveUsers
    <2> QED
      BY <1>1, <2>1, <2>2, <2>3, SMT DEF Grows, LoginInv, Numbers
  <1>4. Functions' /\ Numbers' /\ UsersOK'
    BY <1>1, Zenon DEF RemoveUsers, LoginInv, Functions, Numbers, UsersOK
  <1>5. machines' \subseteq machines /\ tokens' \subseteq tokens
    BY Zenon DEF RemoveUsers
  <1>6. Sound
    BY <1>1, <1>4, <1>5, Zenon DEF Sound
  <1> QED
    BY <1>3, <1>6, SoundSteps, Zenon

(* A restart forgets what the handlers carried and cuts those who wait. *)
LEMMA RestartStep ==
    ASSUME LoginInv, Restart
    PROVE  LoginInv'
  <1> USE DEF rowVars
  <1>1. \A h \in Handlers : hs'[h] = hs[h] \/ HandlerOK(hs[h])'
    <2>1. \A h \in Handlers : hs'[h] = Idle
      BY Zenon DEF Restart
    <2> QED
      BY <2>1, IdleOK, Zenon DEF Idle
  <1>2. \A k \in Keys : /\ DOMAIN stream'[k] = {"st", "token"}
                        /\ stream'[k].token = stream[k].token
    BY Zenon DEF Restart, LoginInv, StreamsOK
  <1>3. \A k \in Keys : /\ DOMAIN check'[k] = {"st", "src"} /\ check'[k].src = check[k].src
                        /\ check'[k].st = "accepted" => check[k].st = "accepted"
    BY Zenon DEF Restart, LoginInv, ChecksOK
  <1>4. Grows
    BY <1>3, LoginAssumption, SMT DEF Restart, Grows, LoginInv, Numbers, Keys, Drawn
  <1>5. Functions' /\ Numbers' /\ UsersOK'
    BY Zenon DEF Restart, LoginInv, Functions, Numbers, UsersOK
  <1>6. \A k \in Keys : TokenOK(k, stream[k].token)'
    <2>1. ASSUME NEW k \in Keys PROVE TokenOK(k, stream[k].token)'
      <3>1. PICK x : x = stream[k].token
        BY Zenon
      <3>2. TokenOK(k, x)'
        BY <1>4, <1>5, <3>1, RowsStay, Zenon DEF LoginInv, StreamsOK
      <3> QED
        BY <1>2, <3>1, <3>2, Zenon
    <2> QED
      BY <2>1, Zenon
  <1>7. \A k \in Keys : check'[k].st = "accepted" =>
                            k \in Drawn' /\ GrantedSSH(k, check[k].src.user.who)'
    <2>1. ASSUME NEW k \in Keys, check'[k].st = "accepted"
          PROVE  k \in Drawn' /\ GrantedSSH(k, check[k].src.user.who)'
      <3>1. PICK i : i = check[k].src.user.who
        BY Zenon
      <3>2. k \in Drawn' /\ GrantedSSH(k, i)'
        BY <1>3, <1>4, <1>5, <2>1, <3>1, RowsStay, GrantsStay, Zenon DEF LoginInv, ChecksOK
      <3> QED
        BY <1>3, <3>1, <3>2, Zenon
    <2> QED
      BY <2>1, Zenon
  <1>8. Sound
    BY <1>1, <1>2, <1>3, <1>5, <1>6, <1>7, Zenon DEF Sound, Restart
  <1> QED
    BY <1>4, <1>8, SoundSteps, Zenon

----------------------------------------------------------------------------
(* Every step keeps the invariant. *)
LEMMA LoginInvSteps ==
    ASSUME LoginInv, [LoginNext]_loginVars
    PROVE  LoginInv'
  <1>1. load.handlers \subseteq Handlers
    BY LoginAssumption, Zenon DEF LoginInv, Numbers
  <1>2. CASE Waiting
    <2>1. ASSUME NEW d \in Devices, Followup(d) \/ FollowupAnswer(d) \/ FollowupHangUp(d)
          PROVE  LoginInv'
      BY <2>1, FollowSteps, Zenon DEF Followup, FollowupAnswer, FollowupHangUp
    <2> QED
      BY <1>2, <2>1, AuthenticateMachineStep, AuthenticateStep, SSHStartAuthStep, StreamSteps,
         CheckSteps, Zenon DEF Waiting
  <1>3. CASE Browsing
    BY <1>1, <1>3, StartAuthStep, StartAuthWithKeyStep, CallbackStep, EndAuthStep, GetUserStep,
       CreateUserStep, SaveDecisionStep, SaveRegistrationStep, SaveTokenStep, Zenon DEF Browsing
  <1>4. CASE Surroundings
    <2>1. ASSUME NEW u \in users, DeleteUser(u) PROVE LoginInv'
      BY <2>1, RemoveUsersStep, Zenon DEF DeleteUser
    <2>2. ASSUME NEW t \in tailnets, DeleteTailnet(t) PROVE LoginInv'
      BY <2>2, RemoveUsersStep, Zenon DEF DeleteTailnet
    <2> QED
      BY <1>4, <2>1, <2>2, LapseSteps, RestartStep, Zenon DEF Surroundings
  <1>5. CASE UNCHANGED loginVars
    BY <1>5, FollowSteps, Zenon DEF loginVars, waitVars
  <1> QED
    BY <1>2, <1>3, <1>4, <1>5, Zenon DEF LoginNext

(* The empty tables, and the users and machines of the workload. *)
LEMMA LoginInvInit ==
    ASSUME LoginInit
    PROVE  LoginInv
  <1>1. Numbers
    <2>1. Cardinality(load.users) \in Nat
      BY LoginAssumption, Zenon DEF LoginInit
    <2> QED
      BY <2>1, LoginAssumption, SMTT(60) DEF LoginInit, Numbers
  <1>2. Functions
    BY Zenon DEF LoginInit, Functions
  <1>3. UsersOK
    BY <1>1, LoginAssumption, SMTT(60) DEF LoginInit, UsersOK, Numbers
  <1>4. RegsOK /\ AuthsOK /\ SSHsOK /\ StatesOK /\ SessionsOK /\ MachinesOK /\ TokensOK
    BY Zenon DEF LoginInit, RegsOK, AuthsOK, SSHsOK, StatesOK, SessionsOK, MachinesOK, TokensOK
  <1>5. HandlersOK
    BY IdleOK, Zenon DEF LoginInit, HandlersOK
  <1>6. StreamsOK /\ ChecksOK
    BY Zenon DEF LoginInit, StreamsOK, ChecksOK, TokenOK
  <1> QED
    BY <1>1, <1>2, <1>3, <1>4, <1>5, <1>6, Zenon DEF LoginInv

(* The invariant holds in every state of every login. *)
THEOREM LoginInvariant == LoginSpec => []LoginInv
  <1>1. LoginInit => LoginInv
    BY LoginInvInit, Zenon
  <1>2. LoginInv /\ [LoginNext]_loginVars => LoginInv'
    BY LoginInvSteps, Zenon
  <1> QED
    BY <1>1, <1>2, PTL DEF LoginSpec

(* A machine belongs to somebody who logged in with a URL that was made    *)
(* for that device, and a token to somebody who logged in with the URL of  *)
(* that stream; the tailnet is one they were admitted to at that login.    *)
THEOREM LoginsGranted == LoginSpec => []LoginsAreGranted
  <1>1. ASSUME LoginInv PROVE LoginsAreGranted
    <2>1. ASSUME NEW m \in machines \ load.machines
          PROVE  \E g \in grants : /\ g.flow = "r" /\ asked[g.key] = m.device
                                   /\ g.who = m.user.who /\ m.user.tailnet \in g.tailnets
      BY <1>1, Zenon DEF LoginInv, MachinesOK, MachineOK, Granted
    <2>2. ASSUME NEW x \in tokens
          PROVE  \E g \in grants : /\ g.flow = "c" /\ g.key = x.key /\ g.who = x.who
                                   /\ IF x.tailnet = NoTailnet THEN g.admin
                                      ELSE x.tailnet \in g.tailnets
      BY <1>1, Zenon DEF LoginInv, TokensOK, GivenOK, Granted, GrantedAdmin
    <2> QED
      BY <2>1, <2>2, Zenon DEF LoginsAreGranted
  <1> QED
    BY <1>1, LoginInvariant, PTL

(* A row that says a device is registered tells the truth, however long    *)
(* the browser's handler held its copy of that row.                        *)
THEOREM DoneIsRegistered == LoginSpec => []DoneMeansRegistered
  <1>1. LoginInv => DoneMeansRegistered
    BY Zenon DEF LoginInv, RegsOK, RegOK, DoneMeansRegistered
  <1> QED
    BY <1>1, LoginInvariant, PTL

(* A stream hands out the token that was made for it, and the token works  *)
(* for as long as its user is there.                                       *)
THEOREM TokensDelivered == LoginSpec => []TokensReachTheirClient
  <1>1. LoginInv => TokensReachTheirClient
    BY Zenon DEF LoginInv, StreamsOK, TokenOK, TokensReachTheirClient
  <1> QED
    BY <1>1, LoginInvariant, PTL

(* A held SSH session is let in only by the owner of its source machine,   *)
(* who logged in for that very request.                                    *)
THEOREM SSHOwned == LoginSpec => []SSHNeedsItsOwner
  <1>1. LoginInv => SSHNeedsItsOwner
    BY Zenon DEF LoginInv, ChecksOK, GrantedSSH, SSHNeedsItsOwner
  <1> QED
    BY <1>1, LoginInvariant, PTL
================================================================================
