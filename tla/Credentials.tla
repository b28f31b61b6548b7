------------------------------ MODULE Credentials ------------------------------
(***************************************************************************)
(* What a caller of the API presents: api keys and system api keys, which  *)
(* a login of the command line leaves in the database, the service tokens  *)
(* of the configuration, and the short-lived tokens that a holder of the   *)
(* system admin key seals (internal/service/interceptors.go,               *)
(* internal/domain/api_key.go, system_api_key.go, internal/token).  An     *)
(* auth key has the form of an api key (internal/domain/auth_key.go).      *)
(*                                                                         *)
(* A token is the sequence of its parts between underscores.  The random   *)
(* parts have letters only and are told apart by name; a hash agrees with  *)
(* the one secret it was made of.                                          *)
(***************************************************************************)
EXTENDS NodeServices, Integers

CONSTANTS
    Atoms,      \* the random parts, a sequence
    MaxTime,    \* a bound on the clock, in minutes
    Life,       \* the 24 hours a login is good for
    MaxSealed,  \* a bound on the tokens that are sealed
    AdminKeys   \* system admin keys; "own" is the one of this server

ASSUME CredAssumption ==
    /\ Atoms \in Seq(STRING)
    /\ \A i, j \in 1 .. Len(Atoms) : Atoms[i] = Atoms[j] => i = j
    /\ \A i \in 1 .. Len(Atoms) : Atoms[i] \notin {"sk", "st", "svc"}
    /\ MaxTime \in Nat /\ Life \in Nat

VARIABLES
    now,
    creds,      \* rows of api, system api and auth keys: [kind, key, hash, expires, of]
    sealed,     \* sealed blobs: [blob, by, created]
    minted,     \* history: [kind, value, of, expires, by, created] of what was handed out
    gone,       \* history: values whose row was deleted
    drawnAtoms  \* number of random parts drawn

credVars == <<now, creds, sealed, minted, gone, drawnAtoms>>

Nobody == [as |-> "nobody", of |-> ""]
SystemAdmin(name) == [as |-> "system_admin", of |-> name]
AsUser(u) == [as |-> "user", of |-> u]

----------------------------------------------------------------------------
(* exchangeToken and what it asks *)

(* A row with that key whose hash agrees and that has not expired; without *)
(* an expiry (0) a key is good for ever.                                   *)
Load(kind, key, secret) ==
    {r \in creds : /\ r.kind = kind /\ r.key = key /\ r.hash = secret
                   /\ r.expires # 0 => r.expires >= now}

LoadApiKey(v) == IF Len(v) # 2 THEN {} ELSE Load("api", v[1], v[2])

LoadAuthKey(v) == IF Len(v) # 2 THEN {} ELSE Load("auth", v[1], v[2])

LoadSystemApiKeyAny(v) == \* Mutant: the last two parts count, whatever is before them
    IF Len(v) < 2 THEN {} ELSE Load("system", v[Len(v) - 1], v[Len(v)])

LoadSystemApiKey(v) ==
    IF Len(v) # 3 \/ v[1] # "sk" THEN {} ELSE Load("system", v[2], v[3])

(* A token is accepted for a minute before and after its creation. *)
driftCompensation == 1

IsSystemAdminToken(v) == Len(v) >= 2 /\ v[1] = "st"

ParseSystemAdminToken(v) ==
    /\ IsSystemAdminToken(v) /\ Len(v) = 2
    /\ \E b \in sealed : /\ b.blob = v[2] /\ b.by = "own"
                         /\ b.created =< now + driftCompensation
                         /\ b.created >= now - driftCompensation

(* The names of the services whose token is the value. *)
lookup(v) ==
    {load.config.tokens[i].name : i \in {j \in DOMAIN load.config.tokens :
                                            v = <<"svc", load.config.tokens[j].token>>}}

exchangeToken(v) ==
    CASE IsSystemAdminToken(v) /\ ParseSystemAdminToken(v) -> SystemAdmin("")
      [] Len(v) >= 2 /\ v[1] = "svc" ->
            IF lookup(v) = {} THEN Nobody ELSE SystemAdmin(CHOOSE n \in lookup(v) : TRUE)
      [] OTHER ->
            IF LoadApiKey(v) # {} THEN AsUser((CHOOSE r \in LoadApiKey(v) : TRUE).of)
            ELSE IF LoadSystemApiKey(v) # {} THEN SystemAdmin("") ELSE Nobody

----------------------------------------------------------------------------
Serving == \E s \in Servers : Listening(s)

(* A key and a password are drawn, the row is saved, the token handed out. *)
Mint(kind, prefix, of, expires) ==
    LET key == Atoms[drawnAtoms + 1]
        pwd == Atoms[drawnAtoms + 2]
    IN
    /\ Does("creds") /\ Serving
    /\ drawnAtoms + 2 =< Len(Atoms) /\ drawnAtoms' = drawnAtoms + 2
    /\ creds' = creds \cup {[kind |-> kind, key |-> key, hash |-> pwd, expires |-> expires,
                             of |-> of]}
    /\ minted' = minted \cup {[kind |-> kind, value |-> prefix \o <<key, pwd>>, of |-> of,
                               expires |-> expires, by |-> "", created |-> 0]}
    /\ UNCHANGED <<vars, nodeVars, now, sealed, gone>>

CreateApiKey(u) == Mint("api", <<>>, u, now + Life)
CreateSystemApiKey == Mint("system", <<"sk">>, "", now + Life)
CreateAuthKey(u, expires) == Mint("auth", <<>>, u, expires)

(* By the clock of the caller, which differs from the server's. *)
GenerateSystemAdminToken(by, clock) ==
    LET blob == Atoms[drawnAtoms + 1] IN
    /\ Does("creds") /\ Serving
    /\ Cardinality(sealed) < MaxSealed
    /\ drawnAtoms < Len(Atoms) /\ drawnAtoms' = drawnAtoms + 1
    /\ sealed' = sealed \cup {[blob |-> blob, by |-> by, created |-> clock]}
    /\ minted' = minted \cup {[kind |-> "admin", value |-> <<"st", blob>>, of |-> "",
                               expires |-> 0, by |-> by, created |-> clock]}
    /\ UNCHANGED <<vars, nodeVars, now, creds, gone>>

(* Api and auth keys go with their user or tailnet; nothing deletes a      *)
(* system api key.                                                         *)
DeleteKey(r) ==
    /\ Serving /\ r.kind # "system"
    /\ creds' = creds \ {r}
    /\ gone' = gone \cup {<<r.key, r.hash>>}
    /\ UNCHANGED <<vars, nodeVars, now, sealed, minted, drawnAtoms>>

Tick ==
    /\ Does("creds") /\ now < MaxTime /\ minted # {}
    /\ now' = now + 1
    /\ UNCHANGED <<vars, nodeVars, creds, sealed, minted, gone, drawnAtoms>>

CredInit ==
    /\ NodeInit
    /\ now = 1
    /\ creds = {} /\ sealed = {} /\ minted = {} /\ gone = {}
    /\ drawnAtoms = 0

CredNext ==
    \/ NodeNext /\ UNCHANGED credVars
    \/ CreateApiKey("ann") \/ CreateSystemApiKey
    \/ \E expires \in {0, now + 1} : CreateAuthKey("ann", expires)
    \/ \E by \in AdminKeys, clock \in {now - 2, now, now + 2} : GenerateSystemAdminToken(by, clock)
    \/ \E r \in creds : DeleteKey(r)
    \/ Tick

CredSpec == CredInit /\ [][CredNext]_<<vars, nodeVars, credVars>> /\ ServerFairness

----------------------------------------------------------------------------
(* The values a caller may present: every combination of parts. *)
Parts == {Atoms[i] : i \in 1 .. drawnAtoms}
Presented ==
    {<<>>} \cup {<<a>> : a \in Parts}
      \cup {<<a, b>> : a \in Parts \cup {"sk", "st", "svc"}, b \in Parts}
      \cup {<<a, b, c>> : a \in {"sk", "st"}, b \in Parts, c \in Parts}
      \cup {<<"svc", load.config.tokens[i].token>> : i \in DOMAIN load.config.tokens}

(* A token that was handed out and is still good *)
Good(m) ==
    IF m.kind = "admin" THEN m.by = "own" /\ m.created \in now - 1 .. now + 1
    ELSE m.value \notin gone /\ (m.expires # 0 => now =< m.expires)

(* A token is accepted for exactly what it was handed out for and exactly  *)
(* as long as it is good: no other combination of parts passes, no kind of *)
(* token passes for another (an auth key for an api key, a system api key  *)
(* for a user's), and the clock, a deletion or a restart of the server     *)
(* ends no other token than the one it concerns.                           *)
TokensAreTheirOwn ==
    \A v \in Presented :
        LET p == exchangeToken(v)
            good == {m \in minted : m.value = v /\ Good(m)}
        IN
        /\ p.as = "user" <=> \E m \in good : m.kind = "api" /\ m.of = p.of
        /\ p.as = "system_admin" <=> \/ \E m \in good : m.kind \in {"system", "admin"}
                                     \/ lookup(v) # {}
        /\ LoadAuthKey(v) # {} <=> \E m \in good : m.kind = "auth"
================================================================================
