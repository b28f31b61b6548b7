# A verification of ionscale's control plane

This directory holds TLA+ models of the control server in `../src` (the
`ionskale` fork of ionscale), the TLC configurations that check them on small
instances and TLAPS proofs of what matters most for every instance.
`PROJECT.json` is the machine-readable index: components, runs, mutants, the map
from definitions to source lines, findings, hazards and theorems.

## The system

A control server tells the machines of a *tailnet* about each other. The parts,
and how they interact:

* **Poll sessions** (`internal/core/session_manager.go`). Every connected client
  holds a streaming poll open. Its handler makes a channel, registers it with the
  tailnet's session manager and waits for pings on it. `NotifyAll` offers a ping
  to every registered channel; `Register` and `Deregister` start timers whose
  goroutines announce the change of presence.
* **The poll handler and the map builder** (`internal/handlers/poll_net_map.go`,
  `internal/mapping`). A first, complete map; then, at most every five seconds
  and only after a ping, a delta against what the mapper remembers of the last.
* **Policies** (`internal/domain/acl*.go`, `iam.go`): pure evaluation, of who may
  talk to whom and of who may enter or administer a tailnet.
* **Whoever changes the repository**: the RPC services (`internal/service`), the
  registration and login handlers, tailnet lock, and the background worker
  (`internal/core/worker.go`), which sweeps for lapsed keys and reaps ephemeral
  machines. Most of them save and then call `NotifyAll`.
* **The repository** (`internal/domain`): gorm over SQLite or PostgreSQL. Nearly
  every change is "read the row, change a field, save the whole row".
* **Registration and authentication** (`internal/handlers/registration.go`,
  `authentication.go`, `ssh_action.go`): requests that a browser completes while
  a client polls for the result.
* **Tailnet lock** (`internal/handlers/tka.go`, `internal/domain/tka.go`): the
  key authority's chain of updates, its head, and node signatures.
* **The process** (`internal/server`, `internal/database`, `internal/config`,
  `internal/dns`): start, migrations, keys, the DNS plugin, shutdown.
* **The command line** (`internal/cmd`): finds its tailnet, then calls the API.

`PROJECT.json` lists each part with its files and status.

## The modules

| module | models | state and actions |
|---|---|---|
| `SessionManager` | `tailnetSessionManager` and the session side of a poll handler | `targets`, `sessions`, `timers` are the three maps; `buf` and `closed` are the channels; `handler` says where each poll handler is; a process (`pc`, `role`, `about`, `todo`) is a goroutine that waits on a timer or executes `NotifyAll`. Every critical section of the `RWMutex` is one action; `NotifyAll`, which holds only the read lock, is one action per send |
| `SessionTable`, `SessionRefinement` | what callers rely on, and the mapping to it | an abstract table: which channel serves which machine, which polls live, which have been ended, which have been pinged; `live` is "its handler runs", `pinged` is "its buffer is not empty" |
| `SessionHistory` | `SessionManager` with a history variable | `unaware` holds `<<m, n>>` while n's session has not been offered a ping since m's session changed |
| `NetMap` | how a change reaches the clients: poll handler, map builder, services, sweeper, composed with `SessionManager` | `row` and `authRequired` are the repository; `clock`, `prev` the sweeper's time; `stage`, `snap`, `map`, `shouldUpdate` the poll handlers. `CreateMapResponse` is two steps (the machine and its tailnet are read before the peers), a save and the `NotifyAll` after it are separate steps. `excused` is a history variable: why a change was not announced to a poll |
| `MachineStore` | the machines table at the granularity of repository calls, and the requests that change it | `rows` is the table; a request (`req`) has the row as it read it (`base`), its `copy` and where it is: naming, addressing, saving or deleting. `reap` is what the reaper has listed. `crowded`, `overwritten` and `disabled` are history variables: two registrations overlapped, a save overwrote a change it had not read, the routes an admin has disabled |
| `PollNetMapper` | `CreateMapResponse`'s memory and the client that merges its maps, for any set of valid peers | `prevSyncedPeerIDs`, `prevDerpMapChecksum`, `prevTKAChecksum` are the mapper's memory, `client` is what the client has. `Replace` and `Merge` are the rules of `tailcfg.MapResponse` (external) |
| `AclPolicy` | `internal/domain/acl*.go` as operators | aliases, `IsValidPeer`, `BuildFilterRules` for ACLs, grants and SSH recorders, `BuildSSHPolicy`, tag owners, auto-approved routes |
| `PolicyMaps` | `PollNetMapper` composed with `AclPolicy` | `policy`, `fleet` (machines with user, tags, address, routes), `online`; `sent` is what the client holds: nodes, profiles, rules, SSH policy. Every step of it is a step of `PollNetMapper` with the peers the policy gives |
| `TailnetLock` | `handlers/tka.go`, `domain/tka.go`, the lock's switch | `tka` and `aums` are the tables, `rows` the machines with their signatures, `lock` the tailnet's mutex, `req` where each handler is. A handler finds its caller, waits for the mutex, writes once or twice and answers; a crash or a failing query may come between. `switching` are the calls that read the tailnet's row and save it whole, the lock's switch included. An update message is the path that leads to it |
| `LoginFlow` | `handlers/authentication.go`, `session.go`, `ssh_action.go`, the browser half of `registration.go`, `service/auth.go` | `regs`, `auths`, `sshs` are the request tables, `hs` the browsers' HTTP handlers between their read and their write, `states` and `sessions` the sealed values that travel through browsers, `follow`, `stream`, `check` those who wait. `grants` and `asked` are history |
| `AccessPolicy` | claims, `tailnetAccessible`, `syncOrgRoles`, `GetRole` as operators | used by `TailnetAdmin` |
| `TailnetAdmin` | `service/tailnet.go`, `users.go`, `auth_keys.go`, `acl.go`, `iam.go`, `derp_map.go` and the repository side of a login | `tailnets`, `accounts`, `users`, `owned` (machines, api keys, auth keys) are the tables; a call (`calls`) is between its reads and its save. A login lists the tailnets, saves the policies of its organization one by one, finds or makes its account and its user and saves that; `RevokeAccount` lists and deletes the users account by account. What nodes are told is `NetMap`'s. `stale`, `edited`, `revoked` are history |
| `AdminReads` | the calls that answer with rows, between the interceptor and the answer | a read remembers the principal the interceptor found |
| `CommandLine` | `internal/cmd`: a command lists tailnets, picks one, calls | `cmds`: who runs it, the saved tailnet, the target, what the flags named, how far it is (an editor may be open); the calls are those of `TailnetAdmin` |
| `Schema` | the migrations and what the domain types need | one definition per migration |
| `Server` | start, migrations, keys, DNS plugin, set-dns, shutdown, crash | `db` and `advisory` are shared by `srv`, the servers; `pm`, `alive`, `conf` are the plugin manager and its processes; `req` the set-dns requests. A shutdown stops the metrics listener, drains the HTTP server, then stops STUN; the nodes' connections are hijacked, so they are served until the process ends |
| `NodeServices` | DNS configuration, feature query, identity tokens, in a running `Server` | `dnsConfig`, `issued` |
| `Credentials` | what callers of the API present, in a running `Server` | `creds` the key tables, `sealed` the admin tokens, `now` the clock; `minted` and `gone` are history |
| `MC*` | instances for TLC | |
| `*Proofs` | theorems | |

Abstractions worth knowing:

* A channel identity stands for the handler that made it, and may be made again
  once nothing refers to it.
* A stopped timer leaves its goroutine blocked for ever on `timer.C`; the process
  that stood for it becomes free. `Stop` racing with the timer is kept: `Fire`
  and `CheckSession` are separate steps, so a `Register` or `Deregister` may come
  between a timer that has fired and the check.
* In `NetMap` a map says of each peer whether it is hidden, offline or online. A
  read-modify-write of a machine row is one step there; `MachineStore` takes it
  apart, without the notifications.
* In `MachineStore` a machine has one user and its current node key; the pair of
  default routes is one route; of the time a machine was last seen only "never",
  "recently" and "longer ago than the inactivity timeout" are told apart. `Save`
  updates every column and inserts a row that is not there (the library's
  behaviour; new machines come to `SaveMachine` with an id). The schema's unique
  index is `NameTaken`.
* In `PolicyMaps` an address is a number of `Width` bits and a prefix a pair of
  address and length; what a policy says of it is computed, not tabulated.
* In `TailnetLock` a message's hash commits to its parent, so a message is a
  sequence: genesis, then one number per update. Where a chain forks the smaller
  update wins, which stands for the library's rule. A signature names the device,
  the key and the authority it was made for.
* In `LoginFlow` the policies are a relation `access` that may change between a
  callback and its completion; `AccessPolicy` computes it in `TailnetAdmin`.
* In `TailnetAdmin` a tailnet's switches, ACL policy, DNS configuration and relay
  map are one boolean each, the IAM policy is a value: what matters is which save carries
  which copy.
* `Schema` names a table by its domain type and a later column with its table.
* A row's `expiresAt` is a moment of a bounded clock, 0 is "long past" (the
  `time.Unix(123, 0)` of `ExpireMachine`); an id is never used twice.
* Panics of handlers are recovered by the HTTP stack and their deferred calls
  run: they are departures like any other.

## What is checked

| run | module and cfg | what it is about |
|---|---|---|
| `sessions` | `SessionHistory` | `NoClosedChannelInUse`: no ping meets a closed channel; `NoOrphanPoll`: a poll that was replaced is told so; `ImplementsSessionTable` is the refinement; `SessionChangeIsAnnounced` is liveness |
| `netmap` | `MCNetMap` | `NoLostUpdate`: one administrative change, with and without machine authorization; a key that lapses beside two changes; a client that reconnects; a machine that registers and is approved |
| `netmap_liveness` | `MCNetMap`, `MCNetMapLiveness.cfg` | `EveryClientCatchesUp`: two polls, a key that lapses, sweeps whose query may fail, no administrative change |
| `store` | `MCMachineStore` | `UniqueMachines` (names, addresses, the pair of machine key and user), `DisabledRoutesStay`, `ExpiryKeptUnlessOverwritten`, `EphemeralRemoved` (liveness) |
| `policy_maps` | `MCPolicyMaps` | `MapBringsUpToDate`: after every map the client has what the repository says; `QuarantineTakesEffect`; `SourcesArePeers`: the filter names only peers; `RoutesHaveOneRouter` |
| `tailnet_lock` | `MCTailnetLock` | the stored authority: `OneAuthority`, `HeadFollowsChain`, `ClientsNotAhead`; its changes: `SignedAtGoLive`, `DisabledForGood`; liveness: `RequestsAnswered` |
| `login_flow` | `MCLoginFlow` | `LoginsAreGranted`, `DoneMeansRegistered`, `TokensReachTheirClient`, `SSHNeedsItsOwner`; liveness: `DecisionsAreDelivered` |
| `tailnet_admin` | `MCTailnetAdmin` | rows: `OwnersExist`, `UsersInTheirOrg`, `RevokedUsersStayGone`, `UnforcedDeleteSparesMachines`; answers: `ReadsStayInside`; logins: `RolesFollowClaims`; commands: `CommandsHitTheirTarget` |
| `server` | `MCServer` | start: `SchemaServesDomain`, `OrganizationsRecovered`, `KeysOutliveRestarts`, `UpgradeCompletes`; DNS: `OnePluginProcess`, `DnsRequestsAnswered`, `ServeMeansCertificates`; API tokens: `TokensAreTheirOwn` |

Three runs contradict a document: TLC finds the behaviour.

| run | property | what TLC finds |
|---|---|---|
| `lapse_in_window` | `LapsedKeyIsRemoved` | a sweep between a poll's first map and its `Register` never reaches that client |
| `expiry_lost` | `ExpiryKept` | a poll without stream saves the row it read before `ExpireMachine` |
| `role_claims` | `RoleClaimsGrantAdmin` | an identity with a username logs in with an admin role claim and is no admin: the role is stored under its email and looked up under its login name |

Some properties carry an exception: an overlap or a call that breaks the promise
and that the code does not prevent. They say that nothing else breaks it:

* `NoLostUpdate`: a client whose map is out of date has an update coming,
  somewhere in the chain from the save through `NotifyAll`, a timer, a buffer,
  `shouldUpdate` or a sweep still to run. Excused is a poll
  between whose first map and `Register` a `NotifyAll` began ("window", the one
  `lapse_in_window` shows), and one during which something happened that is
  announced to nobody: `EnableMachineAuthorization`, `DisableMachineAuthorization`
  or a registration ("silent"), a sweep whose query failed ("failed").
  `EveryClientCatchesUp` has the same exceptions.
* `UniqueMachines`: addresses and the pair of machine key and user, unless two
  registrations overlap (`crowded`) or a save overwrites a change it had not read
  (`overwritten`); complete names always. `DisabledRoutesStay` and
  `ExpiryKeptUnlessOverwritten`: unless the latter.
* `TailnetAdmin`: `RevokedUsersStayGone` does not speak of a user that a login made
  after the users of its account were listed, or after the call began if the
  account was not there then. `RolesFollowClaims` holds for an identity without a
  username, one login at a time, while no stale copy of a tailnet has been saved
  (`stale`) and nobody has set an IAM policy or made a tailnet during a login (`edited`). The
  last exception came out of the proof: `syncOrgRoles` goes through the tailnets
  it has listed, so one that is made after the listing keeps its own policy, and
  the login can choose it.
* `TailnetLock`: the authority is active only with the feature on, unless the switch
  ran beside `InitFinish` or was turned back by a save of the whole row that had
  read its old value (`overlapped`, in `OneAuthority`); every machine is signed
  at `SignedAtGoLive`, unless a registration was saved after the listing (`late`);
  `HeadFollowsChain` unless a `SyncSend` died between its two writes (`torn`).
* `OnePluginProcess`: a plugin whose `Configure` failed stays the manager's.
* `DnsRequestsAnswered`: unless a provider never answers its call, or a plugin
  neither starts nor fails to while its starter holds the write lock.
* `ServeMeansCertificates`: not after `UpdateTailnet`, which does not insist on
  MagicDNS as `SetDNSConfig` does (`unchecked`).
* `UpgradeCompletes`: for SQLite, and unless the process died between adding
  `UseOSHostname` and recording that migration, or two tailnets have machines of
  one name when the index that is unique in all tailnets is made.
* `CommandsHitTheirTarget`: for a command without a saved tailnet; a saved one may
  be taken although the flags name another.

What these properties do not say, because the code does not give it (the hazards
of `PROJECT.json` have the lines):

* The reaper deletes what it listed as inactive, also a machine that has been
  seen since; the user of a login that was on its way can survive
  `RevokeAccount`; two creations can give one organization two tailnets.
* `DoneMeansRegistered` has no converse: a browser that is refused can overwrite
  the row of a machine that another has just registered, and the device is told of
  an error. An API key whose
  stream broke before it was read stays in the table.
* `MapBringsUpToDate` compares sets of peers where the code compares ordered
  lists (`slices.Equal`): the code may send a map more than the model, never one
  less.
* `TailnetLock` takes it from the clients that a genesis is drawn only once
  (`g \notin drawn`); `InitBegin` does not ask for it.
* `OnePluginProcess` allows that a second restart ends an instance that another
  request is using; its call fails. A shutdown does not wait for the requests of
  nodes, and one that comes after `CleanupClients` may start a plugin that outlives
  the server.
* A second server on one database is there for the migrations and the keys; the
  rest of `server` hardly needs it.

Every property of a passing run has a mutant in `PROJECT.json`: a small
plausible bug, defined in the module just before the definition it replaces
("Mutant: ..."), under which TLC finds the property violated.

### Bounds

A run covers several situations without their product: `Starts` or `Loads` is a
set of workloads, one of which is chosen in the initial state and says what
happens, to whom and how often.

* `sessions`: two machines, one changes and one watches; two channels, which are
  either one for each machine or a poll and the one that replaces it, and which
  are made again without bound; two goroutines, so that a timer can fire while a
  `NotifyAll` runs. The proofs are for any number of each. `BufCap` is 1 (20 in the code):
  only "full" and "empty" matter, and the proofs are for any capacity.
* `netmap`: `MaxPolls`, `MaxChanges` and `MaxClock` bound the length: two or three
  polls, up to two changes, a key that lapses and the tick after it. Failing
  sweeps are only in `netmap_liveness`, which has two channels, one per machine. A violation
  of `NoLostUpdate` needs one change, or one change of session, and one poll in
  an unlucky place.
* `store`: two requests at once, the least that overlaps, on up to two machines
  with two names and two addresses; eight workloads, each a set of kinds of
  request and a table to begin with. `MaxIdx` bounds the name index.
* `policy_maps`: the client's machine and two peers, two to four policies per
  workload between which an administrator switches, addresses of three bits and
  ports of two, and no bound on the number of maps.
* `tailnet_lock`: two nodes that send lock requests, a third that joins; two
  genesis messages, two updates that may fork, chains of three messages, two node
  keys per device. That is the least with which an authority is replaced while
  another node still holds messages of the old one.
* `login_flow`: two people, two tailnets, one device, two browser requests at a
  time, two URLs per behaviour, one intervention of an administrator.
* `tailnet_admin`: two callers, two tailnet ids, two organizations, one person
  with up to two accounts (one per organization claimed); nineteen workloads;
  `most` (two to four) bounds the calls that `made` counts, `MaxId` the ids handed
  out.
* `server`: one server, or two on one database, at most two crashes or shutdowns, two
  set-dns requests, up to seven plugin processes; every DNS configuration, and
  fifteen configurations that deviate from an accepted one. Upgrades start at
  migration 0, 10, 14 and 18 (19 is up to date). The random parts of tokens are four atoms, time runs
  to three minutes.
* Symmetry is used in `netmap` only, for the goroutines and for the two channels
  of one client; it has no temporal property.

Deadlock is not checked where a behaviour may run out of its bounds or the
server has nothing to do (`netmap`, `store`, `login_flow`, `tailnet_admin`,
`server`); it is checked in `sessions`, `policy_maps` and `tailnet_lock`.

### Fairness

* `HFairness`: a goroutine that waits on a timer or executes `NotifyAll` goes on.
  The Go scheduler and `time.Timer` give that.
* `NMFairness`: the same, and: time passes, the sweeper's ticker ticks, a poll
  handler builds and writes its maps and takes its pings, one that has to return
  does. Each is a weak fairness condition of its own.
* `FairStoreSpec`: a request that was begun goes on and the reaper's ticker ticks.
* `LockFairness`: a handler that holds the mutex goes on (weak), who waits for it
  gets it (strong: `sync.Mutex` hands over to a waiter in starvation mode).
* `LoginSpec`: the tickers of held requests tick. No browser ever has to act.
* `ServerFairness`: a process that runs takes its steps, also those of a shutdown,
  and a supervisor starts it again (weak). A set-dns handler takes the steps that
  nothing outside holds up (`OwnStep`, strong: the plugin's lock is handed over as
  above): a call of `Configure` has a second, the wait for a record five minutes,
  and a call to a dead process fails. No plugin has to start or to live, no
  provider to answer and no record to become visible.

`policy_maps`, `tailnet_admin` and `netmap` assume no fairness. Nowhere is a client
assumed to come or an administrator to act.

## What is proved

TLAPS checks, for all values of the constants under the named assumptions of each
module (marker values are not members, bounds are natural numbers, workloads are
well formed):

* `NetMapProofs`, on `SessionManager`: `TypeCorrect`, `ChannelsSafe`,
  `NoPollForgotten`, `PresenceConsistent`, `OwnSessionOnly` and `Refinement`. The
  inductive invariant `SMInv` strengthens the checked invariants by what makes them
  inductive: a registered channel belongs to its machine (`TargetsOwned`), a
  running handler has an owner (`HandlersOwned`), what a `NotifyAll` has still
  to ping is registered, because it holds the read lock (`TodoRegistered`), and
  a timer in `timers` is one that has not fired (`TimersArmed`).
  On `NetMap`: `NothingLost` is `NoLostUpdate`, and `SessionsInUse` says that the
  composition implies `SMSpec`. The invariant `NMInv` is needed because
  `NoLostUpdate` itself is not inductive: it does not say *which* update is owed to
  whom. `Watch` says so of every poll, from the read before its first map on: what
  it has read is still so or a ping is under way (`SnapOK`), and each entry of its
  last map is current or has an excuse of its own machine: a goroutine that will
  announce that machine's session (`TimerOwed`) or a sweep that has still to see
  its key expire (`SweepOwed`). The excuse has to be of that machine, for the timer
  of another may be stopped before it announces anything (`MapOK`). `TimersRun`
  shows that no such timer is lost, `ProcsAnnounce` that no ping is. TLC has
  checked `NMInv` on the instance of `netmap`.
* `PolicyMapsProofs`, on `PollNetMapper`: `MemoryCorrect`, `MapsCorrect` and
  `QuarantineEnforced`. The invariant `MapperInv` adds to `MemoryIsClient` that an
  authority once there is never "off" again (a delta cannot say "off") and that a
  poll that omits peers remembers none.
  On `PolicyMaps`: `MapsOfPolicies` shows that the composition takes only the
  steps of `PollNetMapper`, so the three theorems above hold for every policy and
  fleet (`PolicyMapsCorrect`). `SourcesAreSent`, `ChecksHavePeople`
  and `SelfIsHome` are about the evaluation of policies:
  the argument of the first is that every alias that resolves to addresses of a
  machine also makes `IsValidPeer` true of it, kind of rule by kind of rule.
  `RoutesAreRouted` shows that a route of an online machine has one router in
  every map: the online machines with that route have a first one
  (`FirstMachine`), because row ids are natural numbers and unique
  (`FleetAssumption`).
* `TailnetAdminProofs`: eight theorems about all calls and reads. Six are properties
  of `tailnet_admin` (`NothingIsOrphaned`, `UsersKeepInsideTheirOrg`,
  `RevocationIsComplete`, `CountedMachinesAreSpared`, `AnswersStayInside`,
  `RolesAreSynced`). Two are only proved: the tables keep their shape, and no step
  changes a tailnet's organization. The inductive invariant
  `AdminInv` says what the tables and the calls in progress have in common: ids
  are below the counters (`Numbers`), rows have their shape (`RowsOK`), users and
  what they own have their tailnet and owner (`UsersOK`, `OwnedOK`), a call holds a
  copy or an id that was legal when it was read (`CallsOK`; of a revocation in
  progress: a user it concerns is of an account it has still to list, is among the
  users it has listed, or was made later), one function from
  tailnet ids to organizations explains every row and every copy of one (`OrgsOK`:
  this is why a stale save cannot move a tailnet to another organization), and
  what was revoked is gone (`Gone`). `Progress` is what every step does to ids
  and calls. For `RolesAreSynced`, `RolesInv` follows a login
  through its steps: once the tailnets are listed, every one of the organization
  agrees with the claims or is still to be saved, and the account and the user have
  the login name before the policy is looked at (`Synced`); a login that began alone
  stays alone (`OneLogin`).
* `CommandLineProofs`: `CommandsAreCalls` shows `CliSpec => ReadSpec`, so these eight
  hold with command lines at work; `CommandsStayOnTarget` needs that a command and
  the call it waits for have the same target (`CliInv`).

* `MachineStoreProofs`: `MachinesUnique`, `DisabledStays` and `ExpiryStays`, for any
  number of overlapping requests. A request holds the row as it read it and the copy
  it will save; `EditOK` says which columns each kind of request may change between
  the two, `FreshIds` and `LookedUp` that what a registration looked up stays true
  until it saves, as long as registrations do not overlap.
* `TailnetLockProofs`: `AuthorityIsOne`, `HeadsFollow`, `NoClientAhead` and the action
  properties `SignedWhenLive` and `DisabledStaysDisabled`, for chains of any length.
  In `LockInv` the messages of an authority are a tree with its genesis as root
  (`Authority`, `Clients`), a genesis that is pending or on its way to `InitBegin` is
  one that nobody has used (`Draws`, which is why an old client's messages never
  mix with a new authority's), who is past the mutex holds it (`Mutex`), and what
  `InitFinish` has listed is what it was sent signatures for (`Finishing`). The
  head of a larger chain is found by a minimum argument over lengths.
* `LoginFlowProofs`: `LoginsGranted`, `DoneIsRegistered`, `TokensDelivered` and
  `SSHOwned`. Whatever a browser's handler carries from its read to its write was
  granted when it was made (`HandlerOK`, `SessionOK`), and no step takes back what
  that rests on (`Grows`).
* `CredentialsProofs`, on `Server`, `NodeServices` and `Credentials` together:
  `SchemaServes`, `OrganizationsAreRecovered`, `KeysOutlive`, `PluginIsOne`,
  `ServeIsCertified` and `TokensTheirOwn`. `OrganizationsAreRecovered` has both
  directions: no organization is guessed, and none that could be told is missing
  once the migration is recorded.
  `CredInv` says that who changes the database is alone with it (`Exclusion`), what
  each stage of a start finds there, also after a crash between two steps of a
  migration (`Stage`, `Database`), that only the manager's process is alive besides
  orphans (`Plugins`), and that rows and handed-out tokens correspond one to one
  (`Minted`, `Rows`). `ServerAssumption` leaves out what the code cannot do or does not
  protect: two servers that migrate one SQLite file, and two that share one plugin
  manager, which is a variable of a process.

Only model-checked: everything about liveness (`SessionChangeIsAnnounced`,
`EveryClientCatchesUp`, `EphemeralRemoved`, `RequestsAnswered`,
`DecisionsAreDelivered`, `DnsRequestsAnswered`, `UpgradeCompletes`), which is beyond
this prover. Only proved, and in no run: what has no property in the tables above.

## Not modelled

* Transport: TLS, the noise handshake, HTTP routing, compression and keep-alives
  change no state the handlers do not.
* The relay and STUN servers, the OAuth exchange, bcrypt, the sealing of values,
  AUM signatures, the DNS providers: libraries and services, modelled by what the
  code asks of them. Random and cryptographic values are fresh model values.
* The filter expressions of IAM policies, a library's language, and the contents
  of app capabilities, values passed through unread.
* Output: tables and pages, which code a denied login is shown, the audit log, metrics, the commands that print.
* The commands on machines and users and those of the server. The calls they
  make are modelled on the server's side.
* The SSH session recorder (`pkg/ssh`), a separate program that copies a stream to
  a file.
* Postgres beyond the migrations that run there: the last one uses SQLite's
  `GROUP_CONCAT`, so no server of this version gets past it.
* Two servers started together on one new SQLite file, which has no lock.

## Running

    tlc -workers 2 -config MCNetMap.cfg MCNetMap
    tlapm NetMapProofs.tla

The configuration and module of every run are in `PROJECT.json`.
