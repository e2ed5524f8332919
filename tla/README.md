# TrafficShare: TLA+ models, checks and proofs

TrafficShare lets the owner of a Windows computer share a traffic quota with one
other user. A control server keeps accounts, devices, shares and sessions in
SQLite; an agent on each computer (provider or consumer) sets up WireGuard,
routes and firewall rules, sends heartbeats and, on the provider, meters
traffic. This directory holds TLA+ modules of the parts that keep state, TLC
configurations that check them on small instances, and proofs that TLAPS checks
for every instance.

## 1. Inventory

| Part | State | Operations | Talks to |
|---|---|---|---|
| Control plane (`internal/database`, `internal/api`) | tables `users`, `tokens`, `devices`, `shares`, `sessions`, `traffic_reports` | register and heartbeat a device; create and stop a share; preview, create, disconnect, revoke a session; report traffic; lists | agents by HTTP; one SQLite connection, so statements and transactions are atomic |
| Sweeper (`internal/controlserver`) | - | every 5 s `ExpireStale`: three statements, no transaction | control plane tables |
| Tunnel pool (`allocateTunnelIP`) | live sessions' addresses | find a free address | `CreateSession` |
| Session machine (`internal/session`) | status | declared transitions; called by nobody | - |
| Agent set-up and clean-up (`internal/agent`, `windowsnet`, `wireguard`) | network of the computer, one tunnel service, one tunnel configuration file | Connect, init, ProviderInit, Disconnect, Repair, Shutdown, consumer's part of Monitor (heartbeat, forced disconnects, tunnel watch) | server by HTTP, Windows by PowerShell, `wireguard.exe`, `wg.exe` |
| Snapshots (`internal/state`) | one JSON file per session | Save, Load, MarkCompleted, Incomplete, Restore | set-up and clean-up |
| Provider metering (`internal/agent`, `internal/traffic`) | maps of peers and baselines in memory, peers of the WireGuard interface | list sessions, add and remove peers, read counters, report | server, `wg.exe` |
| Local identity (`LocalController`, `CLI`, `internal/config`) | configuration in memory and on file: role, server, device name and id, token | UpdateSettings, Login, RegisterDevice, the command lines login and register-device, start and end of the UI | server, configuration file |
| Accounts (`internal/auth`) | users, tokens with expiry | register, login, authenticate | API |
| Quota parsing (`internal/quota`) | - | ParseGB, Exhausted | CLI, web UI |
| Launcher (`internal/launcher`) | - | writes role and server into the configuration, starts the UI | configuration file |
| Web UI, client, desktop, notify, logging, id | - | transport, windows, input and output | - |

What is hard here: handlers of many clients interleave with a sweeper that is
not one transaction; a heartbeat and a stopped share are two statements each,
the second with its error dropped; timestamps of one row are refreshed from two
sides; reports are cumulative and may be lost, repeated or late, while counters
start again in two layers; on an agent's computer up to three goroutines run
long sequences of external commands without a lock, any command may fail, and
the process may die between any two; the provider works through a list that goes
stale while keys change and addresses are handed out again; UI and command lines
write one configuration file over each other; and the end of a session reaches
the computers only through heartbeats and lists. `PROJECT.json` lists each hazard with its line and the properties that
watch it.

What makes the parts correct, in short: one live session per consumer device and
distinct addresses per provider; sessions join the parties of their share and
follow the lifecycle; charges are exact, final and never more than the traffic;
sessions end when a device is silent or the share is over; whatever the agent
changes on a computer can be repaired, and the full tunnel never runs without
its exception route and IPv6 block; the provider removes the peers of sessions
that ended, and no others that it can tell from them; the credentials of an agent
belong together; and a session that ended on the server ends on both computers.

## 2. Modules

| Module | Models |
|---|---|
| `TunnelPool` | `allocateTunnelIP` as the operator `Allocate` over offsets in the pool |
| `AddressLeases` | abstract: addresses of one provider taken one at a time and returned one or several at a time; the loop `Scan` that `Allocate` is compared with |
| `SessionLifecycle` | abstract: the transition table of `internal/session/state.go` |
| `ControlPlane` (extends `TunnelPool`) | devices, shares, sessions; handlers, sweeper, failures, time |
| `NetworkAgent` | the network of one computer, its snapshots and its workers, as consumer and as provider |
| `ProviderAgent` | metering, peers, keys and charging of one share |
| `LocalIdentity` | configuration of the UI and of command lines, and the device rows of the servers |
| `EndToEnd` (extends `ControlPlane`) | the server and the agents of all devices together |
| `MC...` | values of constants for TLC |
| `TunnelPoolProofs`, `AddressLeasesProofs`, `ControlPlaneProofs`, `LocalIdentityProofs`, `NetworkAgentProofs`, `ProviderAgentProofs`, `EndToEndProofs` | theorems and proofs |

Definitions whose comment starts with "Faulty:" are variants of the definition
below them with a plausible bug. No specification uses them; they are there to
try whether a property notices the bug.

**ControlPlane.** `devices`, `shares` and `sessions` are the tables; the last
report of a session is a column of it. A handler is an action, with the guard of
its SQL `WHERE` and early returns; requests that are refused change nothing and
are left out. `HeartbeatDevice` and `StopShare` are two actions each, `pending`
holding the second statement (a set: a second identical statement adds nothing);
`ExpireStale` is three, `sweep` saying which comes next. `LoseStatement` is the
dropped error of a second statement, `Restart` a server that stops in between or
a sweep that gives up. Timestamps are ages and remaining lifetimes moved by
`Tick`, cut off where the code's comparisons no longer tell them apart. Who may
call a handler is not an action's parameter: the owner or the receiver exists and
may call at any time, so the guard on the caller leaves the step possible.
`CreateSession` does not use the unique indexes as guards; the properties say the
`INSERT` never needs them. Addresses are offsets, devices are identified by their
(user, name) pair, keys and LAN addresses are left out. Two abstract specifications
are stated of the tables: `Lifecycle` (`SessionLifecycle` of the status column) and,
for every provider `p`, `Leases(p)` (`AddressLeases` of the addresses of its live
sessions). Two sessions with one address would be one lease, so
`ProvidersLeaseAddresses` is stated session by session: each gets its address by a
`Lease`.

**NetworkAgent.** `work[w]` is the program counter of a worker: a UI request or
command line (`Handlers`), `Monitor`, or the desktop window with `Shutdown`
(`Windows`). One step is one external command, one write to disk or one request;
a command may fail without effect or report an error after it took effect, a
request may be lost with or without effect. What follows what is data:
`ConsumerSteps` and `ProviderSteps` map a step to the next one, so that the actions are shared by all operations and by
both roles. `snap`, `routes`, `rules`, `nat`, `tunnel` and `file` are the state
directory and the network. A snapshot belongs to a session of the server
(`Sessions`), to an id given to `init` (`Manual`) or to a provider's set-up
(`Gateways`). The provider is one with an embedded server, whose plan has one
firewall rule more. The server is cut down to what `ControlPlane` lets an agent
see: the status of its sessions and `ended`, the sessions of shares that are
over, until a late report revives the share (`ShareRevives`). `LocalController.mu` only covers copies here and is left out. The preview
that the UI demands before it applies changes nothing.

**ProviderAgent.** `pc`, `current`, `listed` and `todo` are where `Monitor` is in
its round, `peers` and `baselines` its maps, `wg` the interface. `Report` is the
request together with the server's `ReportTraffic`. Sessions are numbered in
order of start; the list is ordered by `started_at`, whole seconds, and `Visit`
takes any of those that started first (`Earliest`). Rx and tx are one counter.
`passed` counts the traffic that really took place. `key[d]` is the key a device
is registered with, which the list shows, and `address[x]` the address of a
session; `AddPeer` takes an address over from the peer that had it, as WireGuard
does with allowed IPs, and may report an error after that. A device is a row of
the table, and rows may share a key, at first (`FirstKey`) or later: `KeyChanges`
registers a device again with any other key, a new one, one it had before, or one
of another device. What Monitor then mixes up is named: `keyShared` remembers that
an active session came to have a key in use (`InUse`), and `Confused` says that the
session Monitor works for has the key of another device, or started in the same
second as another session of its device.

**LocalIdentity.** `memory` is the UI's configuration, `file` the one on disk,
`command.conf` the copy a command line holds between loading and saving. The
operations of the UI hold `LocalController.mu` throughout, requests included, and
are one action each. A failing write leaves the old file or one that cannot be
loaded (`os.WriteFile` truncates first). `rows` are the device rows of all
servers. `job` and `setup` say that a Connect or ProviderInit is under way and that
there is an incomplete snapshot; only the snapshot keeps `UpdateSettings` from
changing the identity, so settings may change during a set-up or a command line.

**EndToEnd.** Every action of `ControlPlane` that a client causes is caused by an
agent's step here; the rest, `ServerStep`, is the sweeper, the clock and users.
What `NetworkAgent` and `ProviderAgent` take apart is one step: a set-up, a
clean-up, the visit to one listed session. The answers of the server are still
read at one time (`list`) and obeyed later. A lost answer to `CreateSession` leaves
a session that no agent knows (`Connect`); `SetUpFails` may leave an installed
tunnel whose session is disconnected, as when `WaitForTunnel` gives up. A
consumer has one key, and no agent of a provider restarts (see below for what
happens when it does). Whether the server can be reached through a tunnel
whose peer is gone is not modelled: requests may fail, but not for ever.

## 3. Runs

Bounds are in the `.cfg` files. A TTL of one clock step lets every row be fresh or
stale, a life of two lets a share outlive a stale row and expire; with a quota of
2 and two sessions whose totals go up and start again, reports leave the quota
open, meet it and pass it.

| Run | Instance | Shows |
|---|---|---|
| `address_leases` | /28 pool, provider at 3, preferred 11 | every reachable set of leases; the scan has to wrap and to skip the provider |
| `control_plane` | 1 provider, 2 consumers, one of which may register as a provider and back, 1 share, 2 sessions, quota 2, a /29 pool, so that two sessions could have one address | the safety properties and the refinement of `AddressLeases`, about 1 350 000 states; sessions are symmetric |
| `control_plane_sweeps` | 2 providers, 1 consumer, 1 session, 1 fault | liveness of the sweeper; for a share that ended, unless a late report makes it active again |
| `stopped_share` | 1 session | violation, see below |
| `agent_sequential` | 1 session, 1 id of `init`, 1 provider's id, 2 endpoints, one worker, 2 faults | command lines of either role with crashes and failing commands; two faults are a failure in the middle of a set-up and one in its repair |
| `agent_monitor` | 1 session, UI, Monitor and window, 1 fault | overlapping operations, and liveness of forced disconnects |
| `monitor_race`, `repeated_cleanup` | 2 sessions, 1 endpoint, no faults | violations, see below |
| `provider_metering` | 3 sessions, 2 of one device and 2 of one second, 3 keys, 2 addresses, quota 2, traffic 2, 1 fault of any kind, a change of key to a new, a former or another device's key among them. Two addresses suffice to hand one out again under a stale list; two kinds of failure in one behaviour are left to the theorems | charging and peers, about 3 900 000 states |
| `provider_revocation` | the same with one session a second, quota and traffic 1, 1 fault of a kind that Monitor recovers from | liveness of peer removal |
| `local_identity` | 2 servers, 2 users, 2 names, 2 ids, so that a user may have two rows or two users one each, on one server or on two; the UI's role is locked, since nothing but whether a set-up needs a token depends on it | the UI, one command line at a time, set-ups and torn writes; about 475 000 states |
| `end_to_end` | 1 provider, 1 consumer, 1 share, 1 session, 1 fault | liveness from the server's tables to the computers; the composition implements `SessionLifecycle`, which looks at each session alone, so one session shows it |

Fairness. `control_plane_sweeps`: weak fairness of the three sweep statements,
because `sweep` runs as long as the server does; nothing is assumed of clients.
`agent_monitor`: weak fairness of every worker that is in the middle of an
operation and of Monitor's heartbeat, because goroutines run and the ticker
ticks; users need not do anything, and faults are finitely many.
`provider_revocation`: weak fairness of Monitor, which also says that the
heartbeat at the start of a round does not fail for ever. `end_to_end`: the
sweeper and every agent's Monitor, with the second statement of the heartbeat it
waits for. Deadlock is checked in every run but `local_identity`, where a torn
configuration file really stops everything: no process can load it.

### Disagreements that the runs show

* `stopped_share`: `ReportTraffic` writes the share's status without looking at
  the old one. After `StopShare` revoked the session, the provider's last report
  makes the share active again, and the receiver can start a new session. The
  same happens to an expired share, until the next sweep.
* `monitor_race`: between `saveSnapshot` and `InstallTunnel`, Monitor finds an
  incomplete snapshot and no tunnel, and cleans up. Connect goes on and brings the
  tunnel up without exception route and IPv6 block; the snapshot is completed,
  so `Repair` does not list it.
* `repeated_cleanup`: a revoked session stays on the list of forced disconnects
  for ever. Monitor cleans it up again at every heartbeat, and `App.Disconnect`
  does not care that its snapshot is completed: it uninstalls the tunnel of the
  session that the user connected since.

Also seen while modelling, without a run of their own:

* What a Connect sets up after `Shutdown` listed the snapshots stays after the
  process is gone, against the comment at `ui.go:203`.
* A session that the owner disconnects is neither revoked nor listed, so the
  consumer's tunnel stays up; `EndedSessionLosesItsTunnel` fails without its
  exception for it. A late report that makes a stopped share active again is the
  other case.
* A session created by a request whose answer was lost stays active for as long
  as the device's heartbeats refresh it, and blocks new sessions of the device.
* A token expires 24 hours after the login (`auth.go:66`) and nothing renews it:
  from then on the agent's rounds end at a refused heartbeat. `EndToEnd` assumes
  valid tokens; with an expired one neither of its properties can hold.
* After a restart of the provider's agent, or a `wg` command that failed to remove
  a peer, the peer of an ended session is never removed
  (`EndedSessionLosesItsPeer` fails when `MCRecoverable` includes `"agent"` or
  `"remove"`).
* When a device registers a new key during a session, the peer with the old key
  stays for ever: Monitor removes by the key that the list shows.
  `EndedSessionLosesItsPeer` excuses such keys. If the device then registers its
  old key again (two computers with one user and device name do), the old peer's
  counter is charged a second time.
* Two device rows may have one key: `devices.tunnel_public_key` is not unique
  (`database.go:52-62`), the key is that of the key file, and a device that is
  renamed registers a new row with it (`ui.go:77`). The check for a live session is
  per row (`repository.go:269`). With an orphan of the old row still active, the two
  sessions share a peer and a counter: traffic is charged twice, and retiring one
  removes or redirects the peer of the other. `ChargeNeverExceedsTraffic` fails
  without `keyShared`, and `PeersStaySeparate` without the first case of `Confused`.
* Two sessions of one device that start within one second are listed in any order.
  When the one that ended is visited last, the peer of the one that goes on is
  removed. `PeersStaySeparate` fails without the second case of `Confused`.
* A `wg` command that adds a peer and reports an error all the same leaves a peer
  that Monitor does not know. The next round adds it again, unless the session ends
  first; then it stays (`EndedSessionLosesItsPeer` fails when `MCRecoverable`
  includes `"added"`).
* `UpdateSettings` with a blank device name passes the check at `ui.go:69` while a
  session is up, and clears the device id at `ui.go:77`: the heartbeats of the
  running session stop.
* `UpdateSettings` looks for snapshots once; a Connect that is under way saves its
  snapshot later, for the old server. A command line that loaded the configuration
  before the server changed writes the old server back. Either way the agent may talk
  to another server than that of the session whose tunnel is up: no property
  says that it does not.
* The options `--server-url` and `--role`, which the launcher passes at every
  start, replace server and role of the saved configuration and keep token and
  device id (`CredentialsBelongTogether` fails when `Overrides` is not empty).
* `init` with one id and two endpoints, or a NAT whose name lacks "NAT", leaves
  a route or NAT that no snapshot records (`ResourcesAreRepairable` fails when
  `InitEndpoint` is free, or with `NATNamed = FALSE`).

## 4. Proofs

All theorems hold for every value of the constants that the named `ASSUME`s
allow: pools of at least four addresses with both configured addresses in the
pool, a positive TTL, life and quotas, users and roles given as functions, and
sessions numbered in the order of their seconds.

* `TunnelPoolProofs`: `Allocate` is sound (usable, free, not the provider's) and
  complete (it fails only when all usable addresses are taken). Completeness
  rests on `Candidate` being onto: the round that looks at a given host is
  computed and shown to be in range.
* `AddressLeasesProofs`: the invariants of the leases follow from these, and
  `AllocateIsScan` says that the closed form `Allocate` returns what the loop of
  `allocateTunnelIP` returns. The loop is a recursive function, a `CHOOSE` among
  the functions that satisfy its equation: `LoopExists` gives one, and `LoopSkips`
  says that every one returns at the first round what it returns at the first round
  that finds a free address (by the least round that returns the same, so no
  induction over an operator is needed).
* `ControlPlaneProofs`: type correctness, the five state invariants, the action
  property `ChargeIsFinal`, and that `ControlPlane` implements
  `SessionLifecycle` and, for every provider, `AddressLeases`. `TypeOK` alone is
  not inductive: the charge stays in range only since a session that may be reported on belongs to a share that exists
  (`SessionJoinsParties`), and since an unused share is uncharged
  (`UnusedIsUncharged`). A session's provider and consumer differ because owner
  and receiver do (`DistinctParties`). The inductive invariant `IInv` is the
  conjunction of these parts with the two uniqueness properties, stated row by
  row (`OneLive`, `UniqueLive`). Per part, one lemma says what a step may do to a
  row (a session keeps its parties for ever, only `CreateSession` makes a session
  live), and the invariants follow from those lemmas, not from each action again.
  `ChargesCoverReports` is about a sum over sessions, which is stated as the number of
  the units reported (`Reported`): a report adds the units of its delta, or replaces
  those of an earlier total, and the cardinality of a set difference and a disjoint
  union is all that is needed. `CoverInv` adds that unused sessions have no share and
  that the units are finitely many, so the theorem holds also for unlimited ids.
  `ImplementsLeases` needs that a session keeps its address while it is live and that
  only `CreateSession` makes one live, with the address of the scan; `ProviderLeases`
  is the same for one provider as an implementation of `AddressLeases!Spec`.

* `LocalIdentityProofs`: type correctness, `CredentialsBelongTogether` and
  `RegistrationIsRepeatable`, for any number of servers, users, names and ids, with
  settings changing at any time. The credentials need `IdentityInv`: with
  `TypeOK` it says that a server has one row per id and one per user and name
  (`RowsAreKeyed`, the table's two keys), without which the id a registration
  answers with could be that of another row. Both theorems about credentials
  assume `Overrides = {}`, and the case above shows that they need it.

* `NetworkAgentProofs`: type correctness and `ResourcesAreRecorded`, for any
  number of workers that overlap as they like. Types need `Fits`: program
  counter, operation and id of a worker go together, so that the next step is
  always one that exists. `ResourcesAreRecorded` is not inductive: `Prepared` adds
  that a set-up behind its `save` step has a snapshot, which names the endpoint it
  is about to use, and that a clean-up has loaded one; `OneSetUp`, that no two
  workers set up one session; `Snapshots`, that an id is never given another
  endpoint (`InitEndpoint` for the ids of `init`, the single use of a session id
  otherwise). No step takes a snapshot away, so what is recorded stays recorded.
  `SeparateOperationsAreRepairable` and `SeparateOperationsShieldTheTunnel` are about
  behaviours in which no two operations overlap (`[]OneAtATime`), which a single worker
  cannot break (`OneWorkerNeverOverlaps`) and without which both properties are false:
  `monitor_race` ends with a tunnel that has neither shield nor incomplete snapshot. `Owned` says to which incomplete snapshot each
  resource belongs; it survives since `SetUpStage` and `CleanUpStage` say for every
  step of an operation what is on the computer before it. The first of the two
  theorems assumes `NATNamed`, see the last disagreement above.
* `ProviderAgentProofs`: type correctness, `PeersStaySeparate` and
  `ChargeNeverExceedsTraffic`, for any number of sessions, devices and failures.
  Nothing is assumed about keys: devices may have the same one from the start and
  take any other at any time. The properties name what then goes wrong, and the
  theorems say that nothing else does.
  The invariant `Orderly` relates a list, however stale, to the tables and to Monitor's
  map: a list shows one active session of a device (`OneListed`) and is gone through in
  order (`InOrder`), what a device had before is over (`OverBefore`) and retires before
  a session of a later second gets its peer (`OldRetireFirst`, which rests on
  `ORDER BY started_at`), so that Monitor never knows two sessions of one
  device from different seconds (`OnePeerPerDevice`); and an address that a
  stale list shows as active is not that of another session which Monitor knows
  (`ListedAddresses`).
  `ChargesAreBacked` strengthens the bound on the charge to `TrafficCovers`: what was
  charged, plus what every session's next reading and report would add, is within the
  traffic (again a number of units). That holds as long as no counter is read for two
  sessions, which `KeysApart` gives while `keyShared` is false: active sessions have
  keys of their own (`ActiveApart`), so have those that a stale list shows as active
  (`ListedApart`), and a key that an active session came to have since the list was
  made has no peer yet (`LaterKeysAreFresh`).
* `EndToEndProofs`: every step of the composition is a step of `ControlPlane`, a
  failure on a computer, or nothing to the server. So the invariants of the
  tables hold in it, the one of charges included, and it implements
  `SessionLifecycle` and every provider's `AddressLeases`.

Only model-checked: liveness (`SilentDeviceEndsSession`, `DeadShareEndsSessions`,
`RevokedSessionIsCleanedUp`, `EndedSessionLosesItsPeer`,
`EndedSessionLosesItsTunnel`, `EndedSessionLosesItsAccess`), since fairness and
ENABLED are out of the prover's reach. Every other property of a passing run is
stated by a theorem; the properties of the runs that expect a violation are false in
those instances.

## 5. Plan

Done: all modules above with their runs, and the theorems of section 4, which
cover every safety property of the passing runs.

Left:

* The steps behind liveness that need no fairness: what a sweep has achieved when
  its last statement is done, and which steps undo it.

## 6. Not modelled

* `quota.ParseGB`: a pure function of a text; nothing interleaves with it.
* Token expiry, user names and passwords: an expired token is a refused request,
  which every request may be; hashing is a library.
* The web UI and its page: handlers that check host and token and call the local
  controller. The ten minutes for which a preview counts only restrict when the
  modelled operations start.
* The creation of the device key, which two processes may do at the same time
  when there is none yet.
* Logging, ids, windows and message boxes, HTTP headers, TLS, PowerShell text.
  They keep no state that the properties above depend on.
