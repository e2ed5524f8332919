---------------------------- MODULE ControlPlane ----------------------------
(***************************************************************************)
(* The control server: the devices, shares and sessions tables of          *)
(* internal/database, the HTTP handlers of internal/api that change them,  *)
(* and the sweeper of internal/controlserver.                              *)
(*                                                                         *)
(* The database has one connection, so a statement and a transaction are   *)
(* atomic; a handler that runs two statements outside a transaction        *)
(* (HeartbeatDevice, StopShare, ExpireStale) is split between them, and    *)
(* every other handler may run in between.                                 *)
(*                                                                         *)
(* Timestamps are kept as ages: age is the time since last_heartbeat, cut  *)
(* off at TTL (a row is stale iff last_heartbeat <= now - TTL, that is     *)
(* age = TTL), and life is the time left until expires_at (a share is      *)
(* expired iff life = 0).  A refused request changes nothing and is left   *)
(* out.  A device id stands for the (user_id, device_name) key of its row. *)
(***************************************************************************)
EXTENDS TunnelPool, FiniteSets

CONSTANTS
  Users,      \* registered accounts
  Devices,    \* device ids
  Shares,     \* share ids, handed out once
  Sessions,   \* session ids, handed out once
  None,       \* the reference of a row that does not exist yet
  UserOf,     \* UserOf[d]: the account device d belongs to
  RolesOf,    \* RolesOf[d]: the roles d's user may register it under
  TTL,        \* heartbeat TTL, in clock steps
  MaxLife,    \* bound: longest validity of a share, in clock steps
  Quotas,     \* the quotas that owners choose from, in traffic units
  MaxQuota,   \* bound: largest of them
  MaxTotal,   \* bound: largest counter value a provider reports
  MaxFaults   \* bound: statements and processes that may fail

Roles == {"provider", "consumer"}

ASSUME ControlPlaneAssumption ==
  /\ None \notin Users \cup Devices \cup Shares
  /\ UserOf \in [Devices -> Users]
  /\ RolesOf \in [Devices -> SUBSET Roles]
  /\ TTL \in Nat \ {0} /\ MaxLife \in Nat \ {0}
  /\ MaxQuota \in Nat /\ Quotas \subseteq 1..MaxQuota
  /\ MaxTotal \in Nat /\ MaxFaults \in Nat

VARIABLES
  devices,    \* the devices table
  shares,     \* the shares table
  sessions,   \* the sessions table, with the last reported total of each
  pending,    \* second statements that handlers have still to run
  sweep,      \* the statement the sweeper runs next
  faults      \* failures so far

vars == <<devices, shares, sessions, pending, sweep, faults>>

-----------------------------------------------------------------------------
(* Rows *)

ShareStatus == {"active", "stopped", "expired", "exhausted"}
SessionStatus ==
  {"pending", "active", "disconnecting", "disconnected", "revoked", "failed"}

DeviceRow == [role : Roles \cup {"unregistered"}, online : BOOLEAN, age : 0..TTL]

ShareRow ==
  [status : ShareStatus \cup {"unused"}, owner : Users \cup {None},
   receiver : Users \cup {None}, quota : 0..MaxQuota, used : 0..MaxQuota,
   life : 0..MaxLife]

SessionRow ==
  [status : SessionStatus \cup {"unused"}, share : Shares \cup {None},
   provider : Devices \cup {None}, consumer : Devices \cup {None},
   host : 0..(Size - 1), age : 0..TTL, total : 0..MaxTotal]

\* The second statements of HeartbeatDevice and of StopShare.
Beat(d) == [stmt |-> "beat", id |-> d]
Stop(s) == [stmt |-> "stop", id |-> s]
Statements == {Beat(d) : d \in Devices} \cup {Stop(s) : s \in Shares}

Init ==
  /\ devices = [d \in Devices |-> [role |-> "unregistered", online |-> FALSE, age |-> 0]]
  /\ shares = [s \in Shares |->
       [status |-> "unused", owner |-> None, receiver |-> None,
        quota |-> 0, used |-> 0, life |-> 0]]
  /\ sessions = [x \in Sessions |->
       [status |-> "unused", share |-> None, provider |-> None,
        consumer |-> None, host |-> NoAddress, age |-> 0, total |-> 0]]
  /\ pending = {}
  /\ sweep = "devices"
  /\ faults = 0

-----------------------------------------------------------------------------
(* Queries *)

\* The statuses the two partial unique indexes and the capacity checks count.
Live(x) == sessions[x].status \in {"pending", "active", "disconnecting"}

Registered(d) == devices[d].role # "unregistered"

LiveSessionsOf(p) == {x \in Sessions : sessions[x].provider = p /\ Live(x)}

\* Providers of an account with a heartbeat younger than the TTL.
Reachable(owner) ==
  {p \in Devices : /\ UserOf[p] = owner
                   /\ devices[p].role = "provider"
                   /\ devices[p].online
                   /\ devices[p].age < TTL}

Load(p) == Cardinality(LiveSessionsOf(p))

\* ORDER BY live sessions, then last_heartbeat DESC: any of the first rows.
BestProviders(owner) ==
  {p \in Reachable(owner) : \A q \in Reachable(owner) :
     \/ Load(p) < Load(q)
     \/ Load(p) = Load(q) /\ devices[p].age <= devices[q].age}

\* Faulty: an address is free again as soon as its session has gone stale.
HostsOfFresh(p) == {sessions[x].host : x \in {y \in LiveSessionsOf(p) : sessions[y].age < TTL}}

HostsInUse(p) == {sessions[x].host : x \in LiveSessionsOf(p)}

-----------------------------------------------------------------------------
(* Devices *)

RegisterDevice(d, role) ==
  /\ devices' = [devices EXCEPT ![d] = [role |-> role, online |-> TRUE, age |-> 0]]
  /\ UNCHANGED <<shares, sessions, pending, sweep, faults>>

\* HeartbeatDevice, first statement: the device row.
Heartbeat(d) ==
  /\ Registered(d)
  /\ devices' = [devices EXCEPT ![d] = [role |-> @.role, online |-> TRUE, age |-> 0]]
  /\ pending' = pending \cup {Beat(d)}
  /\ UNCHANGED <<shares, sessions, sweep, faults>>

\* HeartbeatDevice, second statement: every active session the device takes
\* part in, on either side.
HeartbeatSessions(d) ==
  /\ Beat(d) \in pending
  /\ pending' = pending \ {Beat(d)}
  /\ sessions' = [x \in Sessions |->
       IF sessions[x].status = "active" /\ d \in {sessions[x].provider, sessions[x].consumer}
       THEN [sessions[x] EXCEPT !.age = 0]
       ELSE sessions[x]]
  /\ UNCHANGED <<devices, shares, sweep, faults>>

-----------------------------------------------------------------------------
(* Shares *)

CreateShare(s, owner, receiver, quota, life) ==
  /\ shares[s].status = "unused"
  /\ owner # receiver
  /\ quota > 0 /\ life > 0
  /\ shares' = [shares EXCEPT ![s] =
       [status |-> "active", owner |-> owner, receiver |-> receiver,
        quota |-> quota, used |-> 0, life |-> life]]
  /\ UNCHANGED <<devices, sessions, pending, sweep, faults>>

\* Faulty: StopShare without its condition on the status.
StopAnyShare(s) ==
  /\ shares[s].status # "unused"
  /\ shares' = [shares EXCEPT ![s].status = "stopped"]
  /\ pending' = pending \cup {Stop(s)}
  /\ UNCHANGED <<devices, sessions, sweep, faults>>

\* StopShare, first statement: the share row.
StopShare(s) ==
  /\ shares[s].status = "active"
  /\ shares' = [shares EXCEPT ![s].status = "stopped"]
  /\ pending' = pending \cup {Stop(s)}
  /\ UNCHANGED <<devices, sessions, sweep, faults>>

\* StopShare, second statement: the sessions of the share.
StopShareSessions(s) ==
  /\ Stop(s) \in pending
  /\ pending' = pending \ {Stop(s)}
  /\ sessions' = [x \in Sessions |->
       IF sessions[x].share = s /\ sessions[x].status \in {"pending", "active"}
       THEN [sessions[x] EXCEPT !.status = "revoked"]
       ELSE sessions[x]]
  /\ UNCHANGED <<devices, shares, sweep, faults>>

-----------------------------------------------------------------------------
(* Sessions *)

\* Faulty: a request for a device of anybody, and one for a busy device.
AdmissibleForAnyone(s, c) ==
  /\ shares[s].status = "active" /\ shares[s].life > 0 /\ shares[s].used < shares[s].quota
  /\ devices[c].role = "consumer"
  /\ ~ \E x \in Sessions : sessions[x].consumer = c /\ Live(x)

AdmissibleWhenBusy(s, c) ==
  /\ shares[s].status = "active" /\ shares[s].life > 0 /\ shares[s].used < shares[s].quota
  /\ devices[c].role = "consumer" /\ UserOf[c] = shares[s].receiver

\* prepareSession: what a receiver's request has to pass.
Admissible(s, c) ==
  /\ shares[s].status = "active"
  /\ shares[s].life > 0
  /\ shares[s].used < shares[s].quota
  /\ devices[c].role = "consumer"
  /\ UserOf[c] = shares[s].receiver
  /\ ~ \E x \in Sessions : sessions[x].consumer = c /\ Live(x)

\* CreateSession: one transaction around prepareSession and the INSERT.  The
\* unique indexes are no guard here: OneLiveSessionPerConsumer and
\* UniqueLiveAddress say that the INSERT never trips them.
CreateSession(x, s, c) ==
  /\ sessions[x].status = "unused"
  /\ Admissible(s, c)
  /\ \E p \in BestProviders(shares[s].owner) :
       LET host == Allocate(HostsInUse(p)) IN
       /\ host # NoAddress
       /\ sessions' = [sessions EXCEPT ![x] =
            [status |-> "active", share |-> s, provider |-> p, consumer |-> c,
             host |-> host, age |-> 0, total |-> 0]]
  /\ UNCHANGED <<devices, shares, pending, sweep, faults>>

\* DisconnectSession, by the owner or the receiver of the share.
DisconnectSession(x) ==
  /\ sessions[x].status \in {"pending", "active", "disconnecting", "revoked", "failed"}
  /\ sessions' = [sessions EXCEPT ![x].status = "disconnected"]
  /\ UNCHANGED <<devices, shares, pending, sweep, faults>>

\* Faulty: RevokeSession without its condition on the status.
RevokeAnySession(x) ==
  /\ sessions[x].status # "unused"
  /\ sessions' = [sessions EXCEPT ![x].status = "revoked"]
  /\ UNCHANGED <<devices, shares, pending, sweep, faults>>

\* RevokeSession, by the owner of the share.
RevokeSession(x) ==
  /\ sessions[x].status \in {"pending", "active"}
  /\ sessions' = [sessions EXCEPT ![x].status = "revoked"]
  /\ UNCHANGED <<devices, shares, pending, sweep, faults>>

\* Faulty: the total of one session replaces the charges of the others.
ChargeLast(used, last, total) == total

\* A total below the last one is that of a counter that started again.
Charge(used, last, total) == used + IF total >= last THEN total - last ELSE total

\* Faulty: off by one, and no limit at all.
ExhaustsLate(quota, newUsed) == newUsed > quota
ExhaustsNever(quota, newUsed) == FALSE

Exhausts(quota, newUsed) == newUsed >= quota

\* ReportTraffic, by the provider device of the session: one transaction that
\* reads the session, its share and the last report, and writes all three.
ReportTraffic(x, total) ==
  LET s         == sessions[x].share
      newUsed   == Charge(shares[s].used, sessions[x].total, total)
      exhausted == Exhausts(shares[s].quota, newUsed)
  IN
  /\ sessions[x].status \in {"active", "revoked"}
  /\ shares' = [shares EXCEPT ![s] =
       [@ EXCEPT !.used   = IF exhausted THEN shares[s].quota ELSE newUsed,
                 !.status = IF exhausted THEN "exhausted" ELSE "active"]]
  /\ sessions' = [sessions EXCEPT ![x] =
       [@ EXCEPT !.total  = total,
                 !.status = IF exhausted THEN "revoked" ELSE sessions[x].status,
                 !.age    = 0]]
  /\ UNCHANGED <<devices, pending, sweep, faults>>

-----------------------------------------------------------------------------
(* The sweeper: ExpireStale runs three statements. *)

SweepDevices ==
  /\ sweep = "devices"
  /\ sweep' = "shares"
  /\ devices' = [d \in Devices |->
       IF devices[d].age >= TTL THEN [devices[d] EXCEPT !.online = FALSE] ELSE devices[d]]
  /\ UNCHANGED <<shares, sessions, pending, faults>>

SweepShares ==
  /\ sweep = "shares"
  /\ sweep' = "sessions"
  /\ shares' = [s \in Shares |->
       IF shares[s].status = "active" /\ shares[s].life = 0
       THEN [shares[s] EXCEPT !.status = "expired"]
       ELSE shares[s]]
  /\ UNCHANGED <<devices, sessions, pending, faults>>

\* Faulty: a session goes with its share only, or with its devices only.
LapsedByShare(x) == sessions[x].age >= TTL \/ shares[sessions[x].share].status # "active"

LapsedByDevice(x) ==
  \/ sessions[x].age >= TTL
  \/ ~ devices[sessions[x].provider].online
  \/ ~ devices[sessions[x].consumer].online

\* The session's own heartbeat, its share, or either of its devices is gone.
Lapsed(x) ==
  \/ sessions[x].age >= TTL
  \/ shares[sessions[x].share].status # "active"
  \/ ~ devices[sessions[x].provider].online
  \/ ~ devices[sessions[x].consumer].online

SweepSessions ==
  /\ sweep = "sessions"
  /\ sweep' = "devices"
  /\ sessions' = [x \in Sessions |->
       IF sessions[x].status = "active" /\ Lapsed(x)
       THEN [sessions[x] EXCEPT !.status = "revoked"]
       ELSE sessions[x]]
  /\ UNCHANGED <<devices, shares, pending, faults>>

-----------------------------------------------------------------------------
(* Failures and time *)

\* A second statement whose error is dropped: the request's context is
\* cancelled when the client goes away, and nobody looks at the result.
LoseStatement(stmt) ==
  /\ stmt \in pending
  /\ faults < MaxFaults
  /\ faults' = faults + 1
  /\ pending' = pending \ {stmt}
  /\ UNCHANGED <<devices, shares, sessions, sweep>>

\* The server stops and starts again, or a sweep gives up at an error: what
\* was under way is dropped, the tables stay.
Restart ==
  /\ pending # {} \/ sweep # "devices"
  /\ faults < MaxFaults
  /\ faults' = faults + 1
  /\ pending' = {}
  /\ sweep' = "devices"
  /\ UNCHANGED <<devices, shares, sessions>>

Older(age) == IF age < TTL THEN age + 1 ELSE TTL

\* The clock.  The statements of one handler or sweep use one reading of it,
\* so it moves when none of them is between two statements.  last_heartbeat is
\* read of active sessions only, so only those get older.
Tick ==
  /\ pending = {} /\ sweep = "devices"
  /\ devices' = [d \in Devices |->
       IF Registered(d) THEN [devices[d] EXCEPT !.age = Older(@)] ELSE devices[d]]
  /\ shares' = [s \in Shares |->
       IF shares[s].life > 0 THEN [shares[s] EXCEPT !.life = @ - 1] ELSE shares[s]]
  /\ sessions' = [x \in Sessions |->
       IF sessions[x].status = "active" THEN [sessions[x] EXCEPT !.age = Older(@)]
       ELSE sessions[x]]
  /\ UNCHANGED <<pending, sweep, faults>>

-----------------------------------------------------------------------------
DeviceNext ==
  \E d \in Devices :
    \/ \E role \in RolesOf[d] : RegisterDevice(d, role)
    \/ Heartbeat(d)
    \/ HeartbeatSessions(d)

ShareNext ==
  \E s \in Shares :
    \/ \E owner, receiver \in Users, quota \in Quotas, life \in 1..MaxLife :
         CreateShare(s, owner, receiver, quota, life)
    \/ StopShare(s)
    \/ StopShareSessions(s)

SessionNext ==
  \E x \in Sessions :
    \/ \E s \in Shares, c \in Devices : CreateSession(x, s, c)
    \/ DisconnectSession(x)
    \/ RevokeSession(x)
    \/ \E total \in 0..MaxTotal : ReportTraffic(x, total)

Next ==
  \/ DeviceNext
  \/ ShareNext
  \/ SessionNext
  \/ SweepDevices \/ SweepShares \/ SweepSessions
  \/ \E stmt \in Statements : LoseStatement(stmt)
  \/ Restart
  \/ Tick

Spec == Init /\ [][Next]_vars

\* The sweeper's goroutine runs for as long as the server does.
Fairness == WF_vars(SweepDevices) /\ WF_vars(SweepShares) /\ WF_vars(SweepSessions)

FairSpec == Spec /\ Fairness

-----------------------------------------------------------------------------
(* What the tables promise *)

\* Every row has the columns and the CHECKed values of the schema.
TypeOK ==
  /\ devices \in [Devices -> DeviceRow]
  /\ shares \in [Shares -> ShareRow]
  /\ sessions \in [Sessions -> SessionRow]
  /\ pending \subseteq Statements
  /\ sweep \in {"devices", "shares", "sessions"}
  /\ faults \in 0..MaxFaults

\* A consumer device takes part in one live session at most, as the index
\* idx_one_active_consumer demands: its INSERT never fails, whatever handlers,
\* sweeps and late reports do to the sessions of the device in between.
OneLiveSessionPerConsumer ==
  \A x, y \in Sessions :
    Live(x) /\ Live(y) /\ sessions[x].consumer = sessions[y].consumer => x = y

\* Concurrent consumers of a provider have different tunnel addresses, none of
\* them the provider's own, as idx_active_provider_tunnel_ip demands.
UniqueLiveAddress ==
  \A x \in Sessions : Live(x) =>
    /\ sessions[x].host \in Usable \ {ProviderHost}
    /\ \A y \in Sessions :
         /\ Live(y)
         /\ sessions[x].provider = sessions[y].provider
         /\ sessions[x].host = sessions[y].host
         => x = y

\* A session joins a device of its share's owner to one of its receiver, also
\* after devices changed their role: the ownership checks of every handler
\* that starts from a session (config, report, disconnect) rest on it.
SessionJoinsParties ==
  \A x \in Sessions : sessions[x].status # "unused" =>
    /\ sessions[x].share \in Shares
    /\ {sessions[x].provider, sessions[x].consumer} \subseteq Devices
    /\ shares[sessions[x].share].status # "unused"
    /\ UserOf[sessions[x].provider] = shares[sessions[x].share].owner
    /\ UserOf[sessions[x].consumer] = shares[sessions[x].share].receiver
    /\ sessions[x].provider # sessions[x].consumer

\* A share is marked exhausted exactly when its quota is used up, through
\* stops, expiries and late reports in any order.
ExhaustedIffUsedUp ==
  \A s \in Shares : shares[s].status # "unused" =>
    /\ shares[s].used <= shares[s].quota
    /\ shares[s].status = "exhausted" <=> shares[s].used = shares[s].quota

\* <<x, k>>: the k-th unit of the total that session x of the share reported last.
Reported(s) ==
  UNION {{x} \X (1..sessions[x].total) : x \in {y \in Sessions : sessions[y].share = s}}

\* A share is charged for at least the last totals its sessions reported, up to
\* its quota: a counter that restarts never loses what was charged before.
ChargeCoversReports ==
  \A s \in Shares : Cardinality(Reported(s)) <= shares[s].used \/ shares[s].used = shares[s].quota

\* Every write to a session's status follows the lifecycle that
\* internal/session declares: a session that ended never comes back to life,
\* although a report writes the status it read back and may arrive long after
\* a revocation.
Lifecycle == INSTANCE SessionLifecycle
  WITH Ids <- Sessions, status <- [x \in Sessions |-> sessions[x].status]
FollowsLifecycle == Lifecycle!Spec

\* The address a live session holds, with its provider.
Held(x) == IF Live(x) THEN {<<sessions[x].provider, sessions[x].host>>} ELSE {}

\* The live sessions of a provider lease their addresses from its pool: a session
\* keeps the address it holds, or takes the one that the scan finds, which nobody
\* else has, or gives it back, and no statement moves an address in any other way.
Leases(p) == INSTANCE AddressLeases WITH leased <- {sessions[x].host : x \in LiveSessionsOf(p)}
ProvidersLeaseAddresses ==
  /\ \A p \in Devices : Leases(p)!Init
  /\ [][\A x \in Sessions :
          \/ Held(x)' = Held(x)
          \/ Held(x) = {} /\ \A l \in Held(x)' : Leases(l[1])!Lease
          \/ Held(x)' = {} /\ \A l \in Held(x) : Leases(l[1])!Next]_vars

\* An exhausted share stays exhausted and what was charged is never refunded,
\* whatever a provider reports later and whoever stops or sweeps the share.
ChargeIsFinal ==
  [][\A s \in Shares :
       /\ shares'[s].used >= shares[s].used
       /\ shares[s].status = "exhausted" => shares'[s].status = "exhausted"]_vars

\* When a device of an active session falls silent for the TTL, the sweeper
\* ends the session unless the device comes back, even while the heartbeats of
\* the device on the other side keep refreshing the session row.
SilentDeviceEndsSession ==
  \A x \in Sessions, d \in Devices :
    LET silent == /\ sessions[x].status = "active"
                  /\ d \in {sessions[x].provider, sessions[x].consumer}
                  /\ devices[d].age = TTL
    IN  silent ~> ~ silent

\* A session that goes on although its share was stopped or has expired ends, also
\* when the second statement of StopShare was lost; the exception is that a late
\* report makes the share active again first (ReportTraffic), and then the session
\* goes on with it.
DeadShareEndsSessions ==
  \A x \in Sessions :
    LET goesOn      == sessions[x].status = "active"
        shareGoesOn == shares[sessions[x].share].status = "active"
    IN  (goesOn /\ ~ shareGoesOn) ~> (~ goesOn \/ shareGoesOn)

\* A share that its owner stopped does not become active again.
StoppedShareStaysStopped ==
  [][\A s \in Shares :
       shares[s].status = "stopped" => shares'[s].status # "active"]_vars

=============================================================================
