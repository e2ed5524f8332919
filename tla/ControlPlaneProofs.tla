------------------------- MODULE ControlPlaneProofs -------------------------
(***************************************************************************)
(* The control server keeps its tables consistent, for any number of       *)
(* accounts, devices, shares and sessions.                                 *)
(***************************************************************************)
EXTENDS ControlPlane, TunnelPoolProofs, FiniteSetTheorems

LEMMA NoAddressInPool == NoAddress \in 0..(Size - 1)
BY PoolAssumption DEF NoAddress

LEMMA AllocateInPool == ASSUME NEW used PROVE Allocate(used) \in 0..(Size - 1)
<1>1. CASE Allocate(used) = NoAddress
  BY <1>1, NoAddressInPool
<1>2. CASE Allocate(used) # NoAddress
  BY <1>2, AllocateIsSound, PoolAssumption DEF Usable
<1> QED BY <1>1, <1>2

LEMMA OlderInRange == ASSUME NEW a \in 0..TTL PROVE Older(a) \in 0..TTL
BY ControlPlaneAssumption DEF Older

LEMMA TypingInit == Init => TypeOK
BY ControlPlaneAssumption, NoAddressInPool
DEF Init, TypeOK, DeviceRow, ShareRow, SessionRow, Statements

-----------------------------------------------------------------------------
(* Types.  A step changes two tables at most; the rest is unchanged. *)

LEMMA TypingOfDevices ==
  ASSUME TypeOK, [Next]_vars
  PROVE  devices' \in [Devices -> DeviceRow]
<1> USE ControlPlaneAssumption DEF TypeOK, DeviceRow
<1>1. ASSUME NEW d \in Devices, NEW role \in RolesOf[d], RegisterDevice(d, role)
      PROVE  devices' \in [Devices -> DeviceRow]
  BY <1>1 DEF RegisterDevice
<1>2. ASSUME NEW d \in Devices, Heartbeat(d)
      PROVE  devices' \in [Devices -> DeviceRow]
  BY <1>2 DEF Heartbeat
<1>3. CASE SweepDevices
  BY <1>3 DEF SweepDevices
<1>4. CASE Tick
  BY <1>4, OlderInRange DEF Tick
<1>5. CASE UNCHANGED devices
  BY <1>5
<1> QED
  BY <1>1, <1>2, <1>3, <1>4, <1>5
  DEF Next, DeviceNext, ShareNext, SessionNext, HeartbeatSessions, CreateShare, StopShare,
      StopShareSessions, CreateSession, DisconnectSession, RevokeSession, ReportTraffic,
      SweepShares, SweepSessions, LoseStatement, Restart, vars

\* A report adds less than the quota has left, or fills it up.
LEMMA TypingOfShares ==
  ASSUME TypeOK, SessionJoinsParties, [Next]_vars
  PROVE  shares' \in [Shares -> ShareRow]
<1> USE ControlPlaneAssumption DEF TypeOK, ShareRow, ShareStatus
<1>1. ASSUME NEW s \in Shares, NEW owner \in Users, NEW receiver \in Users,
             NEW quota \in Quotas, NEW life \in 1..MaxLife,
             CreateShare(s, owner, receiver, quota, life)
      PROVE  shares' \in [Shares -> ShareRow]
  BY <1>1 DEF CreateShare
<1>2. ASSUME NEW s \in Shares, StopShare(s)
      PROVE  shares' \in [Shares -> ShareRow]
  BY <1>2 DEF StopShare
<1>3. ASSUME NEW x \in Sessions, NEW total \in 0..MaxTotal, ReportTraffic(x, total)
      PROVE  shares' \in [Shares -> ShareRow]
  <2> DEFINE s == sessions[x].share
             last == sessions[x].total
             newUsed == shares[s].used + (IF total >= last THEN total - last ELSE total)
             cut == IF newUsed >= shares[s].quota THEN shares[s].quota ELSE newUsed
             mark == IF newUsed >= shares[s].quota THEN "exhausted" ELSE "active"
  <2>1. s \in Shares
    BY <1>3 DEF ReportTraffic, SessionJoinsParties
  <2>2. last \in Nat
    BY DEF SessionRow
  <2>3. cut \in 0..MaxQuota
    BY <2>1, <2>2
  <2>4. shares' = [shares EXCEPT ![s] = [@ EXCEPT !.used = cut, !.status = mark]]
    BY <1>3 DEF ReportTraffic, Charge, Exhausts
  <2>5. mark \in ShareStatus
    OBVIOUS
  <2> HIDE DEF s, cut, mark
  <2>6. [shares[s] EXCEPT !.used = cut, !.status = mark] \in ShareRow
    BY <2>1, <2>3, <2>5
  <2> HIDE DEF ShareRow
  <2> QED BY <2>4, <2>6
<1>4. CASE SweepShares
  BY <1>4 DEF SweepShares
<1>5. CASE Tick
  <2>1. MaxLife \in Nat
    OBVIOUS
  <2> HIDE ControlPlaneAssumption
  <2> QED BY <1>5, <2>1 DEF Tick
<1>6. CASE UNCHANGED shares
  BY <1>6
<1> QED
  BY <1>1, <1>2, <1>3, <1>4, <1>5, <1>6
  DEF Next, DeviceNext, ShareNext, SessionNext, RegisterDevice, Heartbeat, HeartbeatSessions,
      StopShareSessions, CreateSession, DisconnectSession, RevokeSession,
      SweepDevices, SweepSessions, LoseStatement, Restart, vars

LEMMA TypingOfSessions ==
  ASSUME TypeOK, [Next]_vars
  PROVE  sessions' \in [Sessions -> SessionRow]
<1> USE ControlPlaneAssumption DEF TypeOK, SessionRow, SessionStatus
<1>1. ASSUME NEW d \in Devices, HeartbeatSessions(d)
      PROVE  sessions' \in [Sessions -> SessionRow]
  <2>1. 0 \in 0..TTL
    OBVIOUS
  <2>2. \A x \in Sessions : [sessions[x] EXCEPT !.age = 0] \in SessionRow
    BY <2>1
  <2> HIDE DEF SessionRow
  <2> QED BY <1>1, <2>2 DEF HeartbeatSessions
<1>2. ASSUME NEW s \in Shares, StopShareSessions(s)
      PROVE  sessions' \in [Sessions -> SessionRow]
  BY <1>2 DEF StopShareSessions
<1>3. ASSUME NEW x \in Sessions, NEW s \in Shares, NEW c \in Devices, CreateSession(x, s, c)
      PROVE  sessions' \in [Sessions -> SessionRow]
  <2>1. PICK p \in Devices :
          LET host == Allocate(HostsInUse(p)) IN
          sessions' = [sessions EXCEPT ![x] =
            [status |-> "active", share |-> s, provider |-> p, consumer |-> c,
             host |-> host, age |-> 0, total |-> 0]]
    BY <1>3 DEF CreateSession, BestProviders, Reachable
  <2>2. Allocate(HostsInUse(p)) \in 0..(Size - 1)
    BY AllocateInPool
  <2> QED BY <2>1, <2>2
<1>4. ASSUME NEW x \in Sessions, DisconnectSession(x)
      PROVE  sessions' \in [Sessions -> SessionRow]
  BY <1>4 DEF DisconnectSession
<1>5. ASSUME NEW x \in Sessions, RevokeSession(x)
      PROVE  sessions' \in [Sessions -> SessionRow]
  BY <1>5 DEF RevokeSession
<1>6. ASSUME NEW x \in Sessions, NEW total \in 0..MaxTotal, ReportTraffic(x, total)
      PROVE  sessions' \in [Sessions -> SessionRow]
  <2>1. PICK st \in SessionStatus :
          sessions' = [sessions EXCEPT ![x] =
                         [@ EXCEPT !.total = total, !.status = st, !.age = 0]]
    BY <1>6 DEF ReportTraffic
  <2>2. 0 \in 0..TTL
    OBVIOUS
  <2>3. [sessions[x] EXCEPT !.total = total, !.status = st, !.age = 0] \in SessionRow
    BY <2>2
  <2> HIDE DEF SessionRow
  <2> QED BY <2>1, <2>3
<1>7. CASE SweepSessions
  BY <1>7 DEF SweepSessions
<1>8. CASE Tick
  BY <1>8, OlderInRange DEF Tick
<1>9. CASE UNCHANGED sessions
  BY <1>9
<1> QED
  BY <1>1, <1>2, <1>3, <1>4, <1>5, <1>6, <1>7, <1>8, <1>9
  DEF Next, DeviceNext, ShareNext, SessionNext, RegisterDevice, Heartbeat,
      CreateShare, StopShare, SweepDevices, SweepShares, LoseStatement, Restart, vars

LEMMA TypingOfControl ==
  ASSUME TypeOK, [Next]_vars
  PROVE  /\ pending' \subseteq Statements
         /\ sweep' \in {"devices", "shares", "sessions"}
         /\ faults' \in 0..MaxFaults
<1> USE ControlPlaneAssumption DEF TypeOK, Statements
<1>1. CASE DeviceNext
  BY <1>1 DEF DeviceNext, RegisterDevice, Heartbeat, HeartbeatSessions
<1>2. CASE ShareNext
  BY <1>2 DEF ShareNext, CreateShare, StopShare, StopShareSessions
<1>3. CASE SessionNext
  BY <1>3 DEF SessionNext, CreateSession, DisconnectSession, RevokeSession, ReportTraffic
<1>4. CASE SweepDevices \/ SweepShares \/ SweepSessions
  BY <1>4 DEF SweepDevices, SweepShares, SweepSessions
<1>5. CASE (\E stmt \in Statements : LoseStatement(stmt)) \/ Restart \/ Tick
  BY <1>5 DEF LoseStatement, Restart, Tick
<1>6. CASE UNCHANGED vars
  BY <1>6 DEF vars
<1> QED BY <1>1, <1>2, <1>3, <1>4, <1>5, <1>6 DEF Next

LEMMA TypingStep ==
  ASSUME TypeOK, SessionJoinsParties, [Next]_vars
  PROVE  TypeOK'
BY TypingOfDevices, TypingOfShares, TypingOfSessions, TypingOfControl DEF TypeOK

-----------------------------------------------------------------------------
(* What a step does to a session and to a share that existed before it *)

\* The statuses DisconnectSession closes.
Closable == {"pending", "active", "disconnecting", "revoked", "failed"}

Unchanged(x) ==
  /\ sessions'[x].share = sessions[x].share
  /\ sessions'[x].provider = sessions[x].provider
  /\ sessions'[x].consumer = sessions[x].consumer
  /\ sessions'[x].host = sessions[x].host

StatusKept(x) ==
  \/ sessions'[x].status = sessions[x].status
  \/ sessions[x].status \in {"pending", "active"} /\ sessions'[x].status = "revoked"
  \/ sessions[x].status \in Closable /\ sessions'[x].status = "disconnected"

Creates == \E x \in Sessions, s \in Shares, c \in Devices : CreateSession(x, s, c)

\* Only the INSERT of CreateSession says who takes part in a session, and no
\* other statement makes one live.
LEMMA StepOnSessions ==
  ASSUME TypeOK, [Next]_vars, ~ Creates, NEW x \in Sessions
  PROVE  Unchanged(x) /\ StatusKept(x)
<1> USE DEF TypeOK, SessionRow, Unchanged, StatusKept, Closable
<1>1. ASSUME NEW d \in Devices, HeartbeatSessions(d)
      PROVE  Unchanged(x) /\ StatusKept(x)
  BY <1>1 DEF HeartbeatSessions
<1>2. ASSUME NEW s \in Shares, StopShareSessions(s)
      PROVE  Unchanged(x) /\ StatusKept(x)
  BY <1>2 DEF StopShareSessions
<1>3. ASSUME NEW y \in Sessions, DisconnectSession(y)
      PROVE  Unchanged(x) /\ StatusKept(x)
  BY <1>3 DEF DisconnectSession
<1>4. ASSUME NEW y \in Sessions, RevokeSession(y)
      PROVE  Unchanged(x) /\ StatusKept(x)
  BY <1>4 DEF RevokeSession
<1>5. ASSUME NEW y \in Sessions, NEW total \in 0..MaxTotal, ReportTraffic(y, total)
      PROVE  Unchanged(x) /\ StatusKept(x)
  <2>1. PICK st \in {sessions[y].status, "revoked"} :
          sessions' = [sessions EXCEPT ![y] =
                         [@ EXCEPT !.total = total, !.status = st, !.age = 0]]
    BY <1>5 DEF ReportTraffic
  <2>2. sessions[y].status \in {"active", "revoked"}
    BY <1>5 DEF ReportTraffic
  <2>3. CASE x = y
    BY <2>1, <2>2, <2>3
  <2>4. CASE x # y
    BY <2>1, <2>4
  <2> QED BY <2>3, <2>4
<1>6. CASE SweepSessions
  BY <1>6 DEF SweepSessions
<1>7. CASE Tick
  BY <1>7 DEF Tick
<1>8. CASE UNCHANGED sessions
  BY <1>8
<1> QED
  BY <1>1, <1>2, <1>3, <1>4, <1>5, <1>6, <1>7, <1>8
  DEF Next, DeviceNext, ShareNext, SessionNext, RegisterDevice, Heartbeat, Creates,
      CreateShare, StopShare, SweepDevices, SweepShares, LoseStatement, Restart, vars

\* The parties and the quota of a share are written once.
ShareKept(s) ==
  /\ shares'[s].owner = shares[s].owner
  /\ shares'[s].receiver = shares[s].receiver
  /\ shares'[s].quota = shares[s].quota
  /\ shares'[s].status # "unused" <=> shares[s].status # "unused"

DistinctParties ==
  \A s \in Shares : shares[s].status # "unused" => shares[s].owner # shares[s].receiver

LEMMA StepOnShares ==
  ASSUME TypeOK, SessionJoinsParties, [Next]_vars, NEW s \in Shares
  PROVE  \/ ShareKept(s)
         \/ /\ shares[s].status = "unused"
            /\ shares'[s].owner # shares'[s].receiver
<1> USE DEF TypeOK, ShareRow, ShareKept
<1> DEFINE Goal == \/ ShareKept(s)
                   \/ /\ shares[s].status = "unused"
                      /\ shares'[s].owner # shares'[s].receiver
<1>1. ASSUME NEW t \in Shares, NEW owner \in Users, NEW receiver \in Users,
             NEW quota \in Quotas, NEW life \in 1..MaxLife,
             CreateShare(t, owner, receiver, quota, life)
      PROVE  Goal
  BY <1>1 DEF CreateShare
<1>2. ASSUME NEW t \in Shares, StopShare(t)
      PROVE  Goal
  BY <1>2 DEF StopShare
<1>3. ASSUME NEW x \in Sessions, NEW total \in 0..MaxTotal, ReportTraffic(x, total)
      PROVE  Goal
  <2> DEFINE t == sessions[x].share
  <2>1. t \in Shares /\ shares[t].status # "unused"
    BY <1>3 DEF ReportTraffic, SessionJoinsParties
  <2>2. \E used : \E st \in {"exhausted", "active"} :
          shares' = [shares EXCEPT ![t] = [@ EXCEPT !.used = used, !.status = st]]
    BY <1>3 DEF ReportTraffic
  <2> HIDE DEF t
  <2>3. CASE s = t
    BY <2>1, <2>2, <2>3
  <2>4. CASE s # t
    BY <2>2, <2>4
  <2> QED BY <2>3, <2>4
<1>4. CASE SweepShares
  BY <1>4 DEF SweepShares
<1>5. CASE Tick
  BY <1>5 DEF Tick
<1>6. CASE UNCHANGED shares
  BY <1>6
<1> QED
  BY <1>1, <1>2, <1>3, <1>4, <1>5, <1>6
  DEF Next, DeviceNext, ShareNext, SessionNext, RegisterDevice, Heartbeat, HeartbeatSessions,
      StopShareSessions, CreateSession, DisconnectSession, RevokeSession,
      SweepDevices, SweepSessions, LoseStatement, Restart, vars

\* What the INSERT of CreateSession writes.
LEMMA EffectOfCreate ==
  ASSUME TypeOK, NEW x \in Sessions, NEW s \in Shares, NEW c \in Devices, CreateSession(x, s, c)
  PROVE  \E p \in Devices :
           LET host == Allocate(HostsInUse(p)) IN
           /\ host # NoAddress
           /\ UserOf[p] = shares[s].owner
           /\ sessions'[x] = [status |-> "active", share |-> s, provider |-> p,
                              consumer |-> c, host |-> host, age |-> 0, total |-> 0]
           /\ \A y \in Sessions \ {x} : sessions'[y] = sessions[y]
           /\ shares' = shares
BY DEF CreateSession, BestProviders, Reachable, TypeOK

-----------------------------------------------------------------------------
(* The inductive invariant.  Types alone are not inductive: a report finds its
   share through SessionJoinsParties, which rests on DistinctParties. *)

UnusedIsUncharged == \A s \in Shares : shares[s].status = "unused" => shares[s].used = 0

IInv ==
  /\ TypeOK
  /\ DistinctParties
  /\ SessionJoinsParties
  /\ UnusedIsUncharged
  /\ ExhaustedIffUsedUp
  /\ OneLiveSessionPerConsumer
  /\ UniqueLiveAddress

LEMMA InvInit == Init => IInv
BY TypingInit, ControlPlaneAssumption
DEF Init, IInv, DistinctParties, SessionJoinsParties, UnusedIsUncharged, ExhaustedIffUsedUp,
    OneLiveSessionPerConsumer, UniqueLiveAddress, Live

LEMMA JoinsStep ==
  ASSUME TypeOK, DistinctParties, SessionJoinsParties, [Next]_vars
  PROVE  SessionJoinsParties'
<1> SUFFICES ASSUME NEW x \in Sessions, sessions'[x].status # "unused"
             PROVE  /\ sessions'[x].share \in Shares
                    /\ {sessions'[x].provider, sessions'[x].consumer} \subseteq Devices
                    /\ shares'[sessions'[x].share].status # "unused"
                    /\ UserOf[sessions'[x].provider] = shares'[sessions'[x].share].owner
                    /\ UserOf[sessions'[x].consumer] = shares'[sessions'[x].share].receiver
                    /\ sessions'[x].provider # sessions'[x].consumer
  BY DEF SessionJoinsParties
<1> DEFINE s == sessions[x].share
<1>1. CASE sessions[x].status # "unused" /\ Unchanged(x)
  <2>1. s \in Shares /\ shares[s].status # "unused"
    BY <1>1 DEF SessionJoinsParties
  <2>2. ShareKept(s)
    BY <2>1, StepOnShares
  <2> QED BY <1>1, <2>1, <2>2 DEF SessionJoinsParties, Unchanged, ShareKept
<1>2. ASSUME NEW y \in Sessions, NEW t \in Shares, NEW c \in Devices, CreateSession(y, t, c)
      PROVE  SessionJoinsParties'
  <2>1. /\ shares[t].status = "active" /\ UserOf[c] = shares[t].receiver
    BY <1>2 DEF CreateSession, Admissible
  <2>2. shares[t].owner # shares[t].receiver
    BY <2>1 DEF DistinctParties
  <2>3. PICK p \in Devices :
          LET host == Allocate(HostsInUse(p)) IN
          /\ UserOf[p] = shares[t].owner
          /\ sessions'[y] = [status |-> "active", share |-> t, provider |-> p,
                             consumer |-> c, host |-> host, age |-> 0, total |-> 0]
          /\ \A z \in Sessions \ {y} : sessions'[z] = sessions[z]
          /\ shares' = shares
    BY <1>2, EffectOfCreate
  <2>4. /\ sessions'[y].share = t
        /\ sessions'[y].provider = p /\ sessions'[y].consumer = c
    BY <2>3
  <2>5. p # c
    BY <2>1, <2>2, <2>3
  <2> QED BY <2>1, <2>3, <2>4, <2>5 DEF SessionJoinsParties
<1>3. CASE ~ Creates
  <2>1. Unchanged(x) /\ StatusKept(x)
    BY <1>3, StepOnSessions
  <2>2. sessions[x].status # "unused"
    BY <2>1 DEF StatusKept, Closable
  <2> QED BY <1>1, <2>1, <2>2
<1> QED BY <1>2, <1>3 DEF Creates, SessionJoinsParties

LEMMA PartiesStep ==
  ASSUME TypeOK, DistinctParties, SessionJoinsParties, [Next]_vars
  PROVE  DistinctParties'
BY StepOnShares DEF DistinctParties, ShareKept

\* A report that fills the quota up marks the share, and one that does not
\* leaves it below the quota.
LEMMA ChargeStep ==
  ASSUME TypeOK, SessionJoinsParties, UnusedIsUncharged, ExhaustedIffUsedUp, [Next]_vars
  PROVE  /\ UnusedIsUncharged'
         /\ ExhaustedIffUsedUp'
         /\ \A s \in Shares :
              /\ shares'[s].used >= shares[s].used
              /\ shares[s].status = "exhausted" => shares'[s].status = "exhausted"
<1> DEFINE Charged(s) ==
             /\ shares'[s].status = "unused" => shares'[s].used = 0
             /\ shares'[s].status # "unused" =>
                  /\ shares'[s].used <= shares'[s].quota
                  /\ shares'[s].status = "exhausted" <=> shares'[s].used = shares'[s].quota
             /\ shares'[s].used >= shares[s].used
             /\ shares[s].status = "exhausted" => shares'[s].status = "exhausted"
<1> SUFFICES ASSUME NEW s \in Shares PROVE Charged(s)
  BY DEF UnusedIsUncharged, ExhaustedIffUsedUp
<1>0. /\ shares[s].used \in Nat /\ shares[s].quota \in Nat
      /\ shares[s].status = "unused" => shares[s].used = 0
      /\ shares[s].status # "unused" =>
           /\ shares[s].used <= shares[s].quota
           /\ shares[s].status = "exhausted" <=> shares[s].used = shares[s].quota
  BY ControlPlaneAssumption DEF TypeOK, ShareRow, UnusedIsUncharged, ExhaustedIffUsedUp
<1>1. ASSUME NEW t \in Shares, NEW owner \in Users, NEW receiver \in Users,
             NEW quota \in Quotas, NEW life \in 1..MaxLife,
             CreateShare(t, owner, receiver, quota, life)
      PROVE  Charged(s)
  BY <1>0, <1>1, ControlPlaneAssumption DEF CreateShare, TypeOK
<1>2. ASSUME NEW t \in Shares, StopShare(t)
      PROVE  Charged(s)
  BY <1>0, <1>2 DEF StopShare, TypeOK, ShareRow
<1>3. ASSUME NEW x \in Sessions, NEW total \in 0..MaxTotal, ReportTraffic(x, total)
      PROVE  Charged(s)
  <2> DEFINE t == sessions[x].share
             delta == IF total >= sessions[x].total THEN total - sessions[x].total ELSE total
             newUsed == shares[t].used + delta
             full == newUsed >= shares[t].quota
  <2>1. t \in Shares
    BY <1>3 DEF ReportTraffic, SessionJoinsParties
  <2>2. delta \in Nat
    BY ControlPlaneAssumption DEF TypeOK, SessionRow
  <2>3. /\ s # t => shares'[s] = shares[s]
        /\ shares'[t].quota = shares[t].quota
        /\ shares'[t].used = IF full THEN shares[t].quota ELSE newUsed
        /\ shares'[t].status = IF full THEN "exhausted" ELSE "active"
    BY <1>3, <2>1 DEF ReportTraffic, Charge, Exhausts, TypeOK, ShareRow
  <2>4. CASE s = t
    <3> HIDE DEF delta
    <3> QED BY <1>0, <2>2, <2>3, <2>4
  <2>5. CASE s # t
    BY <1>0, <2>3, <2>5
  <2> QED BY <2>4, <2>5
<1>4. CASE SweepShares
  BY <1>0, <1>4 DEF SweepShares, TypeOK, ShareRow
<1>5. CASE Tick
  BY <1>0, <1>5 DEF Tick, TypeOK, ShareRow
<1>6. CASE UNCHANGED shares
  BY <1>0, <1>6
<1> QED
  BY <1>1, <1>2, <1>3, <1>4, <1>5, <1>6
  DEF Next, DeviceNext, ShareNext, SessionNext, RegisterDevice, Heartbeat, HeartbeatSessions,
      StopShareSessions, CreateSession, DisconnectSession, RevokeSession,
      SweepDevices, SweepSessions, LoseStatement, Restart, vars

LEMMA LiveStep ==
  ASSUME TypeOK, OneLiveSessionPerConsumer, UniqueLiveAddress, [Next]_vars
  PROVE  OneLiveSessionPerConsumer' /\ UniqueLiveAddress'
<1>1. CASE ~ Creates
  <2>1. \A x \in Sessions : Unchanged(x) /\ (Live(x)' => Live(x))
    BY <1>1, StepOnSessions DEF StatusKept, Live
  <2> QED BY <2>1 DEF OneLiveSessionPerConsumer, UniqueLiveAddress, Unchanged
<1>2. ASSUME NEW x \in Sessions, NEW s \in Shares, NEW c \in Devices, CreateSession(x, s, c)
      PROVE  OneLiveSessionPerConsumer' /\ UniqueLiveAddress'
  <2>1. PICK p \in Devices :
          LET host == Allocate(HostsInUse(p)) IN
          /\ host # NoAddress
          /\ sessions'[x] = [status |-> "active", share |-> s, provider |-> p,
                             consumer |-> c, host |-> host, age |-> 0, total |-> 0]
          /\ \A y \in Sessions \ {x} : sessions'[y] = sessions[y]
    BY <1>2, EffectOfCreate
  <2> DEFINE host == Allocate(HostsInUse(p))
  <2>2. host \in Usable \ {ProviderHost} /\ host \notin HostsInUse(p)
    BY <2>1, AllocateIsSound, PoolAssumption
  <2>3. \A y \in Sessions \ {x} :
          /\ Live(y)' <=> Live(y)
          /\ Live(y) => sessions[y].consumer # c
          /\ Live(y) /\ sessions[y].provider = p => sessions[y].host # host
    BY <1>2, <2>1, <2>2 DEF CreateSession, Admissible, HostsInUse, LiveSessionsOf, Live
  <2> HIDE DEF host
  <2>4. OneLiveSessionPerConsumer'
    BY <2>1, <2>3 DEF OneLiveSessionPerConsumer
  <2>5. /\ sessions'[x].provider = p
        /\ sessions'[x].host = host
    BY <2>1 DEF host
  <2>6. UniqueLiveAddress'
    BY <2>1, <2>2, <2>3, <2>5 DEF UniqueLiveAddress
  <2> QED BY <2>4, <2>6
<1> QED BY <1>1, <1>2 DEF Creates

LEMMA InvStep == IInv /\ [Next]_vars => IInv'
BY TypingStep, JoinsStep, PartiesStep, ChargeStep, LiveStep DEF IInv

LEMMA Invariance == Spec => []IInv
<1>1. Init => IInv
  BY InvInit
<1>2. IInv /\ [Next]_vars => IInv'
  BY InvStep
<1> QED BY <1>1, <1>2, PTL DEF Spec

-----------------------------------------------------------------------------
(* Theorems *)

\* Every row keeps the columns and the CHECKed values of the schema: a charge
\* stays within the quota and every session has an address of the pool.
THEOREM Typing == Spec => []TypeOK
BY Invariance, PTL DEF IInv

\* The unique index on live consumers is never violated, however handlers,
\* sweeps, failures and restarts interleave.
THEOREM OneLiveSession == Spec => []OneLiveSessionPerConsumer
BY Invariance, PTL DEF IInv

\* Nor is the one on the tunnel addresses of a provider.
THEOREM DistinctAddresses == Spec => []UniqueLiveAddress
BY Invariance, PTL DEF IInv

\* A session joins the share's owner to its receiver.
THEOREM SessionsJoinParties == Spec => []SessionJoinsParties
BY Invariance, PTL DEF IInv

\* The exhausted mark and the charge agree.
THEOREM ExhaustionIsExact == Spec => []ExhaustedIffUsedUp
BY Invariance, PTL DEF IInv

\* Charges only grow and exhaustion is final.
THEOREM ChargesAreFinal == Spec => ChargeIsFinal
<1>1. IInv /\ [Next]_vars =>
        [\A s \in Shares :
           /\ shares'[s].used >= shares[s].used
           /\ shares[s].status = "exhausted" => shares'[s].status = "exhausted"]_vars
  BY ChargeStep DEF IInv
<1> QED BY <1>1, Invariance, PTL DEF Spec, ChargeIsFinal

-----------------------------------------------------------------------------
(* What is charged covers what was reported *)

\* The reported units of a session that has not started belong to no share.
UnusedHasNoShare == \A x \in Sessions : sessions[x].status = "unused" => sessions[x].share = None

\* Finitely many sessions have reported anything, also if ids never run out.
ReportsAreFinite == \A s \in Shares : IsFiniteSet(Reported(s))

CoverInv == UnusedHasNoShare /\ ReportsAreFinite /\ ChargeCoversReports

LEMMA ReportedUnits ==
  ASSUME NEW s, NEW u
  PROVE  /\ u \in Reported(s) <=> \E x \in Sessions :
              sessions[x].share = s /\ \E k \in 1..sessions[x].total : u = <<x, k>>
         /\ u \in Reported(s)' <=> \E x \in Sessions :
              sessions'[x].share = s /\ \E k \in 1..sessions'[x].total : u = <<x, k>>
<1>1. \A x, S : u \in {x} \X S <=> \E k \in S : u = <<x, k>>
  OBVIOUS
<1> QED
  BY <1>1 DEF Reported

\* The units of a share whose sessions report no higher totals.
LEMMA UnitsShrink ==
  ASSUME NEW s,
         \A x \in Sessions : sessions'[x].share = s =>
           \/ 1..sessions'[x].total = {}
           \/ sessions[x].share = s /\ 1..sessions'[x].total \subseteq 1..sessions[x].total
  PROVE  Reported(s)' \subseteq Reported(s)
<1> SUFFICES ASSUME NEW u \in Reported(s)' PROVE u \in Reported(s)
  OBVIOUS
<1>1. PICK x \in Sessions :
        sessions'[x].share = s /\ \E k \in 1..sessions'[x].total : u = <<x, k>>
  BY ReportedUnits
<1>2. PICK k \in 1..sessions'[x].total : u = <<x, k>>
  BY <1>1
<1>3. sessions[x].share = s /\ k \in 1..sessions[x].total
  BY <1>1, <1>2
<1> QED
  BY <1>2, <1>3, ReportedUnits

\* A step reports nothing on a session unless it is a report on that session.
LEMMA StepOnTotals ==
  ASSUME TypeOK, [Next]_vars, ~ Creates, NEW x \in Sessions,
         \A total \in 0..MaxTotal : ~ ReportTraffic(x, total)
  PROVE  sessions'[x].total = sessions[x].total
<1> USE DEF TypeOK, SessionRow
<1>1. ASSUME NEW d \in Devices, HeartbeatSessions(d)
      PROVE  sessions'[x].total = sessions[x].total
  BY <1>1 DEF HeartbeatSessions
<1>2. ASSUME NEW s \in Shares, StopShareSessions(s)
      PROVE  sessions'[x].total = sessions[x].total
  BY <1>2 DEF StopShareSessions
<1>3. ASSUME NEW y \in Sessions, DisconnectSession(y) \/ RevokeSession(y)
      PROVE  sessions'[x].total = sessions[x].total
  BY <1>3 DEF DisconnectSession, RevokeSession
<1>4. ASSUME NEW y \in Sessions \ {x}, NEW total \in 0..MaxTotal, ReportTraffic(y, total)
      PROVE  sessions'[x].total = sessions[x].total
  BY <1>4 DEF ReportTraffic
<1>5. CASE SweepSessions
  BY <1>5 DEF SweepSessions
<1>6. CASE Tick
  BY <1>6 DEF Tick
<1>7. CASE UNCHANGED sessions
  BY <1>7
<1> QED
  BY <1>1, <1>2, <1>3, <1>4, <1>5, <1>6, <1>7
  DEF Next, DeviceNext, ShareNext, SessionNext, RegisterDevice, Heartbeat, Creates,
      CreateShare, StopShare, SweepDevices, SweepShares, LoseStatement, Restart, vars

\* Reports that only shrink, on a share whose charge only grows.
LEMMA CoverStays ==
  ASSUME IInv, IInv', CoverInv, [Next]_vars, NEW s \in Shares, Reported(s)' \subseteq Reported(s)
  PROVE  /\ IsFiniteSet(Reported(s)')
         /\ \/ Cardinality(Reported(s)') <= shares'[s].used
            \/ shares'[s].used = shares'[s].quota
<1>1. /\ IsFiniteSet(Reported(s)') /\ Cardinality(Reported(s)') \in Nat
      /\ IsFiniteSet(Reported(s)) /\ Cardinality(Reported(s)) \in Nat
      /\ Cardinality(Reported(s)') <= Cardinality(Reported(s))
  BY FS_Subset, FS_CardinalityType DEF CoverInv, ReportsAreFinite
<1>2. shares'[s].used >= shares[s].used
  BY ChargeStep DEF IInv
<1>3. /\ shares[s].used \in Nat /\ shares'[s].used \in Nat
      /\ shares[s].quota \in Nat /\ shares'[s].quota \in Nat
  BY ControlPlaneAssumption DEF IInv, TypeOK, ShareRow
<1>4. CASE Cardinality(Reported(s)) <= shares[s].used
  BY <1>1, <1>2, <1>3, <1>4
<1>5. CASE shares[s].used = shares[s].quota
  <2>1. CASE ShareKept(s) /\ shares[s].status # "unused"
    <3>1. shares'[s].used <= shares'[s].quota /\ shares'[s].quota = shares[s].quota
      BY <2>1 DEF ShareKept, IInv, ExhaustedIffUsedUp
    <3> QED
      BY <1>1, <1>2, <1>3, <1>5, <3>1
  <2>2. CASE shares[s].status = "unused"
    <3>1. Reported(s) = {}
      <4> SUFFICES ASSUME NEW x \in Sessions, sessions[x].share = s PROVE FALSE
        BY DEF Reported
      <4>1. sessions[x].status # "unused"
        BY ControlPlaneAssumption DEF CoverInv, UnusedHasNoShare
      <4> QED
        BY <2>2, <4>1 DEF IInv, SessionJoinsParties
    <3> QED
      BY <1>1, <1>3, <3>1, FS_EmptySet
  <2> QED
    BY <2>1, <2>2, StepOnShares DEF IInv, ShareKept
<1> QED
  BY <1>4, <1>5 DEF CoverInv, ChargeCoversReports

\* A report on session x: a total that goes on adds the difference to the units
\* and to the charge; one below the last takes units away.
LEMMA CoverReport ==
  ASSUME IInv, IInv', CoverInv, NEW x \in Sessions, NEW total \in 0..MaxTotal,
         ReportTraffic(x, total), [Next]_vars
  PROVE  CoverInv'
<1>0. PICK t \in Shares, last \in Nat : t = sessions[x].share /\ last = sessions[x].total
  <2>1. sessions[x].share \in Shares
    BY DEF ReportTraffic, IInv, SessionJoinsParties
  <2>2. sessions[x].total \in Nat
    BY ControlPlaneAssumption DEF IInv, TypeOK, SessionRow
  <2> QED
    BY <2>1, <2>2
<1> DEFINE newUsed == shares[t].used + (IF total >= last THEN total - last ELSE total)
           full == newUsed >= shares[t].quota
<1>1. total \in Nat /\ shares[t].used \in Nat /\ shares[t].quota \in Nat
  BY ControlPlaneAssumption DEF IInv, TypeOK, ShareRow
<1>2. /\ \A y \in Sessions \ {x} : sessions'[y] = sessions[y]
      /\ sessions'[x].share = t /\ sessions'[x].total = total
      /\ sessions[x].status # "unused" /\ sessions'[x].status # "unused"
  BY <1>0 DEF ReportTraffic, IInv, TypeOK, SessionRow
<1>3. /\ shares'[t].quota = shares[t].quota
      /\ shares'[t].used = IF full THEN shares[t].quota ELSE newUsed
  BY <1>0, <1>1 DEF ReportTraffic, Charge, Exhausts, IInv, TypeOK, ShareRow
<1>4. UnusedHasNoShare'
  BY <1>2 DEF CoverInv, UnusedHasNoShare
<1> HIDE DEF newUsed, full
<1>5. \A s \in Shares \ {t} : Reported(s)' \subseteq Reported(s)
  BY <1>2, UnitsShrink
<1>6. /\ IsFiniteSet(Reported(t)')
      /\ \/ Cardinality(Reported(t)') <= shares'[t].used
         \/ shares'[t].used = shares'[t].quota
  <2>1. CASE total < last
    <3>1. 1..total \subseteq 1..last
      BY <1>1, <2>1
    <3>2. Reported(t)' \subseteq Reported(t)
      BY <1>0, <1>2, <3>1, UnitsShrink
    <3> QED
      BY <1>1, <3>2, CoverStays
  <2>2. CASE total >= last
    <3> DEFINE more == {x} \X ((last + 1)..total)
    <3>1. IsFiniteSet(more) /\ Cardinality(more) = total - last
      <4>1. IsFiniteSet((last + 1)..total) /\ Cardinality((last + 1)..total) = total - last
        <5>1. last + 1 \in Int /\ total \in Int
          BY <1>1
        <5>2. /\ IsFiniteSet((last + 1)..total)
              /\ Cardinality((last + 1)..total) = IF last + 1 > total THEN 0 ELSE total - (last + 1) + 1
          BY <5>1, FS_Interval
        <5> QED
          BY <1>1, <2>2, <5>2
      <4>2. IsFiniteSet({x}) /\ Cardinality({x}) = 1
        BY FS_Singleton
      <4>3. IsFiniteSet(more) /\ Cardinality(more) = 1 * (total - last)
        BY <4>1, <4>2, FS_Product
      <4> QED
        BY <1>1, <4>3
    <3>2. Reported(t)' \subseteq Reported(t) \cup more
      <4>1. 1..total \subseteq (1..last) \cup ((last + 1)..total)
        BY <1>1
      <4> SUFFICES ASSUME NEW u \in Reported(t)' PROVE u \in Reported(t) \cup more
        OBVIOUS
      <4>2. PICK y \in Sessions :
              sessions'[y].share = t /\ \E k \in 1..sessions'[y].total : u = <<y, k>>
        BY ReportedUnits
      <4>3. CASE y # x
        BY <1>2, <4>2, <4>3, ReportedUnits
      <4>4. CASE y = x
        <5>1. PICK k \in 1..total : u = <<x, k>>
          BY <1>2, <4>2, <4>4
        <5>2. CASE k \in 1..last
          BY <1>0, <5>1, <5>2, ReportedUnits
        <5>3. CASE k \in (last + 1)..total
          BY <5>1, <5>3
        <5> QED
          BY <4>1, <5>1, <5>2, <5>3
      <4> QED
        BY <4>3, <4>4
    <3> HIDE DEF more
    <3>3. IsFiniteSet(Reported(t)) /\ Cardinality(Reported(t)) \in Nat
      BY <1>1, FS_CardinalityType DEF CoverInv, ReportsAreFinite
    <3>4. /\ IsFiniteSet(Reported(t) \cup more)
          /\ Cardinality(Reported(t) \cup more) <= Cardinality(Reported(t)) + (total - last)
      <4>1. Cardinality(Reported(t) \cap more) \in Nat
        BY <3>1, FS_Intersection, FS_CardinalityType
      <4>2. /\ IsFiniteSet(Reported(t) \cup more)
            /\ Cardinality(Reported(t) \cup more)
                 = Cardinality(Reported(t)) + Cardinality(more) - Cardinality(Reported(t) \cap more)
        BY <3>1, <3>3, FS_Union
      <4> QED
        BY <1>1, <2>2, <3>1, <3>3, <4>1, <4>2
    <3>5. IsFiniteSet(Reported(t)') /\ Cardinality(Reported(t)') \in Nat
          /\ Cardinality(Reported(t)') <= Cardinality(Reported(t) \cup more)
      BY <3>2, <3>4, FS_Subset, FS_CardinalityType
    <3>6. Cardinality(Reported(t) \cup more) \in Nat
      BY <3>4, FS_CardinalityType
    <3>7. Cardinality(Reported(t)) <= shares[t].used \/ shares[t].used = shares[t].quota
      BY <1>1 DEF CoverInv, ChargeCoversReports
    <3> QED
      BY <1>1, <1>3, <2>2, <3>3, <3>4, <3>5, <3>6, <3>7 DEF newUsed, full
  <2> QED
    BY <1>1, <2>1, <2>2
<1>7. ASSUME NEW s \in Shares
      PROVE  /\ IsFiniteSet(Reported(s)')
             /\ \/ Cardinality(Reported(s)') <= shares'[s].used
                \/ shares'[s].used = shares'[s].quota
  BY <1>5, <1>6, CoverStays
<1> QED
  BY <1>4, <1>7 DEF CoverInv, ReportsAreFinite, ChargeCoversReports

LEMMA CoverStep ==
  ASSUME IInv, IInv', CoverInv, [Next]_vars
  PROVE  CoverInv'
<1>1. ASSUME NEW x \in Sessions, NEW total \in 0..MaxTotal, ReportTraffic(x, total)
      PROVE  CoverInv'
  BY <1>1, CoverReport
<1>2. ASSUME NEW x \in Sessions, NEW s \in Shares, NEW c \in Devices, CreateSession(x, s, c)
      PROVE  CoverInv'
  <2>1. /\ sessions'[x].status = "active" /\ sessions'[x].total = 0
        /\ \A y \in Sessions \ {x} : sessions'[y] = sessions[y]
    <3>1. PICK p \in Devices :
            LET host == Allocate(HostsInUse(p)) IN
            /\ sessions'[x] = [status |-> "active", share |-> s, provider |-> p,
                               consumer |-> c, host |-> host, age |-> 0, total |-> 0]
            /\ \A y \in Sessions \ {x} : sessions'[y] = sessions[y]
      BY <1>2, EffectOfCreate DEF IInv
    <3> QED
      BY <3>1
  <2>2. UnusedHasNoShare'
    BY <2>1 DEF CoverInv, UnusedHasNoShare
  <2>3. \A t \in Shares : Reported(t)' \subseteq Reported(t)
    BY <2>1, UnitsShrink
  <2> QED
    BY <2>2, <2>3, CoverStays DEF CoverInv, ReportsAreFinite, ChargeCoversReports
<1>3. CASE ~ Creates /\ \A x \in Sessions, total \in 0..MaxTotal : ~ ReportTraffic(x, total)
  <2>1. \A x \in Sessions :
          /\ sessions'[x].share = sessions[x].share
          /\ sessions'[x].total = sessions[x].total
          /\ sessions'[x].status = "unused" => sessions[x].status = "unused"
    <3> TAKE x \in Sessions
    <3>1. sessions'[x].total = sessions[x].total
      BY <1>3, StepOnTotals DEF IInv
    <3>2. Unchanged(x) /\ StatusKept(x)
      BY <1>3, StepOnSessions DEF IInv
    <3> QED
      BY <3>1, <3>2 DEF Unchanged, StatusKept, Closable
  <2>2. UnusedHasNoShare'
    BY <2>1 DEF CoverInv, UnusedHasNoShare
  <2>3. \A t \in Shares : Reported(t)' \subseteq Reported(t)
    BY <2>1, UnitsShrink
  <2> QED
    BY <2>2, <2>3, CoverStays DEF CoverInv, ReportsAreFinite, ChargeCoversReports
<1> QED
  BY <1>1, <1>2, <1>3 DEF Creates

LEMMA CoverInit == Init => CoverInv
<1> SUFFICES ASSUME Init PROVE CoverInv
  OBVIOUS
<1>1. \A x \in Sessions : sessions[x].status = "unused" /\ sessions[x].share = None
  BY DEF Init
<1>2. ASSUME NEW s \in Shares PROVE Reported(s) = {}
  <2>1. \A x \in Sessions : sessions[x].share # s
    BY <1>1, ControlPlaneAssumption
  <2> QED
    BY <2>1, ReportedUnits
<1>3. \A s \in Shares : shares[s].used = 0
  BY DEF Init
<1>4. \A s \in Shares : IsFiniteSet(Reported(s)) /\ Cardinality(Reported(s)) <= shares[s].used
  BY <1>2, <1>3, FS_EmptySet
<1> QED
  BY <1>1, <1>4
     DEF CoverInv, UnusedHasNoShare, ReportsAreFinite, ChargeCoversReports

\* A share is charged for all that its sessions reported, up to its quota: no
\* order of reports, restarts of counters, stops and sweeps loses a charge.
THEOREM ChargesCoverReports == Spec => []ChargeCoversReports
<1>1. Init => CoverInv
  BY CoverInit
<1>2. IInv /\ IInv' /\ CoverInv /\ [Next]_vars => CoverInv'
  BY CoverStep
<1>3. CoverInv => ChargeCoversReports
  BY DEF CoverInv
<1> QED
  BY <1>1, <1>2, <1>3, Invariance, PTL DEF Spec

-----------------------------------------------------------------------------
(* The lifecycle *)

LEMMA LifecycleInit == Init => Lifecycle!Init
BY DEF Init, Lifecycle!Init

\* A step writes only statuses that the lifecycle lets follow.
LEMMA LifecycleStep ==
  IInv /\ [Next]_vars => [Lifecycle!Next]_([x \in Sessions |-> sessions[x].status])
<1> SUFFICES ASSUME IInv, [Next]_vars
             PROVE  Lifecycle!Next
  OBVIOUS
<1>1. ASSUME NEW x \in Sessions
      PROVE  \/ sessions'[x].status = sessions[x].status
             \/ Lifecycle!Opens(sessions[x].status, sessions'[x].status)
             \/ Lifecycle!Follows(sessions[x].status, sessions'[x].status)
  <2>1. CASE ~ Creates
    <3>1. StatusKept(x)
      BY <2>1, StepOnSessions DEF IInv
    <3> QED
      BY <3>1 DEF StatusKept, Closable, Lifecycle!Follows, Lifecycle!Allowed, Lifecycle!Transitions
  <2>2. ASSUME NEW y \in Sessions, NEW s \in Shares, NEW c \in Devices, CreateSession(y, s, c)
        PROVE  \/ sessions'[x].status = sessions[x].status
               \/ Lifecycle!Opens(sessions[x].status, sessions'[x].status)
    BY <2>2, EffectOfCreate DEF IInv, CreateSession, Lifecycle!Opens
  <2> QED BY <2>1, <2>2 DEF Creates
<1> QED BY <1>1 DEF Lifecycle!Next

\* The writes of the server implement the lifecycle of internal/session.
THEOREM ImplementsLifecycle == Spec => FollowsLifecycle
BY LifecycleInit, LifecycleStep, Invariance, PTL DEF Spec, FollowsLifecycle, Lifecycle!Spec

-----------------------------------------------------------------------------
(* Each provider's sessions lease addresses from its pool *)

\* The initial tables lease no address.
LEMMA LeasesInit == ASSUME Init, NEW p \in Devices PROVE Leases(p)!Init
BY DEF Init, Leases!Init, LiveSessionsOf, Live

\* Both modules are about the same pool.
LEMMA SameScan ==
  ASSUME NEW p, NEW taken
  PROVE  Leases(p)!Allocate(taken) = Allocate(taken) /\ Leases(p)!NoAddress = NoAddress
BY DEF Allocate, FreeOffsets, Candidate, Start, Usable, NoAddress, Leases!Allocate,
       Leases!FreeOffsets, Leases!Candidate, Leases!Start, Leases!Usable, Leases!NoAddress

\* What a provider's pool has leased is what allocateTunnelIP finds in use.
LeasedFrom(p) == {sessions[x].host : x \in LiveSessionsOf(p)}

\* The pool of a provider moves with its sessions: nothing happens to it, some
\* addresses come back, or the scan's is taken.
LEMMA PoolMoves ==
  ASSUME NEW p
  PROVE  /\ LeasedFrom(p)' \subseteq LeasedFrom(p) => Leases(p)!Next
         /\ Allocate(LeasedFrom(p)) # NoAddress
            /\ LeasedFrom(p)' = LeasedFrom(p) \cup {Allocate(LeasedFrom(p))} => Leases(p)!Lease
<1>1. ASSUME LeasedFrom(p)' \subseteq LeasedFrom(p) PROVE Leases(p)!Next
  <2> DEFINE ended == LeasedFrom(p) \ LeasedFrom(p)'
  <2>1. ended \in SUBSET LeasedFrom(p) /\ LeasedFrom(p)' = LeasedFrom(p) \ ended
    BY <1>1
  <2> HIDE DEF ended
  <2> QED
    BY <2>1 DEF Leases!Next, Leases!Release, LeasedFrom
<1>2. Leases(p)!Allocate(LeasedFrom(p)) = Allocate(LeasedFrom(p)) /\ Leases(p)!NoAddress = NoAddress
  BY SameScan
<1> QED
  BY <1>1, <1>2 DEF Leases!Lease, LeasedFrom

\* A new session leases the address that the scan finds and changes nothing for
\* other sessions and providers.
LEMMA LeaseOfCreate ==
  ASSUME TypeOK, NEW x \in Sessions, NEW s \in Shares, NEW c \in Devices, CreateSession(x, s, c)
  PROVE  \E q \in Devices :
           /\ ~ Live(x) /\ Held(x)' = {<<q, sessions'[x].host>>}
           /\ \A y \in Sessions \ {x} : Held(y)' = Held(y)
           /\ Leases(q)!Lease
           /\ \A p \in Devices \ {q} : LeasedFrom(p)' = LeasedFrom(p)
<1>1. PICK q \in Devices :
        LET host == Allocate(HostsInUse(q)) IN
        /\ host # NoAddress
        /\ sessions'[x] = [status |-> "active", share |-> s, provider |-> q,
                           consumer |-> c, host |-> host, age |-> 0, total |-> 0]
        /\ \A y \in Sessions \ {x} : sessions'[y] = sessions[y]
  BY EffectOfCreate
<1>2. ~ Live(x) /\ Live(x)' /\ \A y \in Sessions \ {x} : Live(y)' <=> Live(y)
  BY <1>1 DEF CreateSession, Live
<1>3. Held(x)' = {<<q, sessions'[x].host>>} /\ \A y \in Sessions \ {x} : Held(y)' = Held(y)
  BY <1>1, <1>2 DEF Held
<1>4. Leases(q)!Lease
  <2> DEFINE host == Allocate(LeasedFrom(q))
  <2>1. sessions'[x].provider = q /\ sessions'[x].host = host /\ host # NoAddress
    BY <1>1 DEF HostsInUse, LeasedFrom
  <2> HIDE DEF host
  <2>2. LeasedFrom(q)' = LeasedFrom(q) \cup {host}
    BY <1>1, <1>2, <2>1 DEF LeasedFrom, LiveSessionsOf
  <2> QED
    BY <2>1, <2>2, PoolMoves DEF host
<1>5. ASSUME NEW p \in Devices \ {q} PROVE LeasedFrom(p)' = LeasedFrom(p)
  <2>1. sessions'[x].provider # p
    BY <1>1
  <2> QED
    BY <1>1, <1>2, <2>1 DEF LeasedFrom, LiveSessionsOf
<1> QED
  BY <1>2, <1>3, <1>4, <1>5

\* Statements other than the INSERT end sessions, if anything.
LEMMA OthersRelease ==
  ASSUME TypeOK, [Next]_vars, ~ Creates
  PROVE  /\ \A x \in Sessions : Held(x)' \subseteq Held(x)
         /\ \A p \in Devices : LeasedFrom(p)' \subseteq LeasedFrom(p)
<1>1. \A x \in Sessions : Unchanged(x) /\ (Live(x)' => Live(x))
  BY StepOnSessions DEF StatusKept, Live
<1> QED
  BY <1>1 DEF Unchanged, Held, LeasedFrom, LiveSessionsOf

\* Every step is one of every provider's pool.
LEMMA LeasesStep ==
  ASSUME TypeOK, [Next]_vars, NEW p \in Devices
  PROVE  Leases(p)!Next
<1>1. CASE ~ Creates
  BY <1>1, OthersRelease, PoolMoves
<1>2. ASSUME NEW x \in Sessions, NEW s \in Shares, NEW c \in Devices, CreateSession(x, s, c)
      PROVE  Leases(p)!Next
  <2>1. Leases(p)!Lease \/ LeasedFrom(p)' = LeasedFrom(p)
    BY <1>2, LeaseOfCreate
  <2> QED
    BY <2>1, PoolMoves DEF Leases!Next
<1> QED
  BY <1>1, <1>2 DEF Creates

\* A session keeps its address, leases one, or gives it back.
HoldsByLease(x) ==
  \/ Held(x)' = Held(x)
  \/ Held(x) = {} /\ \A l \in Held(x)' : Leases(l[1])!Lease
  \/ Held(x)' = {} /\ \A l \in Held(x) : Leases(l[1])!Next

LEMMA HeldStep ==
  ASSUME TypeOK, SessionJoinsParties, [Next]_vars, NEW x \in Sessions
  PROVE  HoldsByLease(x)
<1>1. ASSUME NEW l \in Held(x) PROVE l[1] \in Devices
  BY DEF Held, Live, SessionJoinsParties
<1>2. CASE ~ Creates
  <2>1. Held(x)' \subseteq Held(x)
    BY <1>2, OthersRelease
  <2>2. Held(x)' = {} \/ Held(x)' = Held(x)
    BY <2>1 DEF Held
  <2> QED
    BY <1>1, <2>2, LeasesStep DEF HoldsByLease
<1>3. ASSUME NEW y \in Sessions, NEW s \in Shares, NEW c \in Devices, CreateSession(y, s, c)
      PROVE  HoldsByLease(x)
  <2>1. PICK q \in Devices :
          /\ ~ Live(y) /\ Held(y)' = {<<q, sessions'[y].host>>}
          /\ \A z \in Sessions \ {y} : Held(z)' = Held(z)
          /\ Leases(q)!Lease
    BY <1>3, LeaseOfCreate
  <2>2. CASE x = y
    <3>1. Held(x) = {}
      BY <2>1, <2>2 DEF Held
    <3>2. \A l \in Held(x)' : l[1] = q
      BY <2>1, <2>2
    <3> QED
      BY <2>1, <3>1, <3>2 DEF HoldsByLease
  <2>3. CASE x # y
    BY <2>1, <2>3 DEF HoldsByLease
  <2> QED
    BY <2>2, <2>3
<1> QED
  BY <1>2, <1>3 DEF Creates

\* Whatever handlers, sweeps and reports do to the tables, the live sessions of
\* every provider implement the address pool: what holds of AddressLeases for every
\* pool holds of the addresses of every provider.
THEOREM ImplementsLeases == Spec => ProvidersLeaseAddresses
<1>1. Init => \A p \in Devices : Leases(p)!Init
  BY LeasesInit
<1>2. IInv /\ [Next]_vars => [\A x \in Sessions : HoldsByLease(x)]_vars
  BY HeldStep DEF IInv
<1> QED
  BY <1>1, <1>2, Invariance, PTL DEF Spec, ProvidersLeaseAddresses, HoldsByLease

\* The same, for one provider and as the specification of its pool.
THEOREM ProviderLeases == ASSUME NEW p \in Devices PROVE Spec => Leases(p)!Spec
<1>1. Init => Leases(p)!Init
  BY LeasesInit
<1>2. TypeOK /\ [Next]_vars => [Leases(p)!Next]_(LeasedFrom(p))
  BY LeasesStep
<1> QED
  BY <1>1, <1>2, Typing, PTL DEF Spec, Leases!Spec, LeasedFrom

=============================================================================
