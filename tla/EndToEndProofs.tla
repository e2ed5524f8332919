--------------------------- MODULE EndToEndProofs ---------------------------
(***************************************************************************)
(* What ControlPlaneProofs shows of the server holds of the server among   *)
(* its agents: they only send it the requests of ControlPlane.             *)
(***************************************************************************)
EXTENDS EndToEnd, ControlPlaneProofs

\* A failure on a computer, which the server does not notice.
AgentFails ==
  /\ faults < MaxFaults /\ faults' = faults + 1
  /\ UNCHANGED <<devices, shares, sessions, pending, sweep>>

-----------------------------------------------------------------------------
(* Each step of an agent is a step of the server, a failure, or neither *)

LEMMA ConsumerRequests ==
  ASSUME NEW d \in Devices,
         \/ \E x \in Sessions, s \in Shares : Connect(d, x, s)
         \/ SetUp(d) \/ SetUpFails(d)
         \/ \E x \in Sessions : UserDisconnects(d, x)
         \/ NoAnswer(d) \/ ConsumerRestarts(d),
         job[d] \in Sessions \cup {None}
  PROVE  [Next]_vars \/ AgentFails
<1>1. (\E x \in Sessions : DisconnectSession(x)) => Next
  BY DEF Next, SessionNext
<1>2. ASSUME NEW x \in Sessions, NEW s \in Shares, Connect(d, x, s) PROVE Next
  BY <1>2 DEF Connect, Next, SessionNext
<1>3. CASE SetUp(d)
  BY <1>3 DEF SetUp
<1>4. CASE SetUpFails(d)
  BY <1>1, <1>4 DEF SetUpFails, NoRequest
<1>5. ASSUME NEW x \in Sessions, UserDisconnects(d, x) PROVE [Next]_vars
  BY <1>1, <1>5 DEF UserDisconnects, NoRequest
<1>6. CASE NoAnswer(d) \/ ConsumerRestarts(d)
  BY <1>6 DEF NoAnswer, ConsumerRestarts, AgentFails
<1> QED
  BY <1>2, <1>3, <1>4, <1>5, <1>6

LEMMA MonitorRequests ==
  ASSUME NEW d \in Devices, MonitorStep(d)
  PROVE  [Next]_vars \/ AgentFails
<1>1. ASSUME NEW x \in Sessions, NEW total \in 0..MaxTotal,
             DisconnectSession(x) \/ RevokeSession(x) \/ ReportTraffic(x, total)
      PROVE  Next
  BY <1>1 DEF Next, SessionNext
<1>2. CASE SendHeartbeat(d)
  BY <1>2 DEF SendHeartbeat, Next, DeviceNext
<1>3. CASE ReadOrders(d) \/ ListSessions(d) \/ VisitsDone(d)
  BY <1>3 DEF ReadOrders, ListSessions, VisitsDone
<1>4. CASE Obey(d)
  BY <1>4 DEF Obey, AgentFails, vars
<1>5. CASE Watch(d)
  BY <1>5 DEF Watch, NoRequest, Incomplete, Next, SessionNext
<1>6. CASE Visit(d)
  BY <1>1, <1>6 DEF Visit, NoRequest, Next, SessionNext
<1> QED
  BY <1>2, <1>3, <1>4, <1>5, <1>6 DEF MonitorStep

LEMMA ServerRequests ==
  ASSUME ServerStep
  PROVE  Next
BY DEF ServerStep, Next, DeviceNext, ShareNext, SessionNext

-----------------------------------------------------------------------------
(* The server's invariant *)

\* Connect sets up a session.
Jobs == job \in [Devices -> Sessions \cup {None}]

LEMMA EStep ==
  ASSUME Jobs, [ENext]_allvars
  PROVE  Jobs' /\ ([Next]_vars \/ AgentFails)
<1>1. CASE ServerStep
  BY <1>1, ServerRequests DEF ServerStep, Jobs, agents
<1>2. CASE UNCHANGED allvars
  BY <1>2 DEF allvars, agents, Jobs
<1>3. ASSUME NEW d \in Devices,
             \/ \E x \in Sessions, s \in Shares : Connect(d, x, s)
             \/ SetUp(d) \/ SetUpFails(d)
             \/ \E x \in Sessions : UserDisconnects(d, x)
             \/ NoAnswer(d) \/ ConsumerRestarts(d)
      PROVE  Jobs' /\ ([Next]_vars \/ AgentFails)
  <2>1. job[d] \in Sessions \cup {None}
    BY DEF Jobs
  <2>2. Jobs'
    BY <1>3 DEF Connect, SetUp, SetUpFails, UserDisconnects, NoAnswer, ConsumerRestarts, Jobs
  <2> QED
    BY <1>3, <2>1, <2>2, ConsumerRequests
<1>4. ASSUME NEW d \in Devices, MonitorStep(d)
      PROVE  Jobs' /\ ([Next]_vars \/ AgentFails)
  <2>1. UNCHANGED job
    BY <1>4 DEF MonitorStep, SendHeartbeat, ReadOrders, Obey, Watch, ListSessions, Visit, VisitsDone
  <2> QED
    BY <1>4, <2>1, MonitorRequests DEF Jobs
<1> QED
  BY <1>1, <1>2, <1>3, <1>4 DEF ENext

\* The tables do not notice a failure on a computer.
LEMMA FailureKeeps == IInv /\ AgentFails => IInv'
<1> SUFFICES ASSUME IInv, AgentFails PROVE IInv'
  OBVIOUS
<1>1. TypeOK'
  BY ControlPlaneAssumption DEF IInv, TypeOK, AgentFails, Statements, DeviceRow, ShareRow, SessionRow
<1>2. UNCHANGED <<devices, shares, sessions>>
  BY DEF AgentFails
<1> QED
  BY <1>1, <1>2
     DEF IInv, DistinctParties, SessionJoinsParties, UnusedIsUncharged, ExhaustedIffUsedUp,
         OneLiveSessionPerConsumer, UniqueLiveAddress, Live

LEMMA FailureKeepsCover == CoverInv /\ AgentFails => CoverInv'
BY DEF AgentFails, CoverInv, UnusedHasNoShare, ReportsAreFinite, ChargeCoversReports, Reported

LEMMA EInvariance == ESpec => [](IInv /\ CoverInv /\ Jobs)
<1>1. EInit => IInv /\ CoverInv /\ Jobs
  BY InvInit, CoverInit DEF EInit, Jobs
<1>2. IInv /\ Jobs /\ [ENext]_allvars => (IInv /\ Jobs)'
  BY InvStep, EStep, FailureKeeps
<1>3. IInv /\ IInv' /\ CoverInv /\ Jobs /\ [ENext]_allvars => CoverInv'
  BY CoverStep, EStep, FailureKeepsCover
<1> QED
  BY <1>1, <1>2, <1>3, PTL DEF ESpec

\* The server among its agents, whose requests are lost and who fail, obey old
\* answers and report late, still writes only statuses that the declared
\* lifecycle lets follow: the composition implements SessionLifecycle.
THEOREM SystemImplementsLifecycle == ESpec => FollowsLifecycle
<1>1. EInit => Lifecycle!Init
  BY LifecycleInit DEF EInit
<1>2. AgentFails => UNCHANGED [x \in Sessions |-> sessions[x].status]
  BY DEF AgentFails
<1>3. IInv /\ Jobs /\ [ENext]_allvars => [Lifecycle!Next]_([x \in Sessions |-> sessions[x].status])
  BY <1>2, EStep, LifecycleStep
<1> QED
  BY <1>1, <1>3, EInvariance, PTL DEF ESpec, FollowsLifecycle, Lifecycle!Spec

\* Every provider's sessions still lease addresses from its pool, one per session.
THEOREM SystemImplementsLeases == ESpec => ProvidersLeaseAddresses
<1>1. EInit => \A p \in Devices : Leases(p)!Init
  BY LeasesInit DEF EInit
<1>2. AgentFails => \A x \in Sessions : UNCHANGED Held(x)
  BY DEF AgentFails, Held, Live
<1>3. IInv /\ Jobs /\ [ENext]_allvars => [\A x \in Sessions : HoldsByLease(x)]_vars
  <2>1. AgentFails => \A x \in Sessions : HoldsByLease(x)
    BY <1>2 DEF HoldsByLease
  <2> QED
    BY <2>1, EStep, HeldStep DEF IInv
<1> QED
  BY <1>1, <1>3, EInvariance, PTL DEF ESpec, ProvidersLeaseAddresses, HoldsByLease

\* Nor do agents bring the tables into a state that the server alone does not
\* reach: sessions of a consumer and addresses of a provider stay apart, sessions
\* join the parties of their share, and charges stay within their quota and cover
\* what was reported.
THEOREM SystemKeepsTables ==
  ESpec => [](/\ OneLiveSessionPerConsumer /\ UniqueLiveAddress
              /\ SessionJoinsParties /\ ExhaustedIffUsedUp /\ ChargeCoversReports)
BY EInvariance, PTL DEF IInv, CoverInv

=============================================================================
