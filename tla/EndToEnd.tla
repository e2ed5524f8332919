------------------------------ MODULE EndToEnd ------------------------------
(***************************************************************************)
(* A control server and the agents of its devices: ControlPlane, whose     *)
(* requests come from agents here, composed with Connect, Disconnect and   *)
(* Monitor (internal/agent) on either side.  It asks whether the end of a  *)
(* session or of a share on the server reaches the computers.              *)
(*                                                                         *)
(* What NetworkAgent and ProviderAgent take apart is one step here: the    *)
(* set-up of a tunnel, its clean-up, and the visit to one listed session.  *)
(* A consumer device has one key, so it stands for its peer.               *)
(***************************************************************************)
EXTENDS ControlPlane

VARIABLES
  job,      \* job[d]: the session that Connect on d is setting up
  tunnel,   \* tunnel[d]: the session whose tunnel is up on d
  snap,     \* snap[d][x]: the recovery snapshot of session x on d
  round,    \* round[d]: how far Monitor on d is in this round
  list,     \* list[d]: what is left of the server's answer to this round
  known,    \* known[d]: the sessions Monitor on d has added a peer for
  peer      \* peer[d]: the consumers that d's WireGuard interface lets in

agents == <<job, tunnel, snap, round, list, known, peer>>
allvars == <<vars, agents>>

EInit ==
  /\ Init
  /\ job = [d \in Devices |-> None] /\ tunnel = [d \in Devices |-> None]
  /\ snap = [d \in Devices |-> [x \in Sessions |-> "none"]]
  /\ round = [d \in Devices |-> "idle"] /\ list = [d \in Devices |-> {}]
  /\ known = [d \in Devices |-> {}] /\ peer = [d \in Devices |-> {}]

\* A request that is lost or refused.
NoRequest == UNCHANGED vars

Incomplete(d) == {x \in Sessions : snap[d][x] = "incomplete"}

-----------------------------------------------------------------------------
(* The consumer: Connect and Disconnect *)

Connect(d, x, s) ==
  /\ job[d] = None
  /\ CreateSession(x, s, d)
  /\ job' \in {[job EXCEPT ![d] = x], job}     \* or the answer is lost
  /\ UNCHANGED <<tunnel, snap, round, list, known, peer>>

SetUp(d) ==
  /\ job[d] # None /\ tunnel[d] = None
  /\ tunnel' = [tunnel EXCEPT ![d] = job[d]]
  /\ snap' = [snap EXCEPT ![d][job[d]] = "incomplete"]
  /\ job' = [job EXCEPT ![d] = None]
  /\ UNCHANGED <<round, list, known, peer>> /\ UNCHANGED vars

\* Connect ends the session on the server and leaves on the computer what it
\* had done so far.
SetUpFails(d) ==
  /\ job[d] # None
  /\ DisconnectSession(job[d]) \/ NoRequest
  /\ \/ UNCHANGED <<tunnel, snap>>
     \/ /\ tunnel[d] = None
        /\ tunnel' \in {tunnel, [tunnel EXCEPT ![d] = job[d]]}
        /\ snap' = [snap EXCEPT ![d][job[d]] = "incomplete"]
  /\ job' = [job EXCEPT ![d] = None]
  /\ UNCHANGED <<round, list, known, peer>>

\* The clean-up that App.Disconnect does for a session that has a snapshot.
CleansUp(d, x) ==
  /\ snap[d][x] # "none"
  /\ tunnel' = [tunnel EXCEPT ![d] = None]
  /\ snap' = [snap EXCEPT ![d][x] = "completed"]

UserDisconnects(d, x) ==
  /\ CleansUp(d, x)
  /\ DisconnectSession(x) \/ NoRequest
  /\ UNCHANGED <<job, round, list, known, peer>>

-----------------------------------------------------------------------------
(* Monitor *)

SendHeartbeat(d) ==
  /\ round[d] = "idle"
  /\ Heartbeat(d)
  /\ round' = [round EXCEPT ![d] = "sent"]
  /\ UNCHANGED <<job, tunnel, snap, list, known, peer>>

\* Faulty: revoked sessions are not listed while their share is active.
MustDisconnectEnded(d) ==
  {x \in Sessions : /\ d \in {sessions[x].provider, sessions[x].consumer}
                    /\ shares[sessions[x].share].status # "active"}

\* MustDisconnect: a session that was disconnected is only on the list when its
\* share is over.
MustDisconnect(d) ==
  {x \in Sessions :
     /\ d \in {sessions[x].provider, sessions[x].consumer}
     /\ \/ sessions[x].status = "revoked"
        \/ shares[sessions[x].share].status # "active"
        \/ shares[sessions[x].share].life = 0}

\* The answer to the heartbeat of a consumer.
ReadOrders(d) ==
  /\ round[d] = "sent" /\ Beat(d) \notin pending /\ devices[d].role = "consumer"
  /\ list' = [list EXCEPT ![d] = MustDisconnect(d)]
  /\ round' = [round EXCEPT ![d] = "obey"]
  /\ UNCHANGED <<job, tunnel, snap, known, peer>> /\ UNCHANGED vars

\* Each forced disconnect is tried once a round; its error is logged.
Obey(d) ==
  /\ round[d] = "obey"
  /\ \E x \in list[d] :
       /\ list' = [list EXCEPT ![d] = @ \ {x}]
       /\ \/ CleansUp(d, x) /\ UNCHANGED faults
          \/ snap[d][x] = "none" /\ UNCHANGED <<tunnel, snap, faults>>
          \/ UNCHANGED <<tunnel, snap>> /\ faults < MaxFaults /\ faults' = faults + 1
  /\ UNCHANGED <<job, round, known, peer>>
  /\ UNCHANGED <<devices, shares, sessions, pending, sweep>>

\* Then Monitor cleans up after a session without tunnel, and ends it.
Watch(d) ==
  /\ round[d] = "obey" /\ list[d] = {}
  /\ IF tunnel[d] = None /\ Incomplete(d) # {}
     THEN \E x \in Incomplete(d) :
            CleansUp(d, x) /\ (DisconnectSession(x) \/ NoRequest) /\ UNCHANGED round
     ELSE round' = [round EXCEPT ![d] = "idle"] /\ UNCHANGED <<tunnel, snap>> /\ NoRequest
  /\ UNCHANGED <<job, list, known, peer>>

\* ProviderSessions, with the status each session has when it is listed.
ListSessions(d) ==
  /\ round[d] = "sent" /\ Beat(d) \notin pending /\ devices[d].role = "provider"
  /\ list' = [list EXCEPT ![d] =
       {<<x, sessions[x].status>> : x \in {y \in Sessions : sessions[y].provider = d}}]
  /\ round' = [round EXCEPT ![d] = "visit"]
  /\ UNCHANGED <<job, tunnel, snap, known, peer>> /\ UNCHANGED vars

Admits(d, x) ==
  /\ peer' = [peer EXCEPT ![d] = @ \cup {sessions[x].consumer}]
  /\ known' = [known EXCEPT ![d] = @ \cup {x}]

\* Faulty: the peer of a session that has ended stays.
Forgets(d, x) ==
  /\ peer' = peer
  /\ known' = [known EXCEPT ![d] = @ \ {x}]

Expels(d, x) ==
  /\ peer' = [peer EXCEPT ![d] = @ \ {sessions[x].consumer}]
  /\ known' = [known EXCEPT ![d] = @ \ {x}]

\* A listed session that is over loses the peer this process added; one that
\* goes on gets its peer, and what its counter shows is reported.  A counter
\* that cannot be read ends the session, and so does an exhausted share.
Visit(d) ==
  /\ round[d] = "visit"
  /\ \E x \in Sessions, status \in SessionStatus :
       /\ <<x, status>> \in list[d]
       /\ list' = [list EXCEPT ![d] = @ \ {<<x, status>>}]
       /\ IF status \notin {"active", "pending"}
          THEN NoRequest /\ IF x \in known[d] THEN Expels(d, x) ELSE UNCHANGED <<known, peer>>
          ELSE \/ \E total \in 0..MaxTotal :
                    /\ ReportTraffic(x, total)
                    /\ IF shares'[sessions[x].share].status = "exhausted"
                       THEN Expels(d, x) ELSE Admits(d, x)
               \/ NoRequest /\ Admits(d, x)                      \* no report
               \/ (RevokeSession(x) \/ NoRequest) /\ Expels(d, x)  \* no counter
               \/ x \notin known[d] /\ NoRequest /\ UNCHANGED <<known, peer>>  \* no peer
  /\ UNCHANGED <<job, tunnel, snap, round>>

VisitsDone(d) ==
  /\ round[d] = "visit" /\ list[d] = {}
  /\ round' = [round EXCEPT ![d] = "idle"]
  /\ UNCHANGED <<job, tunnel, snap, list, known, peer>> /\ UNCHANGED vars

\* The heartbeat or the list is not answered.
NoAnswer(d) ==
  /\ round[d] = "sent"
  /\ faults < MaxFaults /\ faults' = faults + 1
  /\ round' = [round EXCEPT ![d] = "idle"]
  /\ UNCHANGED <<job, tunnel, snap, list, known, peer>>
  /\ UNCHANGED <<devices, shares, sessions, pending, sweep>>

\* A consumer's agent is killed and started again; its tunnel service runs on.
ConsumerRestarts(d) ==
  /\ job[d] # None \/ round[d] # "idle"
  /\ devices[d].role = "consumer"
  /\ faults < MaxFaults /\ faults' = faults + 1
  /\ job' = [job EXCEPT ![d] = None]
  /\ round' = [round EXCEPT ![d] = "idle"] /\ list' = [list EXCEPT ![d] = {}]
  /\ UNCHANGED <<tunnel, snap, known, peer>>
  /\ UNCHANGED <<devices, shares, sessions, pending, sweep>>

MonitorStep(d) ==
  \/ SendHeartbeat(d) \/ ReadOrders(d) \/ Obey(d) \/ Watch(d)
  \/ ListSessions(d) \/ Visit(d) \/ VisitsDone(d)

-----------------------------------------------------------------------------
\* What happens on the server without an agent: users, the sweeper, the clock.
ServerStep ==
  /\ \/ \E d \in Devices :
          HeartbeatSessions(d) \/ \E role \in RolesOf[d] : ~ Registered(d) /\ RegisterDevice(d, role)
     \/ ShareNext
     \/ \E x \in Sessions : DisconnectSession(x) \/ RevokeSession(x)
     \/ SweepDevices \/ SweepShares \/ SweepSessions
     \/ \E stmt \in Statements : LoseStatement(stmt)
     \/ Restart
     \/ Tick
  /\ UNCHANGED agents

ENext ==
  \/ ServerStep
  \/ \E d \in Devices :
       \/ \E x \in Sessions, s \in Shares : Connect(d, x, s)
       \/ SetUp(d) \/ SetUpFails(d)
       \/ \E x \in Sessions : UserDisconnects(d, x)
       \/ MonitorStep(d)
       \/ NoAnswer(d) \/ ConsumerRestarts(d)

ESpec == EInit /\ [][ENext]_allvars

Sweeper == SweepDevices \/ SweepShares \/ SweepSessions

\* A round of Monitor, with the second half of the request it waits for.
Rounds(d) == MonitorStep(d) \/ (HeartbeatSessions(d) /\ UNCHANGED agents)

\* Where these rounds are: each of their steps moves on.
Progress(d) == <<round[d], list[d], snap[d], Beat(d) \in pending>>

\* The sweeper and the handlers of the server run on, and so does Monitor.
EFairness == WF_sweep(Sweeper) /\ \A d \in Devices : WF_(Progress(d))(Rounds(d))

EFairSpec == ESpec /\ EFairness

-----------------------------------------------------------------------------
\* Whatever ends a session or its share on the server takes the session's tunnel
\* down on the consumer's computer: through the sweeper or a report, the list of
\* forced disconnects and Monitor, for one lost statement, lost answer, failed
\* command or restart.  Two things spare it: a late report that makes the share
\* active again, and a disconnect by request while the share goes on, after which
\* the consumer is not told.
EndedSessionLosesItsTunnel ==
  \A x \in Sessions :
    LET shareActive == shares[sessions[x].share].status = "active"
        stray   == /\ \E d \in Devices : tunnel[d] = x
                   /\ sessions[x].status # "active" \/ ~ shareActive
        excused == sessions[x].status = "disconnected" /\ shareActive
    IN  stray ~> (~ stray \/ excused)

\* Whether the provider of session x lets its consumer in.
LetIn(x) ==
  \E p \in Devices : p = sessions[x].provider /\ sessions[x].consumer \in peer[p]

\* The provider lets a consumer in for an active session only, or until its
\* next rounds tell it that the session ended.
EndedSessionLosesItsAccess ==
  \A x \in Sessions :
    LET stray == /\ LetIn(x)
                 /\ ~ \E y \in Sessions : /\ sessions[y].status = "active"
                                          /\ sessions[y].provider = sessions[x].provider
                                          /\ sessions[y].consumer = sessions[x].consumer
    IN  stray ~> ~ stray

=============================================================================
