---------------------------- MODULE NetworkAgent ----------------------------
(***************************************************************************)
(* What the agent (internal/agent) does to its computer's network, to the  *)
(* recovery snapshots in the state directory and to the sessions on the    *)
(* control server: Connect, the command line's init, ProviderInit,         *)
(* Disconnect, Repair, Shutdown and the consumer's part of Monitor.        *)
(*                                                                         *)
(* Workers are the goroutines that run these operations: Handlers serve    *)
(* the user (a request to the local UI, or a command line), Monitors run   *)
(* Monitor, Windows run the desktop window and, once it is closed,         *)
(* Shutdown.  They share the state directory and the network and no lock:  *)
(* LocalController.mu only covers copying the App value.  A step is one    *)
(* external command, one write to disk, or one request to the server.      *)
(*                                                                         *)
(* A snapshot has the id of a session of the server, an id that the user   *)
(* gave to init, or the id of a provider's set-up.  All of them use the    *)
(* configured tunnel name, so there is one tunnel service and one          *)
(* configuration file.  The control server is reduced to what the agent    *)
(* sees of ControlPlane: the status of the device's sessions and which of  *)
(* them have a share that is no longer active.                             *)
(***************************************************************************)
EXTENDS Naturals

CONSTANTS
  Sessions,    \* session ids, handed out once by the server
  Manual,      \* ids given to "init --role consumer"
  Gateways,    \* ids of provider set-ups
  Endpoints,   \* LAN addresses of providers
  InitEndpoint, \* InitEndpoint[m]: the address that id m is always used with
  NATNamed,    \* the configured name of the NAT contains "NAT"
  None,
  Handlers,    \* workers that run the user's operations
  Monitors,    \* workers that run Monitor
  Windows,     \* workers that run Shutdown
  MaxFaults    \* bound: commands, requests and processes that may fail

Workers == Handlers \cup Monitors \cup Windows
Consumers == Sessions \cup Manual
Ids == Consumers \cup Gateways

ASSUME AgentAssumption ==
  /\ None \notin Ids \cup Endpoints
  /\ Sessions \cap Manual = {} /\ Consumers \cap Gateways = {}
  /\ InitEndpoint \in [Manual -> Endpoints]
  /\ NATNamed \in BOOLEAN
  /\ Handlers \cap Monitors = {} /\ Handlers \cap Windows = {} /\ Monitors \cap Windows = {}
  /\ MaxFaults \in Nat

VARIABLES
  server,    \* server[x]: status of session x on the control server
  ended,     \* sessions whose share is stopped, expired or exhausted
  snap,      \* snap[x]: the snapshot saved for id x
  routes,    \* endpoints that have an exception route
  rules,     \* firewall rules <<kind, id>>
  nat,       \* whether the NAT of the tunnel's prefix exists
  tunnel,    \* id whose configuration the tunnel service runs
  file,      \* id whose configuration is in the tunnel's file
  work,      \* work[w]: what worker w is doing
  faults     \* failures so far

network == <<routes, rules, nat, tunnel>>
vars == <<server, ended, snap, routes, rules, nat, tunnel, file, work, faults>>

-----------------------------------------------------------------------------
(* The order of the steps *)

\* SetupConsumer puts route and IPv6 block before the tunnel; Disconnect removes
\* the tunnel before them.
ConsumerSteps ==
  [reach |-> "check", check |-> "save", save |-> "pin", pin |-> "block", block |-> "write",
   write |-> "install", install |-> "wait", wait |-> "idle",
   uninstall |-> "unpin", unpin |-> "unblock", unblock |-> "mark", mark |-> "remove"]

\* SetupProvider puts the NAT and its rules behind the tunnel.  Forwarding, which
\* its plan turns on first, belongs to the tunnel's interface and goes with it.
\* A snapshot records the NAT if it finds "NAT" in its name.
ProviderSteps ==
  [check |-> "save", save |-> "write", write |-> "install", install |-> "wait",
   wait |-> "nat", nat |-> "udp", udp |-> "control", control |-> "idle",
   uninstall |-> "close_udp", close_udp |-> "close_control",
   close_control |-> IF NATNamed THEN "no_nat" ELSE "mark", no_nat |-> "mark", mark |-> "remove"]

Order(x) == IF x \in Gateways THEN ProviderSteps ELSE ConsumerSteps

\* The firewall rule that a step adds or removes.
RuleAdded == [block |-> "ipv6", udp |-> "udp", control |-> "control"]
RuleRemoved == [unblock |-> "ipv6", close_udp |-> "udp", close_control |-> "control"]

Commands ==
  DOMAIN ConsumerSteps \cup DOMAIN ProviderSteps
    \cup {"idle", "release", "load", "remove", "next", "inspect", "status", "exited"}

Work ==
  [pc : Commands,
   op : {"none", "connect", "init", "disconnect", "repair", "forced", "watch", "shutdown"},
   x : Ids \cup {None}, e : Endpoints \cup {None}, todo : SUBSET Ids]

Idle == [pc |-> "idle", op |-> "none", x |-> None, e |-> None, todo |-> {}]

NoSnapshot == [state |-> "none", e |-> None]

Init ==
  /\ server = [x \in Sessions |-> "unused"]
  /\ ended = {}
  /\ snap = [x \in Ids |-> NoSnapshot]
  /\ routes = {} /\ rules = {} /\ nat = FALSE
  /\ tunnel = None /\ file = None
  /\ work = [w \in Workers |-> Idle]
  /\ faults = 0

-----------------------------------------------------------------------------
(* How a worker goes on *)

\* The window was closed: the context of Monitor is cancelled, which kills its
\* commands, and the UI takes no new request.
Closing == \E v \in Windows : work[v].pc # "idle"

Cancelled(w) == w \in Monitors /\ Closing

At(w, pc) == work[w].pc = pc

Becomes(w, job) == work' = [work EXCEPT ![w] = job]

\* On to the next step; behind the last one the operation is done.
Proceeds(w) ==
  LET pc == Order(work[w].x)[work[w].pc] IN
  /\ Becomes(w, IF pc = "idle" THEN Idle ELSE [work[w] EXCEPT !.pc = pc])
  /\ UNCHANGED faults

\* A command or request reports an error; those of a cancelled context are not
\* counted.
Breaks(w, job) ==
  /\ Becomes(w, job)
  /\ \/ Cancelled(w) /\ UNCHANGED faults
     \/ faults < MaxFaults /\ faults' = faults + 1

\* Where the caller of App.Disconnect goes on after it returned.
Returned(job, ok) ==
  CASE job.op = "disconnect" -> IF ok THEN [job EXCEPT !.pc = "release"] ELSE Idle
    [] job.op = "repair"     -> IF ok THEN [job EXCEPT !.pc = "next"] ELSE Idle
    [] job.op = "forced"     -> [job EXCEPT !.pc = "next"]
    [] job.op = "watch"      -> [job EXCEPT !.pc = "release"]
    [] job.op = "shutdown"   ->
         [job EXCEPT !.pc = IF ok /\ job.x \in Consumers THEN "release" ELSE "next"]

Aborted(w) == Returned(work[w], FALSE)

\* Where the worker goes on after it told the server.
Released(job) ==
  IF job.op \in {"connect", "disconnect"} THEN Idle ELSE [job EXCEPT !.pc = "next"]

Incomplete == {x \in Ids : snap[x].state = "incomplete"}

-----------------------------------------------------------------------------
(* Setting up: Connect with SetupConsumer, init, ProviderInit *)

\* Connect ends the session on the server again; the other set-ups just fail.
Failed(w) == IF work[w].op = "connect" THEN [work[w] EXCEPT !.pc = "release"] ELSE Idle

Fails(w) == Becomes(w, Failed(w)) /\ UNCHANGED faults

\* The server refuses a second live session of the device.
CreateSession(w, x, e) ==
  /\ At(w, "idle") /\ ~ Closing
  /\ server[x] = "unused"
  /\ \A y \in Sessions : server[y] # "active"
  /\ server' = [server EXCEPT ![x] = "active"]
  /\ \/ Becomes(w, [pc |-> "reach", op |-> "connect", x |-> x, e |-> e, todo |-> {}])
        /\ UNCHANGED faults
     \/ Breaks(w, Idle)     \* the response is lost
  /\ UNCHANGED <<ended, snap, network, file>>

InitConsumer(w, m) ==
  /\ At(w, "idle") /\ ~ Closing
  /\ Becomes(w, [Idle EXCEPT !.pc = "check", !.op = "init", !.x = m, !.e = InitEndpoint[m]])
  /\ UNCHANGED <<server, ended, snap, network, file, faults>>

ProviderInit(w, g) ==
  /\ At(w, "idle") /\ ~ Closing
  /\ Becomes(w, [Idle EXCEPT !.pc = "check", !.op = "init", !.x = g])
  /\ UNCHANGED <<server, ended, snap, network, file, faults>>

\* ProviderReachable: one ping.
Reach(w) ==
  /\ At(w, "reach")
  /\ Proceeds(w) \/ Breaks(w, Failed(w))
  /\ UNCHANGED <<server, ended, snap, network, file>>

\* EnsureNoConsumerConflicts and EnsureNoProviderConflicts, which does not look
\* for the rule of the control server.
NoConflict(job) ==
  /\ tunnel = None
  /\ IF job.x \in Gateways THEN ~ nat /\ <<"udp", job.x>> \notin rules
     ELSE job.e \notin routes /\ <<"ipv6", job.x>> \notin rules

CheckConflicts(w) ==
  /\ At(w, "check")
  /\ IF NoConflict(work[w]) THEN Proceeds(w) \/ Breaks(w, Failed(w)) ELSE Fails(w)
  /\ UNCHANGED <<server, ended, snap, network, file>>

\* Faulty: the set-up goes on when the snapshot could not be saved.
SaveIgnoringErrors(w) ==
  /\ At(w, "save")
  /\ \/ snap' = [snap EXCEPT ![work[w].x] = [state |-> "incomplete", e |-> work[w].e]]
        /\ Proceeds(w)
     \/ UNCHANGED snap /\ Breaks(w, [work[w] EXCEPT !.pc = Order(work[w].x).save])
  /\ UNCHANGED <<server, ended, network, file>>

\* Overwrites the snapshot that an earlier set-up left under the id.
SaveSnapshot(w) ==
  /\ At(w, "save")
  /\ \/ snap' = [snap EXCEPT ![work[w].x] = [state |-> "incomplete", e |-> work[w].e]]
        /\ Proceeds(w)
     \/ UNCHANGED snap /\ Breaks(w, Failed(w))
  /\ UNCHANGED <<server, ended, network, file>>

\* The actions of ConsumerPlan and ProviderPlan.  A command may report an error
\* although it took effect.
PinRoute(w) ==
  /\ At(w, "pin")
  /\ \/ /\ work[w].e \notin routes
        /\ routes' = routes \cup {work[w].e}
        /\ Proceeds(w) \/ Breaks(w, Failed(w))
     \/ work[w].e \in routes /\ UNCHANGED routes /\ Fails(w)
     \/ UNCHANGED routes /\ Breaks(w, Failed(w))
  /\ UNCHANGED <<server, ended, snap, rules, nat, tunnel, file>>

AddRule(w) ==
  /\ work[w].pc \in DOMAIN RuleAdded
  /\ \/ /\ rules' = rules \cup {<<RuleAdded[work[w].pc], work[w].x>>}
        /\ Proceeds(w) \/ Breaks(w, Failed(w))
     \/ UNCHANGED rules /\ Breaks(w, Failed(w))
  /\ UNCHANGED <<server, ended, snap, routes, nat, tunnel, file>>

CreateNAT(w) ==
  /\ At(w, "nat")
  /\ \/ /\ nat' = TRUE
        /\ Proceeds(w) \/ Breaks(w, Failed(w))
     \/ UNCHANGED nat /\ Breaks(w, Failed(w))
  /\ UNCHANGED <<server, ended, snap, routes, rules, tunnel, file>>

WriteConfig(w) ==
  /\ At(w, "write")
  /\ \/ file' = work[w].x /\ Proceeds(w)
     \/ UNCHANGED file /\ Breaks(w, Failed(w))
  /\ UNCHANGED <<server, ended, snap, network>>

\* The service runs whatever configuration the file holds by now; it is not
\* installed without one, nor next to another.
InstallTunnel(w) ==
  /\ At(w, "install")
  /\ \/ /\ tunnel = None /\ file # None
        /\ tunnel' = file
        /\ Proceeds(w) \/ Breaks(w, Failed(w))
     \/ (tunnel # None \/ file = None) /\ UNCHANGED tunnel /\ Fails(w)
     \/ UNCHANGED tunnel /\ Breaks(w, Failed(w))
  /\ UNCHANGED <<server, ended, snap, routes, rules, nat, file>>

\* WaitForTunnel: the interface appears within 20 seconds or it does not.
WaitForTunnel(w) ==
  /\ At(w, "wait")
  /\ \/ tunnel # None /\ Proceeds(w)
     \/ tunnel = None /\ Fails(w)
     \/ Breaks(w, Failed(w))
  /\ UNCHANGED <<server, ended, snap, network, file>>

\* The request that ends the session on the server, which does not know the ids
\* of set-ups; its error is ignored.
Release(w) ==
  /\ At(w, "release")
  /\ \/ /\ server' = [x \in Sessions |->
                        IF x = work[w].x /\ server[x] \in {"active", "revoked"}
                        THEN "disconnected" ELSE server[x]]
        /\ Becomes(w, Released(work[w])) /\ UNCHANGED faults
     \/ UNCHANGED server /\ Breaks(w, Released(work[w]))
  /\ UNCHANGED <<ended, snap, network, file>>

-----------------------------------------------------------------------------
(* App.Disconnect: the clean-up of one snapshot *)

\* The snapshot is loaded whether it is completed or not.
LoadSnapshot(w) ==
  /\ At(w, "load")
  /\ LET s == snap[work[w].x] IN
     \/ /\ s.state # "none"
        /\ Becomes(w, [work[w] EXCEPT !.pc = "uninstall", !.e = s.e]) /\ UNCHANGED faults
     \/ s.state = "none" /\ Becomes(w, Aborted(w)) /\ UNCHANGED faults
     \/ Breaks(w, Aborted(w))
  /\ UNCHANGED <<server, ended, snap, network, file>>

\* Faulty: Disconnect goes on when the service could not be removed.
UninstallIgnoringErrors(w) ==
  /\ At(w, "uninstall")
  /\ \/ tunnel' = None /\ Proceeds(w)
     \/ UNCHANGED tunnel /\ Breaks(w, [work[w] EXCEPT !.pc = Order(work[w].x).uninstall])
  /\ UNCHANGED <<server, ended, snap, routes, rules, nat, file>>

\* Removes the service of the tunnel's name, whichever id it runs for.
UninstallTunnel(w) ==
  /\ At(w, "uninstall")
  /\ \/ /\ ~ Cancelled(w)
        /\ tunnel' = None
        /\ Proceeds(w) \/ Breaks(w, Aborted(w))
     \/ UNCHANGED tunnel /\ Breaks(w, Aborted(w))
  /\ UNCHANGED <<server, ended, snap, routes, rules, nat, file>>

\* The actions of Restorer.Plan remove what is there and skip what is not.
UnpinRoute(w) ==
  /\ At(w, "unpin")
  /\ \/ /\ ~ Cancelled(w)
        /\ routes' = routes \ {work[w].e}
        /\ Proceeds(w) \/ Breaks(w, Aborted(w))
     \/ UNCHANGED routes /\ Breaks(w, Aborted(w))
  /\ UNCHANGED <<server, ended, snap, rules, nat, tunnel, file>>

RemoveRule(w) ==
  /\ work[w].pc \in DOMAIN RuleRemoved
  /\ \/ /\ ~ Cancelled(w)
        /\ rules' = rules \ {<<RuleRemoved[work[w].pc], work[w].x>>}
        /\ Proceeds(w) \/ Breaks(w, Aborted(w))
     \/ UNCHANGED rules /\ Breaks(w, Aborted(w))
  /\ UNCHANGED <<server, ended, snap, routes, nat, tunnel, file>>

RemoveNAT(w) ==
  /\ At(w, "no_nat")
  /\ \/ nat' = FALSE /\ (Proceeds(w) \/ Breaks(w, Aborted(w)))
     \/ UNCHANGED nat /\ Breaks(w, Aborted(w))
  /\ UNCHANGED <<server, ended, snap, routes, rules, tunnel, file>>

\* Faulty: a status that the reader of the snapshot does not know, and a
\* snapshot that is deleted instead of marked.
MarkDisconnected(w) ==
  /\ At(w, "mark")
  /\ snap' = [snap EXCEPT ![work[w].x].state = "disconnected"]
  /\ Proceeds(w)
  /\ UNCHANGED <<server, ended, network, file>>

DeleteSnapshot(w) ==
  /\ At(w, "mark")
  /\ snap' = [snap EXCEPT ![work[w].x] = NoSnapshot]
  /\ Proceeds(w)
  /\ UNCHANGED <<server, ended, network, file>>

MarkCompleted(w) ==
  /\ At(w, "mark")
  /\ \/ snap' = [snap EXCEPT ![work[w].x].state = "completed"] /\ Proceeds(w)
     \/ UNCHANGED snap /\ Breaks(w, Aborted(w))
  /\ UNCHANGED <<server, ended, network, file>>

\* Its error is ignored.
RemoveConfig(w) ==
  /\ At(w, "remove")
  /\ \/ file' = None /\ Becomes(w, Returned(work[w], TRUE)) /\ UNCHANGED faults
     \/ UNCHANGED file /\ Breaks(w, Returned(work[w], TRUE))
  /\ UNCHANGED <<server, ended, snap, network>>

-----------------------------------------------------------------------------
(* The operations that clean up *)

Starts(w, op, todo) ==
  Becomes(w, [Idle EXCEPT !.pc = "next", !.op = op, !.todo = todo]) /\ UNCHANGED faults

Disconnect(w, x) ==
  /\ At(w, "idle") /\ ~ Closing
  /\ Becomes(w, [Idle EXCEPT !.pc = "load", !.op = "disconnect", !.x = x])
  /\ UNCHANGED <<server, ended, snap, network, file, faults>>

Repair(w) ==
  /\ At(w, "idle") /\ ~ Closing
  /\ Starts(w, "repair", Incomplete)
  /\ UNCHANGED <<server, ended, snap, network, file>>

Shutdown(v) ==
  /\ At(v, "idle")
  /\ Starts(v, "shutdown", Incomplete)
  /\ UNCHANGED <<server, ended, snap, network, file>>

\* Faulty: revoked sessions are not listed while their share is active.
MustDisconnectEnded == ended

\* What MustDisconnect lists: a session is on the list for as long as it is
\* revoked or its share is not active, also after its clean-up.
MustDisconnect == {x \in Sessions : server[x] = "revoked" \/ x \in ended}

Heartbeat(m) ==
  /\ At(m, "idle") /\ ~ Closing
  /\ Starts(m, "forced", MustDisconnect)
  /\ UNCHANGED <<server, ended, snap, network, file>>

\* After the forced disconnects Monitor lists the incomplete snapshots of
\* consumers.
Inspect(m) ==
  /\ At(m, "inspect")
  /\ Starts(m, "watch", Incomplete \cap Consumers) \/ Breaks(m, Idle)
  /\ UNCHANGED <<server, ended, snap, network, file>>

\* Monitor cleans up after a tunnel that "wg show" does not find.
Status(m) ==
  /\ At(m, "status")
  /\ \/ tunnel # None /\ ~ Cancelled(m) /\ Becomes(m, [work[m] EXCEPT !.pc = "next"])
        /\ UNCHANGED faults
     \/ tunnel = None /\ Becomes(m, [work[m] EXCEPT !.pc = "load"]) /\ UNCHANGED faults
     \/ Breaks(m, [work[m] EXCEPT !.pc = "load"])
  /\ UNCHANGED <<server, ended, snap, network, file>>

\* The loops over snapshots and ids.
NextSession(w) ==
  /\ At(w, "next") /\ work[w].todo # {}
  /\ \E x \in work[w].todo :
       Becomes(w, [work[w] EXCEPT !.x = x, !.todo = @ \ {x},
                     !.pc = IF work[w].op = "watch" THEN "status" ELSE "load"])
  /\ UNCHANGED <<server, ended, snap, network, file, faults>>

\* The end of a loop; the end of Shutdown ends the process and what it runs.
LoopDone(w) ==
  /\ At(w, "next") /\ work[w].todo = {}
  /\ work' = CASE work[w].op = "forced" -> [work EXCEPT ![w].pc = "inspect"]
               [] work[w].op = "shutdown" ->
                    [v \in Workers |-> IF v = w THEN [Idle EXCEPT !.pc = "exited"] ELSE Idle]
               [] OTHER -> [work EXCEPT ![w] = Idle]
  /\ UNCHANGED <<server, ended, snap, network, file, faults>>

Launch(v) ==
  /\ At(v, "exited")
  /\ Becomes(v, Idle)
  /\ UNCHANGED <<server, ended, snap, network, file, faults>>

-----------------------------------------------------------------------------
(* The environment *)

\* A sweep, the owner or the provider's agent revokes the session.
ServerRevokes(x) ==
  /\ server[x] = "active"
  /\ server' = [server EXCEPT ![x] = "revoked"]
  /\ UNCHANGED <<ended, snap, network, file, work, faults>>

\* The owner disconnects the session.
OwnerDisconnects(x) ==
  /\ server[x] \in {"active", "revoked"}
  /\ server' = [server EXCEPT ![x] = "disconnected"]
  /\ UNCHANGED <<ended, snap, network, file, work, faults>>

\* The share of the session is stopped, expires or is exhausted.
ShareEnds(x) ==
  /\ server[x] # "unused" /\ x \notin ended
  /\ ended' = ended \cup {x}
  /\ UNCHANGED <<server, snap, network, file, work, faults>>

\* A late report on a session of the share makes it active again.
ShareRevives(x) ==
  /\ x \in ended
  /\ ended' = ended \ {x}
  /\ UNCHANGED <<server, snap, network, file, work, faults>>

\* The agent's processes are killed between two steps, and started again.
Crash ==
  /\ \E w \in Workers : work[w] # Idle
  /\ faults < MaxFaults
  /\ faults' = faults + 1
  /\ work' = [w \in Workers |-> Idle]
  /\ UNCHANGED <<server, ended, snap, network, file>>

-----------------------------------------------------------------------------
\* The steps that need nobody to ask for them.
Runs(w) ==
  \/ Reach(w) \/ CheckConflicts(w) \/ SaveSnapshot(w) \/ PinRoute(w) \/ AddRule(w)
  \/ CreateNAT(w) \/ WriteConfig(w) \/ InstallTunnel(w) \/ WaitForTunnel(w) \/ Release(w)
  \/ LoadSnapshot(w) \/ UninstallTunnel(w) \/ UnpinRoute(w) \/ RemoveRule(w)
  \/ RemoveNAT(w) \/ MarkCompleted(w) \/ RemoveConfig(w)
  \/ Inspect(w) \/ Status(w) \/ NextSession(w) \/ LoopDone(w)
  \/ w \in Monitors /\ Heartbeat(w)

Next ==
  \/ \E w \in Workers : Runs(w)
  \/ \E w \in Handlers :
       \/ \E x \in Sessions, e \in Endpoints : CreateSession(w, x, e)
       \/ \E m \in Manual : InitConsumer(w, m)
       \/ \E g \in Gateways : ProviderInit(w, g)
       \/ \E x \in Ids : Disconnect(w, x)
       \/ Repair(w)
  \/ \E v \in Windows : Shutdown(v) \/ Launch(v)
  \/ \E x \in Sessions : ServerRevokes(x) \/ OwnerDisconnects(x) \/ ShareEnds(x) \/ ShareRevives(x)
  \/ Crash

Spec == Init /\ [][Next]_vars

\* A goroutine that has something to do does it, and Monitor's ticker ticks.
Fairness == \A w \in Workers : WF_vars(Runs(w))

FairSpec == Spec /\ Fairness

-----------------------------------------------------------------------------
TypeOK ==
  /\ server \in [Sessions -> {"unused", "active", "revoked", "disconnected"}]
  /\ ended \subseteq Sessions
  /\ snap \in [Ids -> [state : {"none", "incomplete", "completed"}, e : Endpoints \cup {None}]]
  /\ routes \subseteq Endpoints
  /\ rules \subseteq {"ipv6", "udp", "control"} \X Ids
  /\ nat \in BOOLEAN
  /\ tunnel \in Ids \cup {None}
  /\ file \in Ids \cup {None}
  /\ work \in [Workers -> Work]
  /\ faults \in 0..MaxFaults

\* Whatever a crash or a failing command left of a set-up can be repaired:
\* every route, rule, NAT and tunnel is recorded by a snapshot that Repair
\* lists and that names it (saveSnapshot, Store.Incomplete).
ResourcesAreRepairable ==
  /\ \A e \in routes : \E x \in Incomplete \cap Consumers : snap[x].e = e
  /\ \A r \in rules : r[2] \in Incomplete
  /\ nat => NATNamed /\ Incomplete \cap Gateways # {}
  /\ tunnel # None => tunnel \in Incomplete

\* The full tunnel of a consumer never runs without the exception route of its
\* endpoint and the IPv6 block: traffic would loop, or bypass the tunnel.
TunnelIsShielded ==
  tunnel \in Consumers => snap[tunnel].e \in routes /\ <<"ipv6", tunnel>> \in rules

\* Even when operations overlap, nothing is left on the computer that no
\* snapshot names: Disconnect by id can still remove it.
ResourcesAreRecorded ==
  /\ \A e \in routes : \E x \in Consumers : snap[x].e = e
  /\ \A r \in rules : snap[r[2]].state # "none"
  /\ nat => \E g \in Gateways : snap[g].state # "none"
  /\ tunnel # None => snap[tunnel].state # "none"

\* A session that the server revoked is taken off the network by Monitor, for
\* all failing commands and crashes, unless the window is closed or the session
\* is disconnected on the server first, which takes it off the list of forced
\* disconnects.
RevokedSessionIsCleanedUp ==
  \A x \in Sessions :
    server[x] = "revoked" /\ snap[x].state = "incomplete"
      ~> snap[x].state = "completed" \/ server[x] = "disconnected" \/ Closing

\* The clean-up that the server orders at every heartbeat for a session that was
\* cleaned up already leaves the tunnel of a later session alone.
ForcedCleanupSparesLaterSessions ==
  [][\A m \in Monitors :
       /\ UninstallTunnel(m)
       /\ work[m].op = "forced" /\ snap[work[m].x].state = "completed"
       => tunnel \in {None, work[m].x} \/ UNCHANGED tunnel]_vars

=============================================================================
