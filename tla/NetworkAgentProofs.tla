------------------------- MODULE NetworkAgentProofs -------------------------
(***************************************************************************)
(* Proofs about NetworkAgent, for any number of workers, sessions, ids,    *)
(* endpoints and failures.                                                 *)
(***************************************************************************)
EXTENDS NetworkAgent, TLAPS

-----------------------------------------------------------------------------
(* The order of the steps *)

LEMMA ConsumerOrder ==
  ASSUME NEW x, x \notin Gateways
  PROVE  /\ Order(x)["reach"] = "check" /\ Order(x)["check"] = "save"
         /\ Order(x)["save"] = "pin" /\ Order(x)["pin"] = "block"
         /\ Order(x)["block"] = "write" /\ Order(x)["write"] = "install"
         /\ Order(x)["install"] = "wait" /\ Order(x)["wait"] = "idle"
         /\ Order(x)["uninstall"] = "unpin" /\ Order(x)["unpin"] = "unblock"
         /\ Order(x)["unblock"] = "mark" /\ Order(x)["mark"] = "remove"
BY DEF Order, ConsumerSteps

LEMMA ProviderOrder ==
  ASSUME NEW x \in Gateways
  PROVE  /\ Order(x)["check"] = "save" /\ Order(x)["save"] = "write"
         /\ Order(x)["write"] = "install" /\ Order(x)["install"] = "wait"
         /\ Order(x)["wait"] = "nat" /\ Order(x)["nat"] = "udp"
         /\ Order(x)["udp"] = "control" /\ Order(x)["control"] = "idle"
         /\ Order(x)["uninstall"] = "close_udp" /\ Order(x)["close_udp"] = "close_control"
         /\ Order(x)["close_control"] \in {"no_nat", "mark"}
         /\ Order(x)["no_nat"] = "mark" /\ Order(x)["mark"] = "remove"
BY DEF Order, ProviderSteps

LEMMA CommandSet ==
  Commands =
    {"reach", "check", "save", "pin", "block", "write", "install", "wait", "nat", "udp", "control",
     "uninstall", "unpin", "unblock", "close_udp", "close_control", "no_nat", "mark",
     "idle", "release", "load", "remove", "next", "inspect", "status", "exited"}
BY DEF Commands, ConsumerSteps, ProviderSteps

-----------------------------------------------------------------------------
(* What a worker can be doing *)

\* The steps of a set-up and of a clean-up.
SetUpSteps(x) ==
  IF x \in Gateways THEN {"check", "save", "write", "install", "wait", "nat", "udp", "control"}
  ELSE {"reach", "check", "save", "pin", "block", "write", "install", "wait"}

CleanUpSteps(x) ==
  IF x \in Gateways THEN {"uninstall", "close_udp", "close_control", "no_nat", "mark", "remove"}
  ELSE {"uninstall", "unpin", "unblock", "mark", "remove"}

CleaningOps == {"disconnect", "repair", "forced", "watch", "shutdown"}

SettingUp(j) ==
  /\ j.x \in Ids /\ j.pc \in SetUpSteps(j.x) /\ j.op \in {"connect", "init"}
  /\ j.x \notin Gateways => j.e \in Endpoints

CleaningUp(j) == j.x \in Ids /\ j.pc \in CleanUpSteps(j.x) /\ j.op \in CleaningOps

\* The program counter, the operation and the id of a job fit together.
Fits(j) ==
  \/ j.pc \in {"idle", "exited"}
  \/ SettingUp(j)
  \/ CleaningUp(j)
  \/ j.pc = "load" /\ j.x \in Ids /\ j.op \in CleaningOps
  \/ j.pc = "release" /\ j.x \in Ids /\ j.op \in CleaningOps \cup {"connect"}
  \/ j.pc = "status" /\ j.x \in Ids /\ j.op = "watch"
  \/ j.pc \in {"next", "inspect"} /\ j.op \in CleaningOps

Job == {j \in Work : Fits(j)}

AllFit == work \in [Workers -> Job]

LEMMA IdleFits == Idle \in Job
BY CommandSet DEF Job, Work, Idle, Fits

\* On to the next step of a set-up or a clean-up.
LEMMA NextStepFits ==
  ASSUME NEW j \in Job, SettingUp(j) \/ (CleaningUp(j) /\ j.pc # "remove"),
         Order(j.x)[j.pc] # "idle"
  PROVE  [j EXCEPT !.pc = Order(j.x)[j.pc]] \in Job
<1> DEFINE n == Order(j.x)[j.pc]
<1>1. CASE SettingUp(j)
  <2>1. n \in SetUpSteps(j.x)
    BY <1>1, ConsumerOrder, ProviderOrder DEF SettingUp, SetUpSteps
  <2> QED
    BY <1>1, <2>1, CommandSet DEF SettingUp, SetUpSteps, Job, Work, Fits
<1>2. CASE CleaningUp(j) /\ j.pc # "remove"
  <2>1. n \in CleanUpSteps(j.x)
    BY <1>2, ConsumerOrder, ProviderOrder DEF CleaningUp, CleanUpSteps
  <2> QED
    BY <1>2, <2>1, CommandSet DEF CleaningUp, CleanUpSteps, Job, Work, Fits
<1> QED
  BY <1>1, <1>2

LEMMA ReturnedFits ==
  ASSUME NEW j \in Job, j.x \in Ids, j.op \in CleaningOps, NEW ok \in BOOLEAN
  PROVE  Returned(j, ok) \in Job
BY IdleFits, CommandSet DEF Returned, Job, Work, Fits, CleaningOps

LEMMA ReleasedFits ==
  ASSUME NEW j \in Job, j.pc = "release"
  PROVE  Released(j) \in Job
BY IdleFits, CommandSet DEF Released, Job, Work, Fits, SettingUp, CleaningUp, SetUpSteps, CleanUpSteps, CleaningOps

LEMMA FailedFits ==
  ASSUME AllFit, NEW w \in Workers, SettingUp(work[w])
  PROVE  Failed(w) \in Job
<1>1. work[w] \in Job
  BY DEF AllFit
<1> QED
  BY <1>1, IdleFits, CommandSet DEF Failed, Job, Work, Fits, SettingUp

LEMMA BecomesFits ==
  ASSUME AllFit, NEW w \in Workers, NEW j \in Job, Becomes(w, j)
  PROVE  AllFit'
BY DEF AllFit, Becomes

LEMMA BreaksFits ==
  ASSUME AllFit, faults \in 0..MaxFaults, NEW w \in Workers, NEW j \in Job, Breaks(w, j)
  PROVE  AllFit' /\ faults' \in 0..MaxFaults
BY BecomesFits, AgentAssumption DEF Breaks

LEMMA ProceedsFits ==
  ASSUME AllFit, NEW w \in Workers,
         SettingUp(work[w]) \/ (CleaningUp(work[w]) /\ work[w].pc # "remove"),
         Proceeds(w)
  PROVE  AllFit' /\ faults' = faults
<1>1. work[w] \in Job
  BY DEF AllFit
<1>2. CASE Order(work[w].x)[work[w].pc] = "idle"
  BY <1>2, IdleFits, BecomesFits DEF Proceeds
<1>3. CASE Order(work[w].x)[work[w].pc] # "idle"
  BY <1>1, <1>3, NextStepFits, BecomesFits DEF Proceeds
<1> QED
  BY <1>2, <1>3

\* The program counter tells a set-up from a clean-up.
LEMMA StepsTellOperations ==
  ASSUME AllFit, NEW w \in Workers
  PROVE  /\ work[w] \in Job
         /\ work[w].pc \in {"reach", "check", "save", "pin", "block", "write", "install", "wait",
                            "nat", "udp", "control"} => SettingUp(work[w])
         /\ work[w].pc \in {"uninstall", "unpin", "unblock", "close_udp", "close_control", "no_nat",
                            "mark", "remove"} => CleaningUp(work[w])
         /\ work[w].pc = "load" => work[w].x \in Ids /\ work[w].op \in CleaningOps
         /\ work[w].pc = "release" => work[w].x \in Ids /\ work[w].op \in CleaningOps \cup {"connect"}
         /\ work[w].pc = "status" => work[w].x \in Ids /\ work[w].op = "watch"
         /\ work[w].pc \in {"next", "inspect"} => work[w].op \in CleaningOps
<1>1. work[w] \in Job
  BY DEF AllFit
<1> QED
  BY <1>1 DEF Job, Fits, SettingUp, CleaningUp, SetUpSteps, CleanUpSteps

\* Where a clean-up goes on when a step of it fails.
LEMMA AbortedFits ==
  ASSUME AllFit, NEW w \in Workers, work[w].x \in Ids, work[w].op \in CleaningOps
  PROVE  Aborted(w) \in Job
BY ReturnedFits DEF AllFit, Aborted

-----------------------------------------------------------------------------
(* Types *)

\* The variables besides work.
Shapes ==
  /\ server \in [Sessions -> {"unused", "active", "revoked", "disconnected"}]
  /\ ended \subseteq Sessions
  /\ snap \in [Ids -> [state : {"none", "incomplete", "completed"}, e : Endpoints \cup {None}]]
  /\ routes \subseteq Endpoints
  /\ rules \subseteq {"ipv6", "udp", "control"} \X Ids
  /\ nat \in BOOLEAN
  /\ tunnel \in Ids \cup {None}
  /\ file \in Ids \cup {None}
  /\ faults \in 0..MaxFaults

Typed == Shapes /\ AllFit

LEMMA TypedInit == Init => Typed
<1> SUFFICES ASSUME Init PROVE Typed
  OBVIOUS
<1>1. snap \in [Ids -> [state : {"none", "incomplete", "completed"}, e : Endpoints \cup {None}]]
  BY DEF Init, NoSnapshot
<1>2. Shapes
  <2>1. 0 \in 0..MaxFaults
    BY AgentAssumption
  <2> QED
    BY <1>1, <2>1 DEF Init, Shapes
<1>3. AllFit
  BY IdleFits DEF Init, AllFit
<1> QED
  BY <1>2, <1>3 DEF Typed

\* The steps of a set-up.
LEMMA TypedSetUp ==
  ASSUME Typed, NEW w \in Workers,
         \/ Reach(w) \/ CheckConflicts(w) \/ SaveSnapshot(w) \/ PinRoute(w) \/ AddRule(w)
         \/ CreateNAT(w) \/ WriteConfig(w) \/ InstallTunnel(w) \/ WaitForTunnel(w)
  PROVE  Typed'
<1> USE DEF Typed
<1>1. SettingUp(work[w])
  BY StepsTellOperations, Zenon
     DEF Reach, CheckConflicts, SaveSnapshot, PinRoute, AddRule, CreateNAT, WriteConfig,
         InstallTunnel, WaitForTunnel, At, RuleAdded
<1>2. Failed(w) \in Job
  BY <1>1, FailedFits
<1>3. Proceeds(w) => AllFit' /\ faults' = faults
  BY <1>1, ProceedsFits
<1>4. Breaks(w, Failed(w)) => AllFit' /\ faults' \in 0..MaxFaults
  BY <1>2, BreaksFits DEF Shapes
<1>5. Fails(w) => AllFit' /\ faults' = faults
  BY <1>2, BecomesFits DEF Fails
<1>6. work[w].x \in Ids /\ work[w].e \in Endpoints \cup {None} /\ work[w].pc \in Commands
  BY <1>1, StepsTellOperations DEF SettingUp, Job, Work
<1>7. AllFit' /\ faults' \in 0..MaxFaults
  BY <1>3, <1>4, <1>5
     DEF Reach, CheckConflicts, SaveSnapshot, PinRoute, AddRule, CreateNAT, WriteConfig,
         InstallTunnel, WaitForTunnel, Shapes
<1>8. Shapes'
  <2>1. snap' \in [Ids -> [state : {"none", "incomplete", "completed"}, e : Endpoints \cup {None}]]
    BY <1>6 DEF Reach, CheckConflicts, SaveSnapshot, PinRoute, AddRule, CreateNAT, WriteConfig,
                InstallTunnel, WaitForTunnel, Shapes
  <2>2. routes' \subseteq Endpoints
    <3>1. At(w, "pin") => work[w].e \in Endpoints
      BY <1>1 DEF SettingUp, SetUpSteps, At
    <3> QED
      BY <3>1 DEF Reach, CheckConflicts, SaveSnapshot, PinRoute, AddRule, CreateNAT, WriteConfig,
                  InstallTunnel, WaitForTunnel, Shapes, network
  <2>3. rules' \subseteq {"ipv6", "udp", "control"} \X Ids
    <3>1. AddRule(w) => RuleAdded[work[w].pc] \in {"ipv6", "udp", "control"}
      BY DEF AddRule, RuleAdded
    <3> QED
      BY <1>6, <3>1 DEF Reach, CheckConflicts, SaveSnapshot, PinRoute, AddRule, CreateNAT, WriteConfig,
                  InstallTunnel, WaitForTunnel, Shapes, network
  <2> QED
    BY <1>6, <1>7, <2>1, <2>2, <2>3
       DEF Reach, CheckConflicts, SaveSnapshot, PinRoute, AddRule, CreateNAT, WriteConfig,
           InstallTunnel, WaitForTunnel, Shapes, network
<1> QED
  BY <1>7, <1>8

\* The steps of a clean-up, and the report to the server.
LEMMA TypedCleanUp ==
  ASSUME Typed, NEW w \in Workers,
         \/ LoadSnapshot(w) \/ UninstallTunnel(w) \/ UnpinRoute(w) \/ RemoveRule(w)
         \/ RemoveNAT(w) \/ MarkCompleted(w) \/ RemoveConfig(w)
  PROVE  Typed'
<1> USE DEF Typed
<1>1. /\ work[w].x \in Ids /\ work[w].op \in CleaningOps /\ work[w] \in Job
      /\ work[w].pc = "load" \/ CleaningUp(work[w])
  BY StepsTellOperations, Zenon
     DEF LoadSnapshot, UninstallTunnel, UnpinRoute, RemoveRule, RemoveNAT, MarkCompleted,
         RemoveConfig, At, RuleRemoved, CleaningUp
<1>2. Aborted(w) \in Job /\ Returned(work[w], TRUE) \in Job
  BY <1>1, AbortedFits, ReturnedFits
<1>3. Breaks(w, Aborted(w)) \/ Breaks(w, Returned(work[w], TRUE)) => AllFit' /\ faults' \in 0..MaxFaults
  BY <1>2, BreaksFits DEF Shapes
<1>4. CASE LoadSnapshot(w)
  <2> DEFINE loaded == [work[w] EXCEPT !.pc = "uninstall", !.e = snap[work[w].x].e]
  <2>1. snap[work[w].x].e \in Endpoints \cup {None}
    BY <1>1 DEF Shapes
  <2>2. loaded \in Job
    BY <1>1, <2>1, CommandSet DEF Job, Work, Fits, CleaningUp, CleanUpSteps
  <2>3. AllFit' /\ faults' \in 0..MaxFaults
    BY <1>2, <1>3, <1>4, <2>2, BecomesFits DEF LoadSnapshot, Shapes
  <2> QED
    BY <1>4, <2>3 DEF LoadSnapshot, Shapes, network
<1>5. CASE RemoveConfig(w)
  <2>1. AllFit' /\ faults' \in 0..MaxFaults
    BY <1>2, <1>3, <1>5, BecomesFits DEF RemoveConfig, Shapes
  <2> QED
    BY <1>5, <2>1 DEF RemoveConfig, Shapes, network
<1>6. CASE \/ UninstallTunnel(w) \/ UnpinRoute(w) \/ RemoveRule(w) \/ RemoveNAT(w) \/ MarkCompleted(w)
  <2>1. CleaningUp(work[w]) /\ work[w].pc # "remove"
    BY <1>1, <1>6 DEF UninstallTunnel, UnpinRoute, RemoveRule, RemoveNAT, MarkCompleted, At, RuleRemoved
  <2>2. Proceeds(w) => AllFit' /\ faults' = faults
    BY <2>1, ProceedsFits
  <2>3. AllFit' /\ faults' \in 0..MaxFaults
    BY <1>3, <1>6, <2>2
       DEF UninstallTunnel, UnpinRoute, RemoveRule, RemoveNAT, MarkCompleted, Shapes
  <2>4. snap' \in [Ids -> [state : {"none", "incomplete", "completed"}, e : Endpoints \cup {None}]]
    BY <1>1, <1>6
       DEF UninstallTunnel, UnpinRoute, RemoveRule, RemoveNAT, MarkCompleted, Shapes
  <2>5. UNCHANGED <<server, ended, file>> /\ routes' \subseteq routes /\ rules' \subseteq rules
        /\ nat' \in {nat, FALSE} /\ tunnel' \in {tunnel, None}
    BY <1>6, Zenon DEF UninstallTunnel, UnpinRoute, RemoveRule, RemoveNAT, MarkCompleted, network
  <2> QED
    BY <2>3, <2>4, <2>5 DEF Shapes
<1> QED
  BY <1>4, <1>5, <1>6

\* The report to the server and the loops.
LEMMA TypedLoops ==
  ASSUME Typed, NEW w \in Workers,
         Release(w) \/ Inspect(w) \/ Status(w) \/ NextSession(w) \/ LoopDone(w) \/ Heartbeat(w)
  PROVE  Typed'
<1> USE DEF Typed
<1>0. work[w] \in Job
  BY StepsTellOperations
<1>1. CASE Release(w)
  <2>1. Released(work[w]) \in Job
    BY <1>0, <1>1, ReleasedFits DEF Release, At
  <2>2. AllFit' /\ faults' \in 0..MaxFaults
    BY <1>1, <2>1, BecomesFits, BreaksFits DEF Release, Shapes
  <2>3. server' \in [Sessions -> {"unused", "active", "revoked", "disconnected"}]
    BY <1>1 DEF Release, Shapes
  <2> QED
    BY <1>1, <2>2, <2>3 DEF Release, Shapes, network
<1>2. CASE Inspect(w) \/ Heartbeat(w)
  <2> DEFINE job(op, todo) == [Idle EXCEPT !.pc = "next", !.op = op, !.todo = todo]
  <2>1. \A op \in CleaningOps, todo \in SUBSET Ids : job(op, todo) \in Job
    BY CommandSet DEF Idle, Job, Work, Fits, CleaningOps
  <2>2. Incomplete \cap Consumers \in SUBSET Ids /\ MustDisconnect \in SUBSET Ids
    BY DEF Incomplete, MustDisconnect, Ids, Consumers
  <2>3. job("watch", Incomplete \cap Consumers) \in Job /\ job("forced", MustDisconnect) \in Job
    BY <2>1, <2>2 DEF CleaningOps
  <2>4. AllFit' /\ faults' \in 0..MaxFaults
    BY <1>2, <2>3, IdleFits, BecomesFits, BreaksFits DEF Inspect, Heartbeat, Starts, Shapes
  <2> QED
    BY <1>2, <2>4 DEF Inspect, Heartbeat, Shapes, network
<1>3. CASE Status(w)
  <2>1. work[w].op = "watch" /\ work[w].x \in Ids
    BY <1>3, StepsTellOperations DEF Status, At
  <2>2. [work[w] EXCEPT !.pc = "next"] \in Job /\ [work[w] EXCEPT !.pc = "load"] \in Job
    BY <1>0, <2>1, CommandSet DEF Job, Work, Fits, CleaningOps
  <2>3. AllFit' /\ faults' \in 0..MaxFaults
    BY <1>3, <2>2, BecomesFits, BreaksFits DEF Status, Shapes
  <2> QED
    BY <1>3, <2>3 DEF Status, Shapes, network
<1>4. CASE NextSession(w)
  <2>1. PICK x \in work[w].todo :
          Becomes(w, [work[w] EXCEPT !.x = x, !.todo = @ \ {x},
                        !.pc = IF work[w].op = "watch" THEN "status" ELSE "load"])
    BY <1>4 DEF NextSession
  <2>2. work[w].op \in CleaningOps
    BY <1>4, StepsTellOperations DEF NextSession, At
  <2>3. x \in Ids /\ work[w].todo \ {x} \in SUBSET Ids
    BY <1>0 DEF Job, Work
  <2>4. [work[w] EXCEPT !.x = x, !.todo = work[w].todo \ {x},
           !.pc = IF work[w].op = "watch" THEN "status" ELSE "load"] \in Job
    <3> DEFINE job(pc) == [work[w] EXCEPT !.x = x, !.todo = work[w].todo \ {x}, !.pc = pc]
    <3>1. work[w].op = "watch" => job("status") \in Job
      BY <1>0, <2>2, <2>3, CommandSet DEF Job, Work, Fits
    <3>2. job("load") \in Job
      BY <1>0, <2>2, <2>3, CommandSet DEF Job, Work, Fits
    <3> QED
      BY <3>1, <3>2
  <2>5. AllFit'
    BY <2>1, <2>4, BecomesFits
  <2> QED
    BY <1>4, <2>5 DEF NextSession, Shapes, network
<1>5. CASE LoopDone(w)
  <2>1. work[w].op \in CleaningOps
    BY <1>5, StepsTellOperations DEF LoopDone, At
  <2>2. [work[w] EXCEPT !.pc = "inspect"] \in Job
    BY <1>0, <2>1, CommandSet DEF Job, Work, Fits
  <2>3. [Idle EXCEPT !.pc = "exited"] \in Job
    BY CommandSet DEF Idle, Job, Work, Fits
  <2>4. AllFit'
    BY <1>5, <2>2, <2>3, IdleFits DEF LoopDone, AllFit
  <2> QED
    BY <1>5, <2>4 DEF LoopDone, Shapes, network
<1> QED
  BY <1>1, <1>2, <1>3, <1>4, <1>5

\* What the user, the window, the server and a crash begin.
LEMMA TypedRequests ==
  ASSUME Typed,
         \/ \E w \in Handlers :
              \/ \E x \in Sessions, e \in Endpoints : CreateSession(w, x, e)
              \/ \E m \in Manual : InitConsumer(w, m)
              \/ \E g \in Gateways : ProviderInit(w, g)
              \/ \E x \in Ids : Disconnect(w, x)
              \/ Repair(w)
         \/ \E v \in Windows : Shutdown(v) \/ Launch(v)
         \/ \E x \in Sessions : ServerRevokes(x) \/ OwnerDisconnects(x) \/ ShareEnds(x) \/ ShareRevives(x)
         \/ Crash
  PROVE  Typed'
<1> USE DEF Typed
<1>1. ASSUME NEW w \in Handlers, NEW x \in Sessions, NEW e \in Endpoints, CreateSession(w, x, e)
      PROVE  Typed'
  <2> DEFINE job == [pc |-> "reach", op |-> "connect", x |-> x, e |-> e, todo |-> {}]
  <2>1. job \in Job
    BY AgentAssumption, CommandSet
       DEF Job, Work, Fits, SettingUp, SetUpSteps, Ids, Consumers
  <2>2. w \in Workers
    BY DEF Workers
  <2>3. AllFit' /\ faults' \in 0..MaxFaults
    BY <1>1, <2>1, <2>2, IdleFits, BecomesFits, BreaksFits DEF CreateSession, Shapes
  <2>4. server' \in [Sessions -> {"unused", "active", "revoked", "disconnected"}]
    BY <1>1 DEF CreateSession, Shapes
  <2> QED
    BY <1>1, <2>3, <2>4 DEF CreateSession, Shapes, network
<1>2. ASSUME NEW w \in Handlers, NEW m \in Manual, InitConsumer(w, m)
      PROVE  Typed'
  <2>1. InitEndpoint[m] \in Endpoints
    BY AgentAssumption
  <2>2. m \in Ids /\ m \notin Gateways
    BY AgentAssumption DEF Ids, Consumers
  <2>3. [Idle EXCEPT !.pc = "check", !.op = "init", !.x = m, !.e = InitEndpoint[m]] \in Job
    BY <2>1, <2>2, CommandSet DEF Idle, Job, Work, Fits, SettingUp, SetUpSteps
  <2>4. AllFit'
    BY <1>2, <2>3, BecomesFits DEF InitConsumer, Workers
  <2> QED
    BY <1>2, <2>4 DEF InitConsumer, Shapes, network
<1>3. ASSUME NEW w \in Handlers, NEW g \in Gateways, ProviderInit(w, g)
      PROVE  Typed'
  <2>1. g \in Ids
    BY DEF Ids
  <2>2. [Idle EXCEPT !.pc = "check", !.op = "init", !.x = g] \in Job
    BY <2>1, CommandSet DEF Idle, Job, Work, Fits, SettingUp, SetUpSteps
  <2>3. AllFit'
    BY <1>3, <2>2, BecomesFits DEF ProviderInit, Workers
  <2> QED
    BY <1>3, <2>3 DEF ProviderInit, Shapes, network
<1>4. ASSUME NEW w \in Handlers, NEW x \in Ids, Disconnect(w, x)
      PROVE  Typed'
  <2>1. [Idle EXCEPT !.pc = "load", !.op = "disconnect", !.x = x] \in Job
    BY CommandSet DEF Idle, Job, Work, Fits, CleaningOps
  <2>2. AllFit'
    BY <1>4, <2>1, BecomesFits DEF Disconnect, Workers
  <2> QED
    BY <1>4, <2>2 DEF Disconnect, Shapes, network
<1>5. ASSUME NEW w \in Workers, Repair(w) \/ Shutdown(w) \/ Launch(w)
      PROVE  Typed'
  <2> DEFINE job(op) == [Idle EXCEPT !.pc = "next", !.op = op, !.todo = Incomplete]
  <2>1. job("repair") \in Job /\ job("shutdown") \in Job
    BY CommandSet DEF Idle, Job, Work, Fits, CleaningOps, Incomplete
  <2>2. AllFit'
    BY <1>5, <2>1, IdleFits, BecomesFits DEF Repair, Shutdown, Launch, Starts
  <2> QED
    BY <1>5, <2>2 DEF Repair, Shutdown, Launch, Starts, Shapes, network
<1>6. ASSUME NEW x \in Sessions, ServerRevokes(x) \/ OwnerDisconnects(x) \/ ShareEnds(x) \/ ShareRevives(x)
      PROVE  Typed'
  <2>1. server' \in [Sessions -> {"unused", "active", "revoked", "disconnected"}]
    BY <1>6 DEF ServerRevokes, OwnerDisconnects, ShareEnds, ShareRevives, Shapes
  <2> QED
    BY <1>6, <2>1 DEF ServerRevokes, OwnerDisconnects, ShareEnds, ShareRevives, Shapes, network, AllFit
<1>7. CASE Crash
  <2>1. AllFit'
    BY <1>7, IdleFits DEF Crash, AllFit
  <2>2. faults' \in 0..MaxFaults
    BY <1>7, AgentAssumption DEF Crash, Shapes
  <2> QED
    BY <1>7, <2>1, <2>2 DEF Crash, Shapes, network
<1> QED
  BY <1>1, <1>2, <1>3, <1>4, <1>5, <1>6, <1>7 DEF Workers

\* Every action leaves values of the right types and jobs that fit.
LEMMA TypedNext == Typed /\ [Next]_vars => Typed'
<1> SUFFICES ASSUME Typed, [Next]_vars PROVE Typed'
  OBVIOUS
<1>1. ASSUME NEW w \in Workers, Runs(w) PROVE Typed'
  BY <1>1, TypedSetUp, TypedCleanUp, TypedLoops DEF Runs
<1>2. CASE UNCHANGED vars
  BY <1>2 DEF vars, network, Typed, Shapes, AllFit
<1> QED
  BY <1>1, <1>2, TypedRequests DEF Next

\* In every reachable state the variables have their types: no worker, step or
\* failure takes the agent to a command, an operation or a status that the code
\* does not know.
THEOREM Typing == Spec => []TypeOK
<1>1. Typed => TypeOK
  BY DEF Typed, Shapes, AllFit, Job, TypeOK
<1> QED
  BY <1>1, TypedInit, TypedNext, PTL DEF Spec

-----------------------------------------------------------------------------
(* Whatever is on the computer is recorded *)

Recorded(x) == snap[x].state # "none"

\* A set-up behind its third step has a snapshot, which names the endpoint that
\* it uses; a clean-up has loaded one.
Prepared(j) ==
  /\ SettingUp(j) =>
       /\ j.x \in Manual => j.e = InitEndpoint[j.x]
       /\ j.x \in Sessions => server[j.x] # "unused" /\ (Recorded(j.x) => snap[j.x].e = j.e)
       /\ j.pc \notin {"reach", "check", "save"} => Recorded(j.x)
  /\ CleaningUp(j) => Recorded(j.x)

AllPrepared == \A w \in Workers : Prepared(work[w])

\* No two workers set up one session: the server hands out each id once.
OneSetUp ==
  \A v, w \in Workers :
    /\ SettingUp(work[v]) /\ SettingUp(work[w])
    /\ work[v].x = work[w].x /\ work[v].x \in Sessions
    => v = w

Snapshots ==
  \A x \in Ids : Recorded(x) =>
    /\ x \in Manual => snap[x].e = InitEndpoint[x]
    /\ x \in Sessions => server[x] # "unused"

Resources ==
  /\ \A e \in routes : \E x \in Consumers : Recorded(x) /\ snap[x].e = e
  /\ \A r \in rules : Recorded(r[2])
  /\ nat => \E g \in Gateways : Recorded(g)
  /\ tunnel # None => Recorded(tunnel)
  /\ file # None => Recorded(file)

Records == AllPrepared /\ OneSetUp /\ Snapshots

\* No snapshot is lost, and none of a consumer is given another endpoint.
SnapshotsStay ==
  \A x \in Ids : Recorded(x) => Recorded(x)' /\ (x \in Consumers => snap'[x].e = snap[x].e)

\* Only the set-up of worker w makes a snapshot.
OnlySaves(w) ==
  \A x \in Ids : Recorded(x)' =>
    \/ Recorded(x)
    \/ SettingUp(work[w]) /\ x = work[w].x /\ (x \in Consumers => snap'[x].e = work[w].e)

SessionsStay == \A x \in Sessions : server[x] # "unused" => server'[x] # "unused"

\* A step of worker w that keeps the snapshots and leaves w prepared.
LEMMA RecordsStay ==
  ASSUME Typed, Typed', Records, NEW w \in Workers,
         \A v \in Workers \ {w} : work'[v] = work[v] \/ work'[v] = Idle,
         SnapshotsStay, OnlySaves(w), SessionsStay,
         Prepared(work[w])',
         SettingUp(work'[w]) /\ work'[w].x \in Sessions =>
           \/ SettingUp(work[w]) /\ work[w].x = work'[w].x
           \/ server[work'[w].x] = "unused"
  PROVE  Records'
<1>1. ~ SettingUp(Idle) /\ ~ CleaningUp(Idle)
  BY DEF Idle, SettingUp, CleaningUp, CleaningOps
<1>2. ASSUME NEW v \in Workers PROVE Prepared(work[v])'
  <2>1. CASE v = w
    BY <2>1
  <2>2. CASE v # w /\ work'[v] = Idle
    BY <1>1, <2>2 DEF Prepared
  <2>3. CASE v # w /\ work'[v] = work[v]
    <3>1. Prepared(work[v])
      BY DEF Records, AllPrepared
    <3>2. ASSUME SettingUp(work[v]), work[v].x \in Sessions
          PROVE  server'[work[v].x] # "unused"
                 /\ (snap'[work[v].x].state # "none" => snap'[work[v].x].e = work[v].e)
      <4>1. work[v].x \in Ids /\ work[v].x \in Consumers
        BY <3>2 DEF Ids, Consumers
      <4>2. ~ (SettingUp(work[w]) /\ work[v].x = work[w].x)
        BY <2>3, <3>2 DEF Records, OneSetUp
      <4>3. server[work[v].x] # "unused" /\ (Recorded(work[v].x) => snap[work[v].x].e = work[v].e)
        BY <3>1, <3>2 DEF Prepared
      <4> QED
        BY <3>2, <4>1, <4>2, <4>3 DEF SnapshotsStay, OnlySaves, SessionsStay, Recorded
    <3>3. Recorded(work[v].x) /\ work[v].x \in Ids => snap'[work[v].x].state # "none"
      BY DEF SnapshotsStay, Recorded
    <3>4. SettingUp(work[v]) \/ CleaningUp(work[v]) => work[v].x \in Ids
      BY DEF SettingUp, CleaningUp
    <3> QED
      BY <2>3, <3>1, <3>2, <3>3, <3>4 DEF Prepared, Recorded
  <2> QED
    BY <2>1, <2>2, <2>3
<1>3. OneSetUp'
  <2> SUFFICES ASSUME NEW u \in Workers, NEW v \in Workers,
                      SettingUp(work'[u]), SettingUp(work'[v]),
                      work'[u].x = work'[v].x, work'[u].x \in Sessions
               PROVE  u = v
    BY DEF OneSetUp
  <2>1. ASSUME NEW y \in Workers, SettingUp(work[y]), work[y].x \in Sessions
        PROVE  server[work[y].x] # "unused"
    BY <2>1 DEF Records, AllPrepared, Prepared
  <2>2. \A y \in Workers \ {w} : SettingUp(work'[y]) => work'[y] = work[y]
    BY <1>1
  <2>3. CASE u = w /\ v # w
    BY <2>1, <2>2, <2>3 DEF Records, OneSetUp
  <2>4. CASE u # w /\ v = w
    BY <2>1, <2>2, <2>4 DEF Records, OneSetUp
  <2>5. CASE u # w /\ v # w
    BY <2>2, <2>5 DEF Records, OneSetUp
  <2> QED
    BY <2>3, <2>4, <2>5
<1>4. Snapshots'
  <2> SUFFICES ASSUME NEW x \in Ids, Recorded(x)'
               PROVE  /\ x \in Manual => snap'[x].e = InitEndpoint[x]
                      /\ x \in Sessions => server'[x] # "unused"
    BY DEF Snapshots
  <2>1. CASE Recorded(x)
    BY <2>1 DEF Records, Snapshots, SnapshotsStay, SessionsStay, Consumers
  <2>2. CASE ~ Recorded(x)
    <3>1. SettingUp(work[w]) /\ x = work[w].x /\ (x \in Consumers => snap'[x].e = work[w].e)
      BY <2>2 DEF OnlySaves
    <3>2. Prepared(work[w])
      BY DEF Records, AllPrepared
    <3> QED
      BY <3>1, <3>2 DEF Prepared, SessionsStay, Consumers
  <2> QED
    BY <2>1, <2>2
<1> QED
  BY <1>2, <1>3, <1>4 DEF Records, AllPrepared

\* Resources that stay or go keep their snapshots.
LEMMA ResourcesStay ==
  ASSUME Typed, Typed', Resources, SnapshotsStay,
         \A e \in routes' \ routes : \E x \in Consumers : Recorded(x)' /\ snap'[x].e = e,
         \A r \in rules' \ rules : Recorded(r[2])',
         nat' => nat \/ \E g \in Gateways : Recorded(g)',
         tunnel' \in {tunnel, file, None},
         file' # file => file' = None \/ Recorded(file)'
  PROVE  Resources'
<1>1. \A x \in Ids : Recorded(x) => Recorded(x)' /\ (x \in Consumers => snap'[x].e = snap[x].e)
  BY DEF SnapshotsStay
<1>2. \A e \in routes' : \E x \in Consumers : Recorded(x)' /\ snap'[x].e = e
  BY <1>1 DEF Resources, Ids
<1>3. \A r \in rules' : Recorded(r[2])'
  <2>1. \A r \in rules : r[2] \in Ids
    BY DEF Typed, Shapes
  <2> QED
    BY <1>1, <2>1 DEF Resources
<1>4. nat' => \E g \in Gateways : Recorded(g)'
  BY <1>1 DEF Resources, Ids
<1>5. /\ tunnel' # None => Recorded(tunnel)'
      /\ file' # None => Recorded(file)'
  <2>1. tunnel \in Ids \cup {None} /\ file \in Ids \cup {None}
    BY DEF Typed, Shapes
  <2>2. ASSUME NEW y \in Ids, Recorded(y) PROVE snap'[y].state # "none"
    BY <1>1, <2>2 DEF Recorded
  <2> QED
    BY <2>1, <2>2 DEF Resources, Recorded
<1> QED
  BY <1>2, <1>3, <1>4, <1>5 DEF Resources

LEMMA RecordedInit == Init => Records /\ Resources
<1> SUFFICES ASSUME Init PROVE Records /\ Resources
  OBVIOUS
<1>1. ~ SettingUp(Idle) /\ ~ CleaningUp(Idle)
  BY DEF Idle, SettingUp, CleaningUp, CleaningOps
<1>2. \A x \in Ids : ~ Recorded(x)
  BY DEF Init, Recorded, NoSnapshot
<1> QED
  BY <1>1, <1>2
     DEF Init, Records, AllPrepared, Prepared, OneSetUp, Snapshots, Resources

\* A step of a set-up goes on with the same id and endpoint, or ends the set-up.
LEMMA SetUpMoves ==
  ASSUME Typed, NEW w \in Workers, SettingUp(work[w]),
         Proceeds(w) \/ Breaks(w, Failed(w)) \/ Fails(w)
  PROVE  /\ \A v \in Workers \ {w} : work'[v] = work[v]
         /\ ~ CleaningUp(work'[w])
         /\ SettingUp(work'[w]) =>
              /\ work'[w].x = work[w].x /\ work'[w].e = work[w].e
              /\ work'[w].pc \notin {"reach", "check", "save"} =>
                   work[w].pc \notin {"reach", "check"}
<1>1. work[w] \in Job /\ work \in [Workers -> Job]
  BY DEF Typed, AllFit
<1>2. \A v \in Workers \ {w} : work'[v] = work[v]
  BY <1>1 DEF Proceeds, Breaks, Fails, Becomes
<1>3. CASE Breaks(w, Failed(w)) \/ Fails(w)
  <2>1. work'[w] = Failed(w)
    BY <1>1, <1>3 DEF Breaks, Fails, Becomes
  <2>2. work'[w].pc \in {"release", "idle"}
    BY <1>1, <2>1 DEF Failed, Idle, Job, Work
  <2> QED
    BY <1>2, <2>2 DEF SettingUp, CleaningUp, SetUpSteps, CleanUpSteps
<1>4. CASE Proceeds(w)
  <2> DEFINE n == Order(work[w].x)[work[w].pc]
  <2>1. work'[w] = IF n = "idle" THEN Idle ELSE [work[w] EXCEPT !.pc = n]
    BY <1>1, <1>4 DEF Proceeds, Becomes
  <2>2. work[w].pc = "reach" => n = "check"
    BY ConsumerOrder DEF SettingUp, SetUpSteps
  <2>3. work[w].pc = "check" => n = "save"
    BY ConsumerOrder, ProviderOrder
  <2>4. CASE n = "idle"
    BY <1>2, <2>1, <2>4 DEF Idle, SettingUp, CleaningUp, CleaningOps
  <2>5. CASE n # "idle"
    <3>1. work'[w].pc = n /\ work'[w].x = work[w].x /\ work'[w].e = work[w].e
          /\ work'[w].op = work[w].op
      BY <1>1, <2>1, <2>5 DEF Job, Work
    <3>2. ~ CleaningUp(work'[w])
      BY <3>1 DEF SettingUp, CleaningUp, CleaningOps
    <3> QED
      BY <1>2, <2>2, <2>3, <3>1, <3>2
  <2> QED
    BY <2>4, <2>5
<1> QED
  BY <1>3, <1>4

\* A step of a clean-up goes on with the same id, or ends the clean-up.
LEMMA CleanUpMoves ==
  ASSUME Typed, NEW w \in Workers, CleaningUp(work[w]),
         \/ Proceeds(w) /\ work[w].pc # "remove"
         \/ Breaks(w, Aborted(w))
         \/ Becomes(w, Returned(work[w], TRUE)) \/ Breaks(w, Returned(work[w], TRUE))
  PROVE  /\ \A v \in Workers \ {w} : work'[v] = work[v]
         /\ ~ SettingUp(work'[w])
         /\ CleaningUp(work'[w]) => work'[w].x = work[w].x
<1>1. work[w] \in Job /\ work \in [Workers -> Job]
  BY DEF Typed, AllFit
<1>2. \A v \in Workers \ {w} : work'[v] = work[v]
  BY <1>1 DEF Proceeds, Breaks, Becomes
<1>3. CASE \/ Breaks(w, Aborted(w))
           \/ Becomes(w, Returned(work[w], TRUE)) \/ Breaks(w, Returned(work[w], TRUE))
  <2>1. \E ok \in BOOLEAN : work'[w] = Returned(work[w], ok)
    BY <1>1, <1>3 DEF Breaks, Becomes, Aborted
  <2>2. work'[w].pc \in {"release", "next", "idle"}
    BY <1>1, <2>1 DEF Returned, CleaningUp, CleaningOps, Idle, Job, Work
  <2> QED
    BY <1>2, <2>2 DEF SettingUp, CleaningUp, SetUpSteps, CleanUpSteps
<1>4. CASE Proceeds(w) /\ work[w].pc # "remove"
  <2> DEFINE n == Order(work[w].x)[work[w].pc]
  <2>1. work'[w] = IF n = "idle" THEN Idle ELSE [work[w] EXCEPT !.pc = n]
    BY <1>1, <1>4 DEF Proceeds, Becomes
  <2>2. CASE n = "idle"
    BY <1>2, <2>1, <2>2 DEF Idle, SettingUp, CleaningUp, CleaningOps
  <2>3. CASE n # "idle"
    <3>1. work'[w].x = work[w].x /\ work'[w].op = work[w].op
      BY <1>1, <2>1, <2>3 DEF Job, Work
    <3> QED
      BY <1>2, <3>1 DEF SettingUp, CleaningUp, CleaningOps
  <2> QED
    BY <2>2, <2>3
<1> QED
  BY <1>3, <1>4

-----------------------------------------------------------------------------
(* Every action keeps the records *)

LEMMA RecordedSetUp ==
  ASSUME Typed, Typed', Records, Resources, NEW w \in Workers,
         \/ Reach(w) \/ CheckConflicts(w) \/ SaveSnapshot(w) \/ PinRoute(w) \/ AddRule(w)
         \/ CreateNAT(w) \/ WriteConfig(w) \/ InstallTunnel(w) \/ WaitForTunnel(w)
  PROVE  (Records /\ Resources)'
<1> DEFINE x == work[w].x
           e == work[w].e
<1>1. SettingUp(work[w]) /\ Prepared(work[w]) /\ x \in Ids /\ (x \in Consumers => x \notin Gateways)
  <2>1. SettingUp(work[w])
    BY StepsTellOperations, Zenon
       DEF Reach, CheckConflicts, SaveSnapshot, PinRoute, AddRule, CreateNAT, WriteConfig,
           InstallTunnel, WaitForTunnel, At, RuleAdded, Typed
  <2> QED
    BY <2>1, AgentAssumption DEF SettingUp, Records, AllPrepared
<1>2. Proceeds(w) \/ Breaks(w, Failed(w)) \/ Fails(w)
  BY DEF Reach, CheckConflicts, SaveSnapshot, PinRoute, AddRule, CreateNAT, WriteConfig,
         InstallTunnel, WaitForTunnel
<1>3. /\ \A v \in Workers \ {w} : work'[v] = work[v]
      /\ ~ CleaningUp(work'[w])
      /\ SettingUp(work'[w]) =>
           /\ work'[w].x = x /\ work'[w].e = e
           /\ work'[w].pc \notin {"reach", "check", "save"} => work[w].pc \notin {"reach", "check"}
  BY <1>1, <1>2, SetUpMoves
<1>4. UNCHANGED server
  BY DEF Reach, CheckConflicts, SaveSnapshot, PinRoute, AddRule, CreateNAT, WriteConfig,
         InstallTunnel, WaitForTunnel
<1>5. \/ UNCHANGED snap
      \/ SaveSnapshot(w) /\ snap' = [snap EXCEPT ![x] = [state |-> "incomplete", e |-> e]]
  BY DEF Reach, CheckConflicts, SaveSnapshot, PinRoute, AddRule, CreateNAT, WriteConfig,
         InstallTunnel, WaitForTunnel
<1>6. SnapshotsStay /\ OnlySaves(w)
  <2>1. CASE UNCHANGED snap
    BY <2>1 DEF SnapshotsStay, OnlySaves, Recorded
  <2>2. CASE snap' = [snap EXCEPT ![x] = [state |-> "incomplete", e |-> e]]
    <3>1. \A y \in Ids : snap'[y] = IF y = x THEN [state |-> "incomplete", e |-> e] ELSE snap[y]
      BY <2>2 DEF Typed, Shapes
    <3>2. Recorded(x) /\ x \in Consumers => snap[x].e = e
      BY <1>1 DEF Records, Snapshots, Prepared, Consumers
    <3> QED
      BY <1>1, <3>1, <3>2 DEF SnapshotsStay, OnlySaves, Recorded
  <2> QED
    BY <1>5, <2>1, <2>2
<1>7. SettingUp(work'[w]) /\ work'[w].pc \notin {"reach", "check", "save"} => snap'[x].state # "none"
  <2> SUFFICES ASSUME SettingUp(work'[w]), work'[w].pc \notin {"reach", "check", "save"}
               PROVE  snap'[x].state # "none"
    OBVIOUS
  <2>1. CASE work[w].pc # "save"
    BY <1>1, <1>3, <1>6, <2>1 DEF Prepared, SnapshotsStay, Recorded
  <2>2. CASE work[w].pc = "save"
    <3>1. work[w] \in Job /\ work \in [Workers -> Job]
      BY DEF Typed, AllFit
    <3>2. SaveSnapshot(w)
      BY <2>2 DEF Reach, CheckConflicts, SaveSnapshot, PinRoute, AddRule, CreateNAT, WriteConfig,
                  InstallTunnel, WaitForTunnel, At, RuleAdded
    <3>3. CASE UNCHANGED snap /\ Breaks(w, Failed(w))
      <4>1. work'[w].pc \in {"release", "idle"}
        BY <3>1, <3>3 DEF Breaks, Becomes, Failed, Idle, Job, Work
      <4> QED
        BY <4>1 DEF SettingUp, SetUpSteps
    <3>4. CASE snap' = [snap EXCEPT ![x] = [state |-> "incomplete", e |-> e]]
      BY <1>1, <3>4 DEF Typed, Shapes
    <3> QED
      BY <3>2, <3>3, <3>4 DEF SaveSnapshot
  <2> QED
    BY <2>1, <2>2
<1>8. Prepared(work[w])'
  BY <1>1, <1>3, <1>4, <1>6, <1>7 DEF Prepared, SnapshotsStay, OnlySaves, Recorded, Consumers
<1>9. SessionsStay
  BY <1>4 DEF SessionsStay
<1>10. Records'
  BY <1>1, <1>3, <1>6, <1>8, <1>9, RecordsStay
<1>11. Resources'
  <2>1. work[w].pc \notin {"reach", "check", "save"} => snap'[x].state # "none" /\ Recorded(x)
    BY <1>1, <1>6 DEF Prepared, SnapshotsStay, Recorded
  <2>2. \A d \in routes' \ routes : \E y \in Consumers : Recorded(y)' /\ snap'[y].e = d
    <3> SUFFICES ASSUME NEW d \in routes' \ routes
                 PROVE  \E y \in Consumers : Recorded(y)' /\ snap'[y].e = d
      OBVIOUS
    <3>1. PinRoute(w) /\ d = e /\ UNCHANGED snap
      BY DEF Reach, CheckConflicts, SaveSnapshot, PinRoute, AddRule, CreateNAT, WriteConfig,
             InstallTunnel, WaitForTunnel, network
    <3>2. x \in Consumers /\ Recorded(x)
      BY <1>1, <2>1, <3>1 DEF PinRoute, At, SettingUp, SetUpSteps, Ids
    <3>3. snap[x].e = e
      BY <1>1, <3>2 DEF Records, Snapshots, Prepared, Consumers
    <3> QED
      BY <3>1, <3>2, <3>3 DEF Recorded
  <2>3. \A r \in rules' \ rules : Recorded(r[2])'
    <3> SUFFICES ASSUME NEW r \in rules' \ rules PROVE Recorded(r[2])'
      OBVIOUS
    <3>1. AddRule(w) /\ r = <<RuleAdded[work[w].pc], x>>
      BY DEF Reach, CheckConflicts, SaveSnapshot, PinRoute, AddRule, CreateNAT, WriteConfig,
             InstallTunnel, WaitForTunnel, network
    <3>2. work[w].pc \notin {"reach", "check", "save"}
      BY <3>1 DEF AddRule, RuleAdded
    <3> QED
      BY <2>1, <3>1, <3>2 DEF Recorded
  <2>4. nat' => nat \/ \E g \in Gateways : Recorded(g)'
    <3> SUFFICES ASSUME nat', ~ nat PROVE \E g \in Gateways : Recorded(g)'
      OBVIOUS
    <3>1. CreateNAT(w)
      BY DEF Reach, CheckConflicts, SaveSnapshot, PinRoute, AddRule, CreateNAT, WriteConfig,
             InstallTunnel, WaitForTunnel, network
    <3>2. x \in Gateways
      BY <1>1, <3>1 DEF CreateNAT, At, SettingUp, SetUpSteps
    <3> QED
      BY <2>1, <3>1, <3>2 DEF CreateNAT, At, Recorded
  <2>5. tunnel' \in {tunnel, file, None}
    BY DEF Reach, CheckConflicts, SaveSnapshot, PinRoute, AddRule, CreateNAT, WriteConfig,
           InstallTunnel, WaitForTunnel, network
  <2>6. file' # file => file' = x /\ snap'[x].state # "none"
    BY <2>1 DEF Reach, CheckConflicts, SaveSnapshot, PinRoute, AddRule, CreateNAT, WriteConfig,
           InstallTunnel, WaitForTunnel, network, At
  <2> QED
    BY <1>6, <2>2, <2>3, <2>4, <2>5, <2>6, ResourcesStay DEF Recorded
<1> QED
  BY <1>10, <1>11

LEMMA RecordedCleanUp ==
  ASSUME Typed, Typed', Records, Resources, NEW w \in Workers,
         \/ UninstallTunnel(w) \/ UnpinRoute(w) \/ RemoveRule(w) \/ RemoveNAT(w)
         \/ MarkCompleted(w) \/ RemoveConfig(w)
  PROVE  (Records /\ Resources)'
<1> DEFINE x == work[w].x
<1>1. CleaningUp(work[w]) /\ x \in Ids /\ Recorded(x)
  <2>1. CleaningUp(work[w])
    BY StepsTellOperations, Zenon
       DEF UninstallTunnel, UnpinRoute, RemoveRule, RemoveNAT, MarkCompleted, RemoveConfig,
           At, RuleRemoved, Typed
  <2> QED
    BY <2>1 DEF CleaningUp, Records, AllPrepared, Prepared
<1>2. \/ Proceeds(w) /\ work[w].pc # "remove"
      \/ Breaks(w, Aborted(w))
      \/ Becomes(w, Returned(work[w], TRUE)) \/ Breaks(w, Returned(work[w], TRUE))
  BY DEF UninstallTunnel, UnpinRoute, RemoveRule, RemoveNAT, MarkCompleted, RemoveConfig,
         At, RuleRemoved
<1>3. /\ \A v \in Workers \ {w} : work'[v] = work[v]
      /\ ~ SettingUp(work'[w])
      /\ CleaningUp(work'[w]) => work'[w].x = x
  BY <1>1, <1>2, CleanUpMoves
<1>4. UNCHANGED server
  BY DEF UninstallTunnel, UnpinRoute, RemoveRule, RemoveNAT, MarkCompleted, RemoveConfig
<1>5. SnapshotsStay /\ OnlySaves(w)
  <2>1. CASE UNCHANGED snap
    BY <2>1 DEF SnapshotsStay, OnlySaves, Recorded
  <2>2. CASE snap' = [snap EXCEPT ![x].state = "completed"]
    <3>1. \A y \in Ids : snap'[y].e = snap[y].e
                         /\ snap'[y].state = IF y = x THEN "completed" ELSE snap[y].state
      BY <1>1, <2>2 DEF Typed, Shapes
    <3> QED
      BY <1>1, <3>1 DEF SnapshotsStay, OnlySaves, Recorded
  <2> QED
    BY <2>1, <2>2
       DEF UninstallTunnel, UnpinRoute, RemoveRule, RemoveNAT, MarkCompleted, RemoveConfig
<1>6. Prepared(work[w])'
  BY <1>1, <1>3, <1>5 DEF Prepared, SnapshotsStay, Recorded
<1>7. SessionsStay
  BY <1>4 DEF SessionsStay
<1>8. Records'
  BY <1>3, <1>5, <1>6, <1>7, RecordsStay
<1>9. routes' \subseteq routes /\ rules' \subseteq rules
      /\ tunnel' \in {tunnel, None} /\ file' \in {file, None}
  BY Zenon DEF UninstallTunnel, UnpinRoute, RemoveRule, RemoveNAT, MarkCompleted, RemoveConfig, network
<1>10. nat' => nat \/ \E g \in Gateways : Recorded(g)'
  BY Zenon DEF UninstallTunnel, UnpinRoute, RemoveRule, RemoveNAT, MarkCompleted, RemoveConfig, network
<1>11. Resources'
  BY <1>5, <1>9, <1>10, ResourcesStay
<1> QED
  BY <1>8, <1>11

\* A step of worker w that changes no resource and no snapshot, sets nothing up
\* and begins at most a clean-up of a recorded id.
LEMMA RecordedQuietly ==
  ASSUME Typed, Typed', Records, Resources, NEW w \in Workers,
         \A v \in Workers \ {w} : work'[v] = work[v] \/ work'[v] = Idle,
         UNCHANGED <<snap, routes, rules, nat, tunnel, file>>, SessionsStay,
         ~ SettingUp(work'[w]),
         CleaningUp(work'[w]) => snap[work'[w].x].state # "none"
  PROVE  (Records /\ Resources)'
<1>1. SnapshotsStay /\ OnlySaves(w)
  BY DEF SnapshotsStay, OnlySaves, Recorded
<1>2. Prepared(work[w])'
  BY DEF Prepared, Recorded
<1>3. Records'
  BY <1>1, <1>2, RecordsStay
<1>4. /\ \A e \in routes' \ routes : \E x \in Consumers : Recorded(x)' /\ snap'[x].e = e
      /\ \A r \in rules' \ rules : Recorded(r[2])'
      /\ tunnel' \in {tunnel, file, None}
      /\ file' # file => file' = None \/ Recorded(file)'
  OBVIOUS
<1>5. nat' => nat \/ \E g \in Gateways : Recorded(g)'
  BY Zenon
<1>6. Resources'
  BY <1>1, <1>4, <1>5, ResourcesStay
<1> QED
  BY <1>3, <1>6

\* The steps between set-ups and clean-ups.
LEMMA BetweenMoves ==
  ASSUME Typed, NEW w \in Workers,
         \/ Release(w) \/ LoadSnapshot(w) \/ Inspect(w) \/ Status(w) \/ NextSession(w)
         \/ LoopDone(w) \/ Heartbeat(w) \/ Repair(w) \/ Shutdown(w) \/ Launch(w)
         \/ \E x \in Ids : Disconnect(w, x)
  PROVE  /\ \A v \in Workers \ {w} : work'[v] = work[v] \/ work'[v] = Idle
         /\ UNCHANGED <<snap, routes, rules, nat, tunnel, file>>
         /\ work'[w].pc \in {"idle", "exited", "next", "inspect", "status", "load", "release", "uninstall"}
         /\ work'[w].pc = "uninstall" => LoadSnapshot(w) /\ snap[work'[w].x].state # "none"
<1>1. work \in [Workers -> Job] /\ work[w] \in Job
  BY DEF Typed, AllFit
<1>2. \A v \in Workers \ {w} : work'[v] = work[v] \/ work'[v] = Idle
  BY <1>1 DEF Release, LoadSnapshot, Inspect, Status, NextSession, LoopDone, Heartbeat, Repair,
              Shutdown, Launch, Disconnect, Starts, Breaks, Becomes
<1>3. UNCHANGED <<snap, routes, rules, nat, tunnel, file>>
  BY Zenon DEF Release, LoadSnapshot, Inspect, Status, NextSession, LoopDone, Heartbeat, Repair,
         Shutdown, Launch, Disconnect, network
<1>4. /\ work'[w].pc \in {"idle", "exited", "next", "inspect", "status", "load", "release", "uninstall"}
      /\ work'[w].pc = "uninstall" => LoadSnapshot(w) /\ snap[work'[w].x].state # "none"
  <2>1. CASE LoadSnapshot(w)
    <3>1. work[w].op \in CleaningOps
      BY <2>1, StepsTellOperations DEF LoadSnapshot, At, Typed
    <3>2. Aborted(w).pc \in {"idle", "next", "release"}
      BY <1>1, <3>1 DEF Aborted, Returned, CleaningOps, Idle, Job, Work
    <3> QED
      BY <1>1, <2>1, <3>2 DEF LoadSnapshot, Breaks, Becomes, Job, Work
  <2>2. CASE Release(w) \/ Status(w)
    BY <1>1, <2>2 DEF Release, Status, Released, Breaks, Becomes, Idle, Job, Work
  <2>3. CASE NextSession(w)
    <3>1. PICK y \in work[w].todo :
            Becomes(w, [work[w] EXCEPT !.x = y, !.todo = @ \ {y},
                          !.pc = IF work[w].op = "watch" THEN "status" ELSE "load"])
      BY <2>3 DEF NextSession
    <3>2. work'[w].pc = IF work[w].op = "watch" THEN "status" ELSE "load"
      BY <1>1, <3>1 DEF Becomes, Job, Work
    <3> QED
      BY <3>2
  <2>4. CASE LoopDone(w)
    <3>1. work'[w] \in {Idle, [Idle EXCEPT !.pc = "exited"], [work[w] EXCEPT !.pc = "inspect"]}
      BY <1>1, <2>4 DEF LoopDone
    <3>2. work'[w].pc \in {"idle", "exited", "inspect"}
      BY <1>1, <3>1 DEF Idle, Job, Work
    <3> QED
      BY <3>2
  <2>5. CASE Launch(w)
    BY <1>1, <2>5 DEF Launch, Becomes, Idle
  <2>6. CASE Inspect(w) \/ Heartbeat(w) \/ Repair(w) \/ Shutdown(w)
    <3>1. ASSUME NEW op, NEW todo, Starts(w, op, todo) PROVE work'[w].pc = "next"
      BY <1>1, <3>1 DEF Starts, Becomes, Idle
    <3>2. Breaks(w, Idle) => work'[w].pc = "idle"
      BY <1>1 DEF Breaks, Becomes, Idle
    <3> QED
      BY <2>6, <3>1, <3>2, Zenon DEF Inspect, Heartbeat, Repair, Shutdown
  <2>7. CASE \E x \in Ids : Disconnect(w, x)
    BY <1>1, <2>7 DEF Disconnect, Becomes, Idle
  <2> QED
    BY <2>1, <2>2, <2>3, <2>4, <2>5, <2>6, <2>7
<1> QED
  BY <1>2, <1>3, <1>4

LEMMA RecordedBetween ==
  ASSUME Typed, Typed', Records, Resources, NEW w \in Workers,
         \/ Release(w) \/ LoadSnapshot(w) \/ Inspect(w) \/ Status(w) \/ NextSession(w)
         \/ LoopDone(w) \/ Heartbeat(w) \/ Repair(w) \/ Shutdown(w) \/ Launch(w)
         \/ \E x \in Ids : Disconnect(w, x)
  PROVE  (Records /\ Resources)'
<1>1. SessionsStay
  BY DEF Release, LoadSnapshot, Inspect, Status, NextSession, LoopDone, Heartbeat, Repair,
         Shutdown, Launch, Disconnect, SessionsStay
<1>2. /\ \A v \in Workers \ {w} : work'[v] = work[v] \/ work'[v] = Idle
      /\ UNCHANGED <<snap, routes, rules, nat, tunnel, file>>
      /\ work'[w].pc \in {"idle", "exited", "next", "inspect", "status", "load", "release", "uninstall"}
      /\ work'[w].pc = "uninstall" => snap[work'[w].x].state # "none"
  BY BetweenMoves
<1>3. ~ SettingUp(work'[w])
  BY <1>2 DEF SettingUp, SetUpSteps
<1>4. CleaningUp(work'[w]) => snap[work'[w].x].state # "none"
  BY <1>2 DEF CleaningUp, CleanUpSteps
<1> QED
  BY <1>1, <1>2, <1>3, <1>4, RecordedQuietly

\* A set-up begins: the server handed out its session just now, or its id is not
\* of a session.
LEMMA RecordedBegins ==
  ASSUME Typed, Typed', Records, Resources, NEW w \in Handlers,
         \/ \E x \in Sessions, e \in Endpoints : CreateSession(w, x, e)
         \/ \E m \in Manual : InitConsumer(w, m)
         \/ \E g \in Gateways : ProviderInit(w, g)
  PROVE  (Records /\ Resources)'
<1>1. w \in Workers /\ work \in [Workers -> Job]
  BY DEF Workers, Typed, AllFit
<1>2. UNCHANGED <<snap, routes, rules, nat, tunnel, file>>
  BY Zenon DEF CreateSession, InitConsumer, ProviderInit, network
<1>3. \A v \in Workers \ {w} : work'[v] = work[v]
  BY <1>1 DEF CreateSession, InitConsumer, ProviderInit, Breaks, Becomes
<1>4. SessionsStay
  <2>1. ASSUME NEW x \in Sessions, NEW e \in Endpoints, CreateSession(w, x, e) PROVE SessionsStay
    BY <2>1 DEF CreateSession, SessionsStay, Typed, Shapes
  <2>2. UNCHANGED server => SessionsStay
    BY DEF SessionsStay
  <2> QED
    BY <2>1, <2>2 DEF InitConsumer, ProviderInit
<1>5. SnapshotsStay /\ OnlySaves(w)
  BY <1>2 DEF SnapshotsStay, OnlySaves, Recorded
<1>6. ~ SettingUp(Idle) /\ ~ CleaningUp(Idle)
  BY DEF Idle, SettingUp, CleaningUp, CleaningOps
<1>7. Prepared(work[w])' /\ (SettingUp(work'[w]) /\ work'[w].x \in Sessions =>
                               server[work'[w].x] = "unused")
  <2>1. ASSUME NEW x \in Sessions, NEW e \in Endpoints, CreateSession(w, x, e)
        PROVE  Prepared(work[w])' /\ (SettingUp(work'[w]) => server[work'[w].x] = "unused")
    <3>1. server[x] = "unused" /\ server'[x] = "active"
      BY <2>1 DEF CreateSession, Typed, Shapes
    <3>2. snap[x].state = "none" /\ x \notin Manual
      BY <3>1, AgentAssumption DEF Records, Snapshots, Recorded, Ids, Consumers
    <3>3. CASE work'[w] = Idle
      BY <1>6, <3>3 DEF Prepared
    <3>4. CASE work'[w] = [pc |-> "reach", op |-> "connect", x |-> x, e |-> e, todo |-> {}]
      <4>1. ~ CleaningUp(work'[w])
        BY <3>4 DEF CleaningUp, CleaningOps
      <4> QED
        BY <1>2, <3>1, <3>2, <3>4, <4>1 DEF Prepared, Recorded
    <3> QED
      BY <1>1, <2>1, <3>3, <3>4 DEF CreateSession, Breaks, Becomes
  <2>2. ASSUME NEW m \in Manual, InitConsumer(w, m)
        PROVE  Prepared(work[w])' /\ work'[w].x \notin Sessions
    <3>1. /\ work'[w].pc = "check" /\ work'[w].op = "init"
          /\ work'[w].x = m /\ work'[w].e = InitEndpoint[m]
      BY <1>1, <2>2 DEF InitConsumer, Becomes, Idle
    <3> QED
      BY <3>1, AgentAssumption DEF Prepared, CleaningUp, CleaningOps
  <2>3. ASSUME NEW g \in Gateways, ProviderInit(w, g)
        PROVE  Prepared(work[w])' /\ work'[w].x \notin Sessions
    <3>1. work'[w].pc = "check" /\ work'[w].op = "init" /\ work'[w].x = g
      BY <1>1, <2>3 DEF ProviderInit, Becomes, Idle
    <3>2. g \notin Sessions /\ g \notin Manual
      BY AgentAssumption DEF Consumers
    <3> QED
      BY <3>1, <3>2 DEF Prepared, CleaningUp, CleaningOps
  <2> QED
    BY <2>1, <2>2, <2>3
<1>8. Records'
  BY <1>1, <1>3, <1>4, <1>5, <1>7, RecordsStay
<1>9. nat' => nat
  BY <1>2, Zenon
<1>10. Resources'
  BY <1>2, <1>5, <1>9, ResourcesStay
<1> QED
  BY <1>8, <1>10

\* The server changes a session, or all the agent's processes end at once.
LEMMA RecordedEnvironment ==
  ASSUME Typed, Typed', Records, Resources,
         (\E x \in Sessions : ServerRevokes(x) \/ OwnerDisconnects(x) \/ ShareEnds(x) \/ ShareRevives(x)) \/ Crash
  PROVE  (Records /\ Resources)'
<1>1. UNCHANGED <<snap, routes, rules, nat, tunnel, file>>
  BY Zenon DEF ServerRevokes, OwnerDisconnects, ShareEnds, ShareRevives, Crash, network
<1>2. SessionsStay
  BY DEF ServerRevokes, OwnerDisconnects, ShareEnds, ShareRevives, Crash, SessionsStay, Typed, Shapes
<1>3. \/ UNCHANGED work
      \/ \A v \in Workers : work'[v] = Idle
  BY DEF ServerRevokes, OwnerDisconnects, ShareEnds, ShareRevives, Crash
<1>4. ~ SettingUp(Idle) /\ ~ CleaningUp(Idle)
  BY DEF Idle, SettingUp, CleaningUp, CleaningOps
<1>5. AllPrepared' /\ OneSetUp'
  <2>1. CASE UNCHANGED work
    BY <1>1, <1>2, <2>1 DEF Records, AllPrepared, Prepared, OneSetUp, Recorded, SessionsStay
  <2>2. CASE \A v \in Workers : work'[v] = Idle
    BY <1>4, <2>2 DEF AllPrepared, Prepared, OneSetUp
  <2> QED
    BY <1>3, <2>1, <2>2
<1>6. Snapshots'
  BY <1>1, <1>2 DEF Records, Snapshots, Recorded, SessionsStay
<1>7. Resources'
  BY <1>1 DEF Resources, Recorded
<1> QED
  BY <1>5, <1>6, <1>7 DEF Records

LEMMA RecordedNext ==
  ASSUME Typed, Typed', Records, Resources, [Next]_vars
  PROVE  (Records /\ Resources)'
<1>1. ASSUME NEW w \in Workers, Runs(w) PROVE (Records /\ Resources)'
  BY <1>1, RecordedSetUp, RecordedCleanUp, RecordedBetween DEF Runs
<1>2. CASE UNCHANGED vars
  BY <1>2 DEF vars, network, Records, AllPrepared, Prepared, OneSetUp, Snapshots, Resources, Recorded
<1> QED
  BY <1>1, <1>2, RecordedBegins, RecordedBetween, RecordedEnvironment DEF Next, Workers

\* Whatever set-ups, clean-ups, crashes and failures overlap, every route, rule,
\* NAT and tunnel that the agent left on the computer belongs to an id that has a
\* snapshot: saveSnapshot comes before the first change of the network, and no
\* set-up gives an id another endpoint.
THEOREM EverythingIsRecorded == Spec => []ResourcesAreRecorded
<1>1. Resources => ResourcesAreRecorded
  BY DEF Resources, ResourcesAreRecorded, Recorded
<1>2. Init => Typed /\ Records /\ Resources
  BY TypedInit, RecordedInit
<1>3. Typed /\ Records /\ Resources /\ [Next]_vars => (Typed /\ Records /\ Resources)'
  BY TypedNext, RecordedNext
<1> QED
  BY <1>1, <1>2, <1>3, PTL DEF Spec

-----------------------------------------------------------------------------
(* One operation at a time *)

Busy(w) == work[w].pc \notin {"idle", "exited"}

\* What a lock around the operations would give.
OneAtATime == \A v, w \in Workers : Busy(v) /\ Busy(w) => v = w

KindsOf(x) == IF x \in Gateways THEN {"udp", "control"} ELSE {"ipv6"}

\* Every resource is that of an incomplete snapshot, and a consumer's tunnel has
\* its route and its rule.  A NAT is recorded if its name is recognised.
Owned ==
  /\ \A e \in routes : \E x \in Incomplete \cap Consumers : snap[x].e = e
  /\ \A r \in rules : r[2] \in Incomplete /\ r[1] \in KindsOf(r[2])
  /\ NATNamed /\ nat => Incomplete \cap Gateways # {}
  /\ tunnel # None => tunnel \in Incomplete
  /\ tunnel \in Consumers => snap[tunnel].e \in routes /\ <<"ipv6", tunnel>> \in rules

\* What a set-up has put on the computer before the step it is at.
SetUpStage(j) ==
  /\ j.pc \in {"save", "pin", "block", "write", "install"} => tunnel = None
  /\ j.pc \notin {"reach", "check", "save"} => j.x \in Incomplete /\ snap[j.x].e = j.e
  /\ j.x \in Consumers =>
       /\ j.pc \in {"block", "write", "install", "wait"} => j.e \in routes
       /\ j.pc \in {"write", "install", "wait"} => <<"ipv6", j.x>> \in rules
  /\ j.pc = "install" => file = j.x

\* What a clean-up has removed before the step it is at.
CleanUpStage(j) ==
  /\ snap[j.x].e = j.e
  /\ j.pc # "uninstall" => tunnel = None
  /\ j.pc \in {"unblock", "mark"} /\ j.x \in Consumers => j.e \notin routes
  /\ j.pc \in {"close_control", "no_nat"} => <<"udp", j.x>> \notin rules
  /\ j.pc = "no_nat" => <<"control", j.x>> \notin rules
  /\ j.pc = "mark" => /\ \A r \in rules : r[2] # j.x
                      /\ j.x \in Gateways /\ NATNamed => ~ nat

StageOf(j) ==
  /\ SettingUp(j) => SetUpStage(j)
  /\ CleaningUp(j) => CleanUpStage(j)

AtStage == \A w \in Workers : StageOf(work[w])

\* A single worker, a command line that is not run twice at once, has no overlap.
LEMMA OneWorkerNeverOverlaps ==
  ASSUME \A v, w \in Workers : v = w
  PROVE  Spec => []OneAtATime
<1>1. OneAtATime
  BY DEF OneAtATime
<1> QED
  BY <1>1, PTL

LEMMA OwnedInit == Init => Owned /\ AtStage
<1> SUFFICES ASSUME Init PROVE Owned /\ AtStage
  OBVIOUS
<1>1. ~ SettingUp(Idle) /\ ~ CleaningUp(Idle)
  BY DEF Idle, SettingUp, CleaningUp, CleaningOps
<1>2. None \notin Consumers
  BY AgentAssumption DEF Ids
<1> QED
  BY <1>1, <1>2 DEF Init, Owned, AtStage, StageOf

\* A job that does nothing to the computer.
LEMMA NoStage ==
  ASSUME NEW j, j.pc \in {"idle", "exited", "next", "inspect", "status", "load", "release"}
  PROVE  ~ SettingUp(j) /\ ~ CleaningUp(j)
BY DEF SettingUp, CleaningUp, SetUpSteps, CleanUpSteps

\* The next step of a set-up or of a clean-up is of the same id and endpoint.
LEMMA NextStep ==
  ASSUME Typed, NEW w \in Workers,
         SettingUp(work[w]) \/ (CleaningUp(work[w]) /\ work[w].pc # "remove"),
         Proceeds(w),
         SettingUp(work'[w]) \/ CleaningUp(work'[w])
  PROVE  /\ work'[w].pc = Order(work[w].x)[work[w].pc]
         /\ work'[w].x = work[w].x /\ work'[w].e = work[w].e /\ work'[w].op = work[w].op
<1> DEFINE n == Order(work[w].x)[work[w].pc]
<1>1. work[w] \in Job /\ work \in [Workers -> Job]
  BY DEF Typed, AllFit
<1>2. work'[w] = IF n = "idle" THEN Idle ELSE [work[w] EXCEPT !.pc = n]
  BY <1>1 DEF Proceeds, Becomes
<1>3. n # "idle"
  BY <1>2, NoStage DEF Idle
<1> QED
  BY <1>1, <1>2, <1>3 DEF Job, Work

\* The stages of the workers that are not busy.
LEMMA StagesElsewhere ==
  ASSUME Typed, OneAtATime, NEW w \in Workers, Busy(w),
         \A v \in Workers \ {w} : work'[v] = work[v],
         StageOf(work[w])'
  PROVE  AtStage'
<1>1. ASSUME NEW v \in Workers, v # w PROVE ~ SettingUp(work'[v]) /\ ~ CleaningUp(work'[v])
  <2>1. work'[v].pc \in {"idle", "exited"}
    BY <1>1 DEF OneAtATime, Busy
  <2> QED
    BY <2>1, NoStage
<1> QED
  BY <1>1 DEF AtStage, StageOf

\* Steps of a set-up: each leaves what the next one finds.
LEMMA OwnedSetUp ==
  ASSUME Typed, Typed', Records, OneAtATime, Owned, AtStage, NEW w \in Workers,
         \/ Reach(w) \/ CheckConflicts(w) \/ SaveSnapshot(w) \/ PinRoute(w) \/ AddRule(w)
         \/ CreateNAT(w) \/ WriteConfig(w) \/ InstallTunnel(w) \/ WaitForTunnel(w)
  PROVE  (Owned /\ AtStage)'
<1> DEFINE x == work[w].x
           e == work[w].e
           pc == work[w].pc
           n == Order(x)[pc]
           Goes == /\ SettingUp(work'[w])
                   /\ work'[w].pc = n /\ work'[w].x = x /\ work'[w].e = e
<1>1. SettingUp(work[w]) /\ x \in Ids /\ (x \in Consumers <=> x \notin Gateways) /\ Busy(w)
  <2>1. SettingUp(work[w])
    BY StepsTellOperations, Zenon
       DEF Reach, CheckConflicts, SaveSnapshot, PinRoute, AddRule, CreateNAT, WriteConfig,
           InstallTunnel, WaitForTunnel, At, RuleAdded, Typed
  <2> QED
    BY <2>1, AgentAssumption DEF SettingUp, SetUpSteps, Busy, Ids
<1>2. SetUpStage(work[w]) /\ Prepared(work[w])
  BY <1>1 DEF AtStage, StageOf, Records, AllPrepared
<1>3. Proceeds(w) \/ Breaks(w, Failed(w)) \/ Fails(w)
  BY DEF Reach, CheckConflicts, SaveSnapshot, PinRoute, AddRule, CreateNAT, WriteConfig,
         InstallTunnel, WaitForTunnel
<1>4. (\A v \in Workers \ {w} : work'[v] = work[v]) /\ ~ CleaningUp(work'[w])
  BY <1>1, <1>3, SetUpMoves
<1>5. Proceeds(w) /\ SettingUp(work'[w]) => Goes
  BY <1>1, NextStep
<1>6. Breaks(w, Failed(w)) \/ Fails(w) => ~ SettingUp(work'[w])
  <2>1. work[w] \in Job /\ work \in [Workers -> Job]
    BY DEF Typed, AllFit
  <2>2. Failed(w).pc \in {"release", "idle"}
    BY <2>1 DEF Failed, Idle, Job, Work
  <2>3. Breaks(w, Failed(w)) \/ Fails(w) => work'[w] = Failed(w)
    BY <2>1 DEF Breaks, Fails, Becomes
  <2> QED
    BY <2>2, <2>3, NoStage
<1>7. ASSUME Owned', Goes => SetUpStage(work[w])'
      PROVE  (Owned /\ AtStage)'
  <2>1. SettingUp(work'[w]) => Goes
    BY <1>3, <1>5, <1>6
  <2>2. StageOf(work[w])'
    BY <1>4, <1>7, <2>1 DEF StageOf
  <2> QED
    BY <1>1, <1>4, <1>7, <2>2, StagesElsewhere
<1>8. CASE Reach(w)
  <2>1. pc = "reach" /\ UNCHANGED <<snap, routes, rules, nat, tunnel, file>>
    BY <1>8, Zenon DEF Reach, At, network
  <2>2. Owned'
    BY <2>1, Zenon DEF Owned, Incomplete
  <2>3. n = "check"
    BY <1>1, <2>1, ConsumerOrder DEF SettingUp, SetUpSteps
  <2> QED
    BY <1>7, <2>2, <2>3 DEF SetUpStage
<1>9. CASE CheckConflicts(w)
  <2>1. pc = "check" /\ UNCHANGED <<snap, routes, rules, nat, tunnel, file>>
    BY <1>9, Zenon DEF CheckConflicts, At, network
  <2>2. Owned'
    BY <2>1, Zenon DEF Owned, Incomplete
  <2>3. n = "save"
    BY <1>1, <2>1, ConsumerOrder, ProviderOrder
  <2>4. Goes => tunnel = None
    BY <1>6, <1>9 DEF CheckConflicts, NoConflict
  <2> QED
    BY <1>7, <2>1, <2>2, <2>3, <2>4 DEF SetUpStage
<1>10. CASE SaveSnapshot(w)
  <2>1. pc = "save" /\ UNCHANGED <<routes, rules, nat, tunnel, file>>
    BY <1>10, Zenon DEF SaveSnapshot, At, network
  <2>2. n \in {"pin", "write"} /\ (x \in Consumers => n = "pin")
    BY <1>1, <2>1, ConsumerOrder, ProviderOrder
  <2>3. tunnel = None
    BY <1>2, <2>1 DEF SetUpStage
  <2>4. CASE UNCHANGED snap /\ Breaks(w, Failed(w))
    <3>1. Owned'
      BY <2>1, <2>4, Zenon DEF Owned, Incomplete
    <3> QED
      BY <1>6, <1>7, <2>4, <3>1
  <2>5. CASE snap' = [snap EXCEPT ![x] = [state |-> "incomplete", e |-> e]]
    <3>1. \A y \in Ids : snap'[y] = IF y = x THEN [state |-> "incomplete", e |-> e] ELSE snap[y]
      BY <2>5 DEF Typed, Shapes
    <3>2. Incomplete' = Incomplete \cup {x}
      BY <1>1, <3>1 DEF Incomplete
    <3>3. x \in Consumers /\ x \in Incomplete => snap[x].e = e
      BY <1>1, <1>2 DEF Incomplete, Prepared, Recorded, Consumers, Records, Snapshots
    <3>4. \A d \in routes' : \E y \in (Incomplete \cap Consumers)' : snap'[y].e = d
      BY <2>1, <3>1, <3>2, <3>3 DEF Owned, Ids
    <3>5. tunnel' \notin Consumers
      BY <2>1, <2>3, AgentAssumption DEF Ids
    <3>6. NATNamed /\ nat' => (Incomplete \cap Gateways)' # {}
      <4>1. Incomplete \cap Gateways # {} => (Incomplete \cap Gateways)' # {}
        BY <3>2
      <4> QED
        BY <2>1, <4>1, Zenon DEF Owned
    <3>7. Owned'
      BY <2>1, <2>3, <3>2, <3>4, <3>5, <3>6 DEF Owned
    <3>8. Goes => SetUpStage(work[w])'
      BY <1>1, <2>1, <2>2, <2>3, <3>1, <3>2, AgentAssumption DEF SetUpStage
    <3> QED
      BY <1>7, <3>7, <3>8
  <2> QED
    BY <1>10, <2>4, <2>5 DEF SaveSnapshot
<1>11. CASE PinRoute(w)
  <2>1. pc = "pin" /\ UNCHANGED <<snap, rules, nat, tunnel, file>>
    BY <1>11, Zenon DEF PinRoute, At, network
  <2>2. n = "block" /\ x \in Consumers
    BY <1>1, <2>1, ConsumerOrder DEF SettingUp, SetUpSteps
  <2>3. Incomplete' = Incomplete /\ x \in Incomplete /\ snap[x].e = e /\ tunnel = None
    BY <1>2, <2>1 DEF SetUpStage, Incomplete
  <2>4. routes \subseteq routes' /\ routes' \subseteq routes \cup {e}
    BY <1>11 DEF PinRoute
  <2>5. \A d \in routes' : \E y \in (Incomplete \cap Consumers)' : snap'[y].e = d
    BY <2>1, <2>2, <2>3, <2>4 DEF Owned
  <2>6. NATNamed /\ nat' => (Incomplete \cap Gateways)' # {}
    BY <2>1, <2>3, Zenon DEF Owned
  <2>7. Owned'
    BY <2>1, <2>3, <2>4, <2>5, <2>6 DEF Owned
  <2>8. Goes => e \in routes'
    BY <1>6, <1>11 DEF PinRoute
  <2>9. Goes => SetUpStage(work[w])'
    BY <2>1, <2>2, <2>3, <2>8 DEF SetUpStage
  <2> QED
    BY <1>7, <2>7, <2>9
<1>12. CASE AddRule(w)
  <2>1. pc \in {"block", "udp", "control"} /\ UNCHANGED <<snap, routes, nat, tunnel, file>>
    BY <1>12, Zenon DEF AddRule, RuleAdded, network
  <2>2. /\ x \in Consumers => pc = "block" /\ n = "write"
        /\ x \in Gateways => pc \in {"udp", "control"} /\ n \in {"control", "idle"}
    BY <1>1, <2>1, ConsumerOrder, ProviderOrder DEF SettingUp, SetUpSteps
  <2>3. Incomplete' = Incomplete /\ x \in Incomplete /\ snap[x].e = e
    BY <1>2, <2>1 DEF SetUpStage, Incomplete
  <2>4. rules \subseteq rules' /\ rules' \subseteq rules \cup {<<RuleAdded[pc], x>>}
    BY <1>12 DEF AddRule
  <2>5. RuleAdded[pc] \in KindsOf(x)
    BY <1>1, <2>1, <2>2 DEF RuleAdded, KindsOf
  <2>6. \A r \in rules' : r[2] \in Incomplete' /\ r[1] \in KindsOf(r[2])
    BY <2>3, <2>4, <2>5 DEF Owned
  <2>7. NATNamed /\ nat' => (Incomplete \cap Gateways)' # {}
    BY <2>1, <2>3, Zenon DEF Owned
  <2>8. Owned'
    BY <2>1, <2>3, <2>4, <2>6, <2>7 DEF Owned
  <2>9. Goes => <<RuleAdded[pc], x>> \in rules'
    BY <1>6, <1>12 DEF AddRule
  <2>10. Goes => SetUpStage(work[w])'
    BY <1>1, <1>2, <2>1, <2>2, <2>3, <2>9 DEF SetUpStage, RuleAdded
  <2> QED
    BY <1>7, <2>8, <2>10
<1>13. CASE CreateNAT(w)
  <2>1. pc = "nat" /\ UNCHANGED <<snap, routes, rules, tunnel, file>>
    BY <1>13, Zenon DEF CreateNAT, At, network
  <2>2. n = "udp" /\ x \in Gateways
    BY <1>1, <2>1, ProviderOrder DEF SettingUp, SetUpSteps
  <2>3. Incomplete' = Incomplete /\ x \in Incomplete /\ snap[x].e = e
    BY <1>2, <2>1 DEF SetUpStage, Incomplete
  <2>4. (Incomplete \cap Gateways)' # {}
    BY <2>2, <2>3
  <2>5. Owned'
    BY <2>1, <2>3, <2>4 DEF Owned
  <2>6. Goes => SetUpStage(work[w])'
    BY <1>1, <2>1, <2>2, <2>3 DEF SetUpStage
  <2> QED
    BY <1>7, <2>5, <2>6
<1>14. CASE WriteConfig(w)
  <2>1. pc = "write" /\ UNCHANGED <<snap, routes, rules, nat, tunnel>>
    BY <1>14, Zenon DEF WriteConfig, At, network
  <2>2. n = "install"
    BY <1>1, <2>1, ConsumerOrder, ProviderOrder
  <2>3. Owned'
    BY <2>1, Zenon DEF Owned, Incomplete
  <2>4. Goes => file' = x
    BY <1>6, <1>14 DEF WriteConfig
  <2>5. Goes => SetUpStage(work[w])'
    BY <1>2, <2>1, <2>2, <2>4 DEF SetUpStage, Incomplete
  <2> QED
    BY <1>7, <2>3, <2>5
<1>15. CASE InstallTunnel(w)
  <2>1. pc = "install" /\ UNCHANGED <<snap, routes, rules, nat, file>>
    BY <1>15, Zenon DEF InstallTunnel, At, network
  <2>2. n = "wait"
    BY <1>1, <2>1, ConsumerOrder, ProviderOrder
  <2>3. Incomplete' = Incomplete /\ x \in Incomplete /\ snap[x].e = e /\ file = x
    BY <1>2, <2>1 DEF SetUpStage, Incomplete
  <2>4. tunnel' \in {tunnel, x}
    BY <1>15, <2>3 DEF InstallTunnel
  <2>5. x \in Consumers => e \in routes /\ <<"ipv6", x>> \in rules
    BY <1>2, <2>1 DEF SetUpStage
  <2>6. NATNamed /\ nat' => (Incomplete \cap Gateways)' # {}
    BY <2>1, <2>3, Zenon DEF Owned
  <2>7. Owned'
    BY <2>1, <2>3, <2>4, <2>5, <2>6 DEF Owned
  <2>8. Goes => SetUpStage(work[w])'
    BY <2>1, <2>2, <2>3, <2>5 DEF SetUpStage
  <2> QED
    BY <1>7, <2>7, <2>8
<1>16. CASE WaitForTunnel(w)
  <2>1. pc = "wait" /\ UNCHANGED <<snap, routes, rules, nat, tunnel, file>>
    BY <1>16, Zenon DEF WaitForTunnel, At, network
  <2>2. Owned'
    BY <2>1, Zenon DEF Owned, Incomplete
  <2>3. n \in {"idle", "nat"} /\ (x \in Consumers => n = "idle")
    BY <1>1, <2>1, ConsumerOrder, ProviderOrder
  <2>4. Goes => SetUpStage(work[w])'
    BY <1>1, <1>2, <2>1, <2>3 DEF SetUpStage, Incomplete
  <2> QED
    BY <1>7, <2>2, <2>4
<1> QED
  BY <1>8, <1>9, <1>10, <1>11, <1>12, <1>13, <1>14, <1>15, <1>16

\* Steps of a clean-up: the snapshot is marked once nothing of it is left.
LEMMA OwnedCleanUp ==
  ASSUME Typed, Typed', OneAtATime, Owned, AtStage, NEW w \in Workers,
         \/ UninstallTunnel(w) \/ UnpinRoute(w) \/ RemoveRule(w) \/ RemoveNAT(w)
         \/ MarkCompleted(w) \/ RemoveConfig(w)
  PROVE  (Owned /\ AtStage)'
<1> DEFINE x == work[w].x
           e == work[w].e
           pc == work[w].pc
           n == Order(x)[pc]
           Goes == /\ CleaningUp(work'[w])
                   /\ work'[w].pc = n /\ work'[w].x = x /\ work'[w].e = e
<1>1. CleaningUp(work[w]) /\ x \in Ids /\ (x \in Consumers <=> x \notin Gateways) /\ Busy(w)
  <2>1. CleaningUp(work[w])
    BY StepsTellOperations, Zenon
       DEF UninstallTunnel, UnpinRoute, RemoveRule, RemoveNAT, MarkCompleted, RemoveConfig,
           At, RuleRemoved, Typed
  <2> QED
    BY <2>1, AgentAssumption DEF CleaningUp, CleanUpSteps, Busy, Ids
<1>2. CleanUpStage(work[w])
  BY <1>1 DEF AtStage, StageOf
<1>3. \/ Proceeds(w) /\ pc # "remove"
      \/ Breaks(w, Aborted(w))
      \/ Becomes(w, Returned(work[w], TRUE)) \/ Breaks(w, Returned(work[w], TRUE))
  BY DEF UninstallTunnel, UnpinRoute, RemoveRule, RemoveNAT, MarkCompleted, RemoveConfig,
         At, RuleRemoved
<1>4. (\A v \in Workers \ {w} : work'[v] = work[v]) /\ ~ SettingUp(work'[w])
  BY <1>1, <1>3, CleanUpMoves
<1>5. Proceeds(w) /\ pc # "remove" /\ CleaningUp(work'[w]) => Goes
  BY <1>1, NextStep
<1>6. \/ Breaks(w, Aborted(w)) \/ Becomes(w, Returned(work[w], TRUE))
      \/ Breaks(w, Returned(work[w], TRUE))
      => ~ CleaningUp(work'[w])
  <2>1. work[w] \in Job /\ work \in [Workers -> Job]
    BY DEF Typed, AllFit
  <2>2. \A ok \in BOOLEAN : Returned(work[w], ok).pc \in {"release", "next", "idle"}
    BY <1>1, <2>1 DEF Returned, CleaningUp, CleaningOps, Idle, Job, Work
  <2> SUFFICES ASSUME \/ Breaks(w, Aborted(w)) \/ Becomes(w, Returned(work[w], TRUE))
                      \/ Breaks(w, Returned(work[w], TRUE))
               PROVE  ~ CleaningUp(work'[w])
    OBVIOUS
  <2>3. PICK ok \in BOOLEAN : work'[w] = Returned(work[w], ok)
    BY <2>1 DEF Breaks, Becomes, Aborted
  <2>4. work'[w].pc \in {"release", "next", "idle"}
    BY <2>2, <2>3
  <2> QED
    BY <2>4, NoStage
<1>7. ASSUME Owned', Goes => CleanUpStage(work[w])'
      PROVE  (Owned /\ AtStage)'
  <2>1. CleaningUp(work'[w]) => Goes
    BY <1>3, <1>5, <1>6
  <2>2. StageOf(work[w])'
    BY <1>4, <1>7, <2>1 DEF StageOf
  <2> QED
    BY <1>1, <1>4, <1>7, <2>2, StagesElsewhere
<1>8. CASE UninstallTunnel(w)
  <2>1. pc = "uninstall" /\ UNCHANGED <<snap, routes, rules, nat, file>>
    BY <1>8, Zenon DEF UninstallTunnel, At, network
  <2>2. tunnel' \in {tunnel, None} /\ None \notin Consumers
    BY <1>8, AgentAssumption DEF UninstallTunnel, Ids
  <2>3. NATNamed /\ nat' => (Incomplete \cap Gateways)' # {}
    BY <2>1, Zenon DEF Owned, Incomplete
  <2>4. Owned'
    BY <2>1, <2>2, <2>3 DEF Owned, Incomplete
  <2>5. Goes => tunnel' = None
    BY <1>6, <1>8 DEF UninstallTunnel
  <2>6. n \in {"unpin", "close_udp"}
    BY <1>1, <2>1, ConsumerOrder, ProviderOrder
  <2> QED
    BY <1>2, <1>7, <2>1, <2>4, <2>5, <2>6 DEF CleanUpStage
<1>9. CASE UnpinRoute(w)
  <2>1. pc = "unpin" /\ UNCHANGED <<snap, rules, nat, tunnel, file>>
    BY <1>9, Zenon DEF UnpinRoute, At, network
  <2>2. n = "unblock" /\ tunnel = None
    BY <1>1, <1>2, <2>1, ConsumerOrder DEF CleaningUp, CleanUpSteps, CleanUpStage
  <2>3. routes' \subseteq routes
    BY <1>9 DEF UnpinRoute
  <2>4. NATNamed /\ nat' => (Incomplete \cap Gateways)' # {}
    BY <2>1, Zenon DEF Owned, Incomplete
  <2>5. Owned'
    BY <2>1, <2>2, <2>3, <2>4, AgentAssumption DEF Owned, Incomplete, Ids
  <2>6. Goes => e \notin routes'
    BY <1>6, <1>9 DEF UnpinRoute
  <2> QED
    BY <1>2, <1>7, <2>1, <2>2, <2>5, <2>6 DEF CleanUpStage
<1>10. CASE RemoveRule(w)
  <2>1. pc \in {"unblock", "close_udp", "close_control"}
        /\ UNCHANGED <<snap, routes, nat, tunnel, file>>
    BY <1>10, Zenon DEF RemoveRule, RuleRemoved, network
  <2>2. /\ x \in Consumers => pc = "unblock" /\ n = "mark"
        /\ x \in Gateways => \/ pc = "close_udp" /\ n = "close_control"
                             \/ pc = "close_control" /\ n = IF NATNamed THEN "no_nat" ELSE "mark"
    BY <1>1, <2>1, ConsumerOrder, ProviderOrder DEF CleaningUp, CleanUpSteps, Order, ProviderSteps
  <2>3. tunnel = None /\ None \notin Consumers
    BY <1>2, <2>1, AgentAssumption DEF CleanUpStage, Ids
  <2>4. rules' \subseteq rules /\ (Goes => rules' = rules \ {<<RuleRemoved[pc], x>>})
    BY <1>6, <1>10 DEF RemoveRule
  <2>5. NATNamed /\ nat' => (Incomplete \cap Gateways)' # {}
    BY <2>1, Zenon DEF Owned, Incomplete
  <2>6. Owned'
    BY <2>1, <2>3, <2>4, <2>5 DEF Owned, Incomplete
  <2>7. \A r \in rules : r = <<r[1], r[2]>> /\ (r[2] = x => r[1] \in KindsOf(x))
    BY DEF Owned, Typed, Shapes
  <2>8. Goes /\ x \in Consumers => \A r \in rules' : r[2] # x
    BY <1>1, <2>2, <2>4, <2>7 DEF RuleRemoved, KindsOf
  <2>9. Goes /\ x \in Gateways /\ pc = "close_control" => \A r \in rules' : r[2] # x
    BY <1>1, <1>2, <2>4, <2>7 DEF RuleRemoved, KindsOf, CleanUpStage
  <2>10. Goes => CleanUpStage(work[w])'
    <3>1. Goes /\ x \in Consumers => CleanUpStage(work[w])'
      BY <1>1, <1>2, <2>1, <2>2, <2>3, <2>8 DEF CleanUpStage
    <3>2. Goes /\ x \in Gateways => CleanUpStage(work[w])'
      BY <1>1, <1>2, <2>1, <2>2, <2>3, <2>4, <2>9 DEF CleanUpStage, RuleRemoved
    <3> QED
      BY <1>1, <3>1, <3>2
  <2> QED
    BY <1>7, <2>6, <2>10
<1>11. CASE RemoveNAT(w)
  <2>1. pc = "no_nat" /\ UNCHANGED <<snap, routes, rules, tunnel, file>>
    BY <1>11, Zenon DEF RemoveNAT, At, network
  <2>2. n = "mark" /\ x \in Gateways
    BY <1>1, <2>1, ProviderOrder DEF CleaningUp, CleanUpSteps
  <2>3. tunnel = None /\ None \notin Consumers
    BY <1>2, <2>1, AgentAssumption DEF CleanUpStage, Ids
  <2>4. nat' => nat
    BY <1>11, Zenon DEF RemoveNAT
  <2>5. NATNamed /\ nat' => (Incomplete \cap Gateways)' # {}
    BY <2>1, <2>4, Zenon DEF Owned, Incomplete
  <2>6. Owned'
    BY <2>1, <2>3, <2>5 DEF Owned, Incomplete
  <2>7. Goes => ~ nat'
    BY <1>6, <1>11, Zenon DEF RemoveNAT
  <2>8. \A r \in rules : r[2] # x
    <3>1. \A r \in rules : r = <<r[1], r[2]>> /\ (r[2] = x => r[1] \in {"udp", "control"})
      BY <1>1, <2>2 DEF Owned, KindsOf, Typed, Shapes
    <3> QED
      BY <1>2, <2>1, <3>1 DEF CleanUpStage
  <2>9. Goes => CleanUpStage(work[w])'
    BY <1>1, <1>2, <2>1, <2>2, <2>3, <2>7, <2>8 DEF CleanUpStage
  <2> QED
    BY <1>7, <2>6, <2>9
<1>12. CASE MarkCompleted(w)
  <2>1. pc = "mark" /\ UNCHANGED <<routes, rules, nat, tunnel, file>>
    BY <1>12, Zenon DEF MarkCompleted, At, network
  <2>2. n = "remove"
    BY <1>1, <2>1, ConsumerOrder, ProviderOrder
  <2>3. tunnel = None /\ snap[x].e = e /\ None \notin Consumers
    BY <1>2, <2>1, AgentAssumption DEF CleanUpStage, Ids
  <2>4. CASE UNCHANGED snap /\ Breaks(w, Aborted(w))
    <3>1. Owned'
      BY <2>1, <2>4, Zenon DEF Owned, Incomplete
    <3> QED
      BY <1>6, <1>7, <2>4, <3>1
  <2>5. CASE snap' = [snap EXCEPT ![x].state = "completed"]
    <3>1. \A y \in Ids : snap'[y].e = snap[y].e
                         /\ snap'[y].state = IF y = x THEN "completed" ELSE snap[y].state
      BY <1>1, <2>5 DEF Typed, Shapes
    <3>2. Incomplete' = Incomplete \ {x}
      BY <1>1, <3>1 DEF Incomplete
    <3>3. ASSUME NEW d \in routes' PROVE \E y \in (Incomplete \cap Consumers)' : snap'[y].e = d
      <4>1. PICK y \in Incomplete \cap Consumers : snap[y].e = d
        BY <2>1 DEF Owned
      <4>2. y # x
        BY <1>2, <2>1, <2>3, <4>1 DEF CleanUpStage
      <4> QED
        BY <3>1, <3>2, <4>1, <4>2 DEF Ids
    <3>4. \A r \in rules' : r[2] \in Incomplete' /\ r[1] \in KindsOf(r[2])
      BY <1>2, <2>1, <3>2 DEF CleanUpStage, Owned
    <3>5. NATNamed /\ nat' => (Incomplete \cap Gateways)' # {}
      <4>1. x \in Gateways /\ NATNamed => ~ nat
        BY <1>2, <2>1 DEF CleanUpStage
      <4>2. x \notin Gateways => (Incomplete \cap Gateways)' = Incomplete \cap Gateways
        BY <3>2
      <4> QED
        BY <2>1, <4>1, <4>2, Zenon DEF Owned
    <3>6. Owned'
      BY <2>1, <2>3, <3>3, <3>4, <3>5 DEF Owned
    <3>7. Goes => CleanUpStage(work[w])'
      BY <1>1, <2>1, <2>2, <2>3, <3>1 DEF CleanUpStage
    <3> QED
      BY <1>7, <3>6, <3>7
  <2> QED
    BY <1>12, <2>4, <2>5 DEF MarkCompleted
<1>13. CASE RemoveConfig(w)
  <2>1. UNCHANGED <<snap, routes, rules, nat, tunnel>> /\ ~ CleaningUp(work'[w])
    BY <1>6, <1>13, Zenon DEF RemoveConfig, network
  <2>2. Owned'
    BY <2>1, Zenon DEF Owned, Incomplete
  <2> QED
    BY <1>7, <2>1, <2>2
<1> QED
  BY <1>8, <1>9, <1>10, <1>11, <1>12, <1>13

\* A worker that goes on or stops while the computer and the snapshots stay.
LEMMA StageStays ==
  ASSUME AtStage, UNCHANGED <<snap, routes, rules, nat, tunnel, file>>,
         NEW v \in Workers, work'[v] = work[v] \/ work'[v] = Idle
  PROVE  StageOf(work[v])'
<1>1. CASE work'[v] = Idle
  BY <1>1, NoStage DEF StageOf, Idle
<1>2. CASE work'[v] = work[v]
  <2>1. SetUpStage(work[v]) => SetUpStage(work[v])'
    BY <1>2 DEF SetUpStage, Incomplete
  <2>2. ~ nat => ~ nat'
    BY Zenon
  <2>3. CleanUpStage(work[v]) => CleanUpStage(work[v])'
    BY <1>2, <2>2 DEF CleanUpStage
  <2> QED
    BY <1>2, <2>1, <2>3 DEF AtStage, StageOf
<1> QED
  BY <1>1, <1>2

\* A step of worker w that changes neither resources nor snapshots.
LEMMA OwnedQuietly ==
  ASSUME Owned, AtStage, NEW w \in Workers,
         \A v \in Workers \ {w} : work'[v] = work[v] \/ work'[v] = Idle,
         UNCHANGED <<snap, routes, rules, nat, tunnel, file>>,
         StageOf(work[w])'
  PROVE  (Owned /\ AtStage)'
<1>1. Owned'
  BY Zenon DEF Owned, Incomplete
<1> QED
  BY <1>1, StageStays DEF AtStage

\* The steps between set-ups and clean-ups; a snapshot is loaded with its endpoint.
LEMMA OwnedBetween ==
  ASSUME Typed, Typed', Owned, AtStage, NEW w \in Workers,
         \/ Release(w) \/ LoadSnapshot(w) \/ Inspect(w) \/ Status(w) \/ NextSession(w)
         \/ LoopDone(w) \/ Heartbeat(w) \/ Repair(w) \/ Shutdown(w) \/ Launch(w)
         \/ \E x \in Ids : Disconnect(w, x)
  PROVE  (Owned /\ AtStage)'
<1>1. work \in [Workers -> Job] /\ work[w] \in Job
  BY DEF Typed, AllFit
<1>2. /\ \A v \in Workers \ {w} : work'[v] = work[v] \/ work'[v] = Idle
      /\ UNCHANGED <<snap, routes, rules, nat, tunnel, file>>
      /\ work'[w].pc \in {"idle", "exited", "next", "inspect", "status", "load", "release", "uninstall"}
      /\ work'[w].pc = "uninstall" => LoadSnapshot(w)
  BY BetweenMoves
<1>3. StageOf(work[w])'
  <2>1. CASE work'[w].pc # "uninstall"
    BY <1>2, <2>1, NoStage DEF StageOf
  <2>2. CASE work'[w].pc = "uninstall"
    <3>1. work[w].pc = "load" /\ work[w].op \in CleaningOps /\ LoadSnapshot(w)
      BY <1>2, <2>2, StepsTellOperations DEF LoadSnapshot, At, Typed
    <3>2. Aborted(w).pc # "uninstall"
      BY <1>1, <3>1 DEF Aborted, Returned, CleaningOps, Idle, Job, Work
    <3>3. work'[w] = [work[w] EXCEPT !.pc = "uninstall", !.e = snap[work[w].x].e]
      BY <1>1, <2>2, <3>1, <3>2 DEF LoadSnapshot, Breaks, Becomes
    <3>4. work'[w].x = work[w].x /\ work'[w].e = snap[work[w].x].e
      BY <1>1, <3>3 DEF Job, Work
    <3>5. ~ SettingUp(work'[w])
      BY <2>2 DEF SettingUp, SetUpSteps
    <3>6. CleanUpStage(work[w])'
      BY <1>2, <2>2, <3>4 DEF CleanUpStage
    <3> QED
      BY <3>5, <3>6 DEF StageOf
  <2> QED
    BY <2>1, <2>2
<1> QED
  BY <1>2, <1>3, OwnedQuietly

LEMMA OwnedBegins ==
  ASSUME Typed, Typed', Owned, AtStage, NEW w \in Handlers,
         \/ \E x \in Sessions, e \in Endpoints : CreateSession(w, x, e)
         \/ \E m \in Manual : InitConsumer(w, m)
         \/ \E g \in Gateways : ProviderInit(w, g)
  PROVE  (Owned /\ AtStage)'
<1>1. w \in Workers /\ work \in [Workers -> Job]
  BY DEF Workers, Typed, AllFit
<1>2. UNCHANGED <<snap, routes, rules, nat, tunnel, file>>
  BY Zenon DEF CreateSession, InitConsumer, ProviderInit, network
<1>3. \A v \in Workers \ {w} : work'[v] = work[v]
  BY <1>1 DEF CreateSession, InitConsumer, ProviderInit, Breaks, Becomes
<1>4. work'[w].pc \in {"idle", "reach", "check"}
  <2>1. ASSUME NEW x \in Sessions, NEW e \in Endpoints, CreateSession(w, x, e)
        PROVE  work'[w].pc \in {"idle", "reach"}
    BY <1>1, <2>1 DEF CreateSession, Breaks, Becomes, Idle
  <2>2. ASSUME NEW m \in Manual, InitConsumer(w, m) PROVE work'[w].pc = "check"
    BY <1>1, <2>2 DEF InitConsumer, Becomes, Idle
  <2>3. ASSUME NEW g \in Gateways, ProviderInit(w, g) PROVE work'[w].pc = "check"
    BY <1>1, <2>3 DEF ProviderInit, Becomes, Idle
  <2> QED
    BY <2>1, <2>2, <2>3
<1>5. StageOf(work[w])'
  BY <1>4 DEF StageOf, SetUpStage, CleaningUp, CleanUpSteps, SettingUp, SetUpSteps
<1> QED
  BY <1>1, <1>2, <1>3, <1>5, OwnedQuietly

LEMMA OwnedEnvironment ==
  ASSUME Owned, AtStage,
         (\E x \in Sessions : ServerRevokes(x) \/ OwnerDisconnects(x) \/ ShareEnds(x) \/ ShareRevives(x)) \/ Crash
  PROVE  (Owned /\ AtStage)'
<1>1. UNCHANGED <<snap, routes, rules, nat, tunnel, file>>
  BY Zenon DEF ServerRevokes, OwnerDisconnects, ShareEnds, ShareRevives, Crash, network
<1>2. \A v \in Workers : work'[v] = work[v] \/ work'[v] = Idle
  BY DEF ServerRevokes, OwnerDisconnects, ShareEnds, ShareRevives, Crash
<1>3. Owned'
  BY <1>1, Zenon DEF Owned, Incomplete
<1> QED
  BY <1>1, <1>2, <1>3, StageStays DEF AtStage

LEMMA OwnedNext ==
  ASSUME Typed, Typed', Records, OneAtATime, Owned, AtStage, [Next]_vars
  PROVE  (Owned /\ AtStage)'
<1>1. ASSUME NEW w \in Workers, Runs(w) PROVE (Owned /\ AtStage)'
  BY <1>1, OwnedSetUp, OwnedCleanUp, OwnedBetween DEF Runs
<1>2. CASE UNCHANGED vars
  <2>1. UNCHANGED <<snap, routes, rules, nat, tunnel, file>> /\ UNCHANGED work
    BY <1>2, Zenon DEF vars
  <2>2. Owned'
    BY <2>1, Zenon DEF Owned, Incomplete
  <2> QED
    BY <2>1, <2>2, StageStays DEF AtStage
<1> QED
  BY <1>1, <1>2, OwnedBegins, OwnedBetween, OwnedEnvironment DEF Next, Workers

\* As long as no two operations overlap, what crashes and failing commands leave
\* on the computer is what Repair finds: each step of a set-up is recorded before
\* it is taken (saveSnapshot), and a snapshot is marked completed only after each
\* of its resources was removed (App.Disconnect).  The name of the NAT has to be
\* one that the snapshot records.
THEOREM SeparateOperationsAreRepairable ==
  ASSUME NATNamed
  PROVE  Spec /\ []OneAtATime => []ResourcesAreRepairable
<1> DEFINE Inv == Typed /\ Records /\ Resources /\ Owned /\ AtStage
<1>1. Inv => ResourcesAreRepairable
  <2>1. Owned => (nat => NATNamed /\ Incomplete \cap Gateways # {})
    BY Zenon DEF Owned
  <2> QED
    BY <2>1 DEF Owned, ResourcesAreRepairable
<1>2. Init => Inv
  BY TypedInit, RecordedInit, OwnedInit
<1>3. Inv /\ OneAtATime /\ [Next]_vars => Inv'
  BY TypedNext, RecordedNext, OwnedNext
<1> QED
  BY <1>1, <1>2, <1>3, PTL DEF Spec

\* As long as no two operations overlap, the tunnel of a consumer never runs
\* without its route and its block of IPv6, whichever command fails and wherever
\* the agent is killed: SetupConsumer adds them before the tunnel and Disconnect
\* removes them after it.
THEOREM SeparateOperationsShieldTheTunnel ==
  Spec /\ []OneAtATime => []TunnelIsShielded
<1> DEFINE Inv == Typed /\ Records /\ Resources /\ Owned /\ AtStage
<1>1. Inv => TunnelIsShielded
  BY DEF Owned, TunnelIsShielded
<1>2. Init => Inv
  BY TypedInit, RecordedInit, OwnedInit
<1>3. Inv /\ OneAtATime /\ [Next]_vars => Inv'
  BY TypedNext, RecordedNext, OwnedNext
<1> QED
  BY <1>1, <1>2, <1>3, PTL DEF Spec

=============================================================================
