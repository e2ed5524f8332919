------------------------- MODULE ProviderAgentProofs -------------------------
(***************************************************************************)
(* Proofs about ProviderAgent, for any number of sessions, devices,        *)
(* addresses and failures.                                                 *)
(***************************************************************************)
EXTENDS ProviderAgent, FiniteSetTheorems, WellFoundedInduction, TLAPS

-----------------------------------------------------------------------------
(* The smallest element: the next address *)

Below == {p \in Nat \X Nat : p[1] < p[2]}

LEMMA LeastExists ==
  ASSUME NEW T \in SUBSET Nat, T # {}
  PROVE  \E x \in T : \A y \in T : x <= y
<1>1. IsWellFoundedOn(Below, Nat)
  BY NatLessThanWellFounded, Zenon DEF OpToRel, Below
<1>2. \E x \in T : \A y \in T : ~ (<<y, x>> \in Below)
  BY <1>1, WFMin
<1>3. PICK x \in T : \A y \in T : ~ (<<y, x>> \in Below)
  BY <1>2
<1>4. ASSUME NEW y \in T PROVE x <= y
  <2>1. x \in Nat /\ y \in Nat /\ <<y, x>> \notin Below
    BY <1>3
  <2>2. ~ (y < x)
    BY <2>1 DEF Below
  <2> QED
    BY <2>1, <2>2
<1> QED
  BY <1>4

LEMMA LeastIsFirst ==
  ASSUME NEW T \in SUBSET Nat, T # {}
  PROVE  Min(T) \in T /\ \A y \in T : Min(T) <= y
BY LeastExists DEF Min

LEMMA NextAddress ==
  ASSUME Addresses \ AddressesInUse # {}
  PROVE  Min(Addresses \ AddressesInUse) \in Addresses \ AddressesInUse
<1>1. Addresses \ AddressesInUse \in SUBSET Nat
  BY ProviderAssumption
<1> QED
  BY <1>1, LeastIsFirst

-----------------------------------------------------------------------------
(* Types *)

\* Every step of Monitor but the first two is about a session.
Working == pc \notin {"idle", "next"} => current \in Sessions

Typed == TypeOK /\ Working

LEMMA TypedInit == Init => Typed
<1> SUFFICES ASSUME Init PROVE Typed
  OBVIOUS
<1>1. NoPeer \in [on : BOOLEAN, bytes : Nat, address : Addresses \cup {0}]
  BY DEF NoPeer
<1>2. NoBaseline \in [exists : BOOLEAN, last : Nat, used : Nat]
  BY DEF NoBaseline
<1>3. NoList \in [Sessions -> [status : Statuses, key : Keys]]
  BY ProviderAssumption DEF NoList, Statuses
<1>4. /\ FirstKey \in [Consumers -> Keys]
      /\ Quota \in Nat /\ MaxTraffic \in Nat /\ MaxFaults \in Nat
  BY ProviderAssumption
<1>5. keyShared \in BOOLEAN
  BY DEF Init
<1>6. used \in 0..Quota /\ passed \in 0..MaxTraffic /\ faults \in 0..MaxFaults
  BY <1>4 DEF Init
<1>7. key \in [Consumers -> Keys] /\ listed \in [Sessions -> [status : Statuses, key : Keys]]
  BY <1>3, <1>4 DEF Init
<1> QED
  BY <1>1, <1>2, <1>5, <1>6, <1>7 DEF Init, Typed, TypeOK, Working, Statuses

LEMMA FaultType ==
  ASSUME faults \in 0..MaxFaults, NEW kind, Fault(kind)
  PROVE  faults' \in 0..MaxFaults
BY ProviderAssumption DEF Fault

LEMMA DeltaType == \A m, n \in Nat : Delta(m, n) \in Nat
BY DEF Delta

LEMMA MeteredType ==
  ASSUME NEW b \in [exists : BOOLEAN, last : Nat, used : Nat], NEW n \in Nat
  PROVE  Metered(b, n) \in [exists : BOOLEAN, last : Nat, used : Nat]
<1>1. Delta(b.last, n) \in Nat
  BY DeltaType
<1>2. b.used + Delta(b.last, n) \in Nat
  BY <1>1
<1>3. [b EXCEPT !.used = b.used + Delta(b.last, n), !.last = n]
        \in [exists : BOOLEAN, last : Nat, used : Nat]
  BY <1>2
<1> QED
  BY <1>3 DEF Metered, Advance

LEMMA NoValues ==
  /\ NoPeer \in [on : BOOLEAN, bytes : Nat, address : Addresses \cup {0}]
  /\ NoBaseline \in [exists : BOOLEAN, last : Nat, used : Nat]
  /\ NoList \in [Sessions -> [status : Statuses, key : Keys]]
<1>1. FirstKey \in [Consumers -> Keys] /\ DeviceOf \in [Sessions -> Consumers]
  BY ProviderAssumption
<1> QED
  BY <1>1 DEF NoPeer, NoBaseline, NoList, Statuses

LEMMA RemovePeerType ==
  ASSUME Typed, current \in Sessions, RemovePeer
  PROVE  wg' \in [Keys -> [on : BOOLEAN, bytes : Nat, address : Addresses \cup {0}]]
         /\ faults' \in 0..MaxFaults
<1> USE DEF Typed, TypeOK
<1>1. faults' \in 0..MaxFaults
  BY FaultType DEF RemovePeer
<1>2. wg' \in [Keys -> [on : BOOLEAN, bytes : Nat, address : Addresses \cup {0}]]
  BY NoValues DEF RemovePeer
<1> QED
  BY <1>1, <1>2

LEMMA TypedMonitor ==
  ASSUME Typed, Monitor
  PROVE  Typed'
<1> USE DEF Typed, TypeOK, Working
<1>1. CASE ListSessions
  <2>1. DeviceOf \in [Sessions -> Consumers]
    BY ProviderAssumption
  <2> QED
    BY <1>1, <2>1 DEF ListSessions, rows, charge, Listed
<1>2. CASE Visit
  BY <1>2, NoValues DEF Visit, Earliest, rows, charge
<1>3. CASE Retire
  <2>1. current \in Sessions /\ RemovePeer
    BY <1>3 DEF Retire
  <2>2. baselines' \in [Sessions -> [exists : BOOLEAN, last : Nat, used : Nat]]
    BY <1>3, NoValues DEF Retire
  <2> QED
    BY <1>3, <2>1, <2>2, RemovePeerType DEF Retire, rows, charge
<1>4. CASE AddPeer
  <2>1. Key \in Keys /\ current \in Sessions
    BY <1>4 DEF AddPeer, Key
  <2>2. faults' \in 0..MaxFaults
    BY <1>4, FaultType DEF AddPeer
  <2>3. ASSUME NEW k \in Keys, NEW a \in Addresses \cup {0}
        PROVE  /\ [wg[k] EXCEPT !.on = TRUE, !.address = a] \in [on : BOOLEAN, bytes : Nat, address : Addresses \cup {0}]
               /\ [wg[k] EXCEPT !.address = 0] \in [on : BOOLEAN, bytes : Nat, address : Addresses \cup {0}]
    OBVIOUS
  <2>4. wg' \in [Keys -> [on : BOOLEAN, bytes : Nat, address : Addresses \cup {0}]]
    <3> DEFINE a == address[current]
               row(k) == IF k = Key THEN [wg[k] EXCEPT !.on = TRUE, !.address = a]
                         ELSE IF wg[k].address = a THEN [wg[k] EXCEPT !.address = 0]
                         ELSE wg[k]
    <3>1. a \in Addresses \cup {0}
      BY <2>1
    <3>2. ASSUME NEW k \in Keys PROVE row(k) \in [on : BOOLEAN, bytes : Nat, address : Addresses \cup {0}]
      BY <2>3, <3>1
    <3>3. wg' = [k \in Keys |-> row(k)] \/ wg' = wg
      BY <1>4 DEF AddPeer, WithPeer
    <3> HIDE DEF row
    <3> QED
      BY <3>2, <3>3
  <2> QED
    BY <1>4, <2>1, <2>2, <2>4 DEF AddPeer, rows, charge
<1>5. CASE ReadCounter
  <2>1. Key \in Keys /\ current \in Sessions
    BY <1>5 DEF ReadCounter, Key
  <2>2. faults' \in 0..MaxFaults
    BY <1>5, FaultType DEF ReadCounter
  <2>3. Metered(baselines[current], wg[Key].bytes) \in [exists : BOOLEAN, last : Nat, used : Nat]
    BY <2>1, MeteredType
  <2> QED
    BY <1>5, <2>1, <2>2, <2>3 DEF ReadCounter, rows, charge
<1>6. CASE RevokeUnreadable
  <2>1. faults' \in 0..MaxFaults
    BY <1>6, FaultType DEF RevokeUnreadable
  <2> QED
    BY <1>6, <2>1 DEF RevokeUnreadable, charge, Statuses
<1>7. CASE DropPeer
  <2>1. current \in Sessions /\ RemovePeer
    BY <1>7 DEF DropPeer
  <2> QED
    BY <1>7, <2>1, RemovePeerType DEF DropPeer, rows, charge
<1>8. CASE Report
  <2> DEFINE newUsed == used + Delta(reported[current], baselines[current].used)
  <2>1. current \in Sessions /\ newUsed \in Nat
    <3>1. current \in Sessions
      BY <1>8 DEF Report
    <3>2. reported[current] \in Nat /\ baselines[current].used \in Nat /\ used \in Nat
      BY <3>1, ProviderAssumption
    <3>3. Delta(reported[current], baselines[current].used) \in Nat
      BY <3>2, DeltaType
    <3> QED
      BY <3>1, <3>2, <3>3
  <2>2. faults' \in 0..MaxFaults
    BY <1>8, FaultType DEF Report
  <2>3. used' \in 0..Quota
    BY <1>8, <2>1, ProviderAssumption DEF Report, charge
  <2>4. server' \in [Sessions -> Statuses] /\ reported' \in [Sessions -> Nat]
        /\ pc' \in {"drop", "next"}
    BY <1>8, <2>1 DEF Report, charge, Statuses
  <2> QED
    BY <1>8, <2>1, <2>2, <2>3, <2>4 DEF Report
<1> QED
  BY <1>1, <1>2, <1>3, <1>4, <1>5, <1>6, <1>7, <1>8 DEF Monitor

LEMMA TypedNext == Typed /\ [Next]_vars => Typed'
<1> SUFFICES ASSUME Typed, [Next]_vars PROVE Typed'
  OBVIOUS
<1> USE DEF Typed, TypeOK, Working
<1>1. ASSUME NEW x \in Sessions, SessionStarts(x) PROVE Typed'
  <2>1. Min(Addresses \ AddressesInUse) \in Addresses
    BY <1>1, NextAddress DEF SessionStarts
  <2> QED
    BY <1>1, <2>1 DEF SessionStarts, charge, agent, Statuses
<1>2. ASSUME NEW x \in Sessions, SessionEnds(x) PROVE Typed'
  BY <1>2 DEF SessionEnds, charge, agent, Statuses
<1>3. ASSUME NEW d \in Consumers, KeyChanges(d) PROVE Typed'
  <2>1. faults' \in 0..MaxFaults
    BY <1>3, FaultType DEF KeyChanges
  <2> QED
    BY <1>3, <2>1 DEF KeyChanges, charge, agent
<1>4. ASSUME NEW k \in Keys, Transfer(k) PROVE Typed'
  <2>1. passed' \in 0..MaxTraffic
    BY <1>4, ProviderAssumption DEF Transfer
  <2>2. wg[k].bytes + 1 \in Nat
    OBVIOUS
  <2>3. [wg[k] EXCEPT !.bytes = wg[k].bytes + 1] \in [on : BOOLEAN, bytes : Nat, address : Addresses \cup {0}]
    <3>1. \A r \in [on : BOOLEAN, bytes : Nat, address : Addresses \cup {0}], n \in Nat :
            [r EXCEPT !.bytes = n] \in [on : BOOLEAN, bytes : Nat, address : Addresses \cup {0}]
      OBVIOUS
    <3>2. wg[k] \in [on : BOOLEAN, bytes : Nat, address : Addresses \cup {0}]
      OBVIOUS
    <3> HIDE DEF Typed, TypeOK
    <3> QED
      BY <2>2, <3>1, <3>2
  <2>4. wg' = [wg EXCEPT ![k] = [wg[k] EXCEPT !.bytes = wg[k].bytes + 1]]
    BY <1>4 DEF Transfer
  <2>5. wg' \in [Keys -> [on : BOOLEAN, bytes : Nat, address : Addresses \cup {0}]]
    BY <2>3, <2>4
  <2> QED
    BY <1>4, <2>1, <2>5 DEF Transfer, rows, charge, agent
<1>5. CASE TunnelRestarts \/ AgentRestarts
  <2>1. faults' \in 0..MaxFaults
    BY <1>5, FaultType DEF TunnelRestarts, AgentRestarts
  <2> QED
    BY <1>5, <2>1, NoValues DEF TunnelRestarts, AgentRestarts, rows, charge, agent
<1>6. CASE UNCHANGED vars
  BY <1>6 DEF vars, rows, charge, agent
<1> QED
  BY <1>1, <1>2, <1>3, <1>4, <1>5, <1>6, TypedMonitor DEF Next

\* Counters, totals and charges stay natural numbers and the charge within the
\* quota, however often counters start again, and every step of Monitor is about
\* a session of the list.
THEOREM Typing == Spec => []TypeOK
BY TypedInit, TypedNext, PTL DEF Spec, Typed

-----------------------------------------------------------------------------
(* The peers of different sessions stay apart *)

SameDevice(x, y) == DeviceOf[x] = DeviceOf[y]

\* Monitor adds peers for sessions it does not know.
AddsUnknown == pc = "add" => current \notin peers

\* Monitor knows, lists and visits sessions that have started.
Started ==
  /\ \A x \in Sessions : listed[x].status # "unused" => server[x] # "unused"
  /\ \A x \in peers : server[x] # "unused"

\* When a session has started, those that its device had before are over.
OverBefore ==
  \A x, y \in Sessions :
    SameDevice(x, y) /\ y < x /\ server[x] # "unused" => server[y] \in {"revoked", "disconnected"}

\* What the list says of the session that a step is about.
Judged ==
  /\ pc \in {"add", "read", "revoke", "drop", "report"} => listed[current].status = "active"
  /\ pc = "retire" => current \in peers /\ listed[current].status # "active"

\* A list shows one active session of a device, and goes through them in order.
OneListed ==
  \A x, y \in Sessions :
    SameDevice(x, y) /\ x # y /\ listed[x].status = "active" => listed[y].status # "active"

InOrder ==
  \A x \in todo : current # x /\ (current \in Sessions => StartedAt[current] <= StartedAt[x])

\* A session that Monitor knows is listed as over if its device had it before one
\* that Monitor knows too, and retires before a later one is added, unless the two
\* started in the same second.
OldListedOver ==
  \A x \in peers, y \in Sessions : SameDevice(x, y) /\ y < x => listed[y].status # "active"

OldRetireFirst ==
  \A x \in Sessions, y \in peers :
    SameDevice(x, y) /\ y < x /\ listed[x].status = "active" =>
      \/ StartedAt[x] = StartedAt[y]
      \/ y \in todo
      \/ current = y /\ pc = "retire"

OnePeerPerDevice ==
  \A x, y \in peers : SameDevice(x, y) => x = y \/ StartedAt[x] = StartedAt[y]

OneAddressEach ==
  \A x, y \in Sessions :
    server[x] = "active" /\ server[y] = "active" /\ x # y => address[x] # address[y]

\* A session that goes on and is known or listed shares its address with none
\* that the list, stale or not, shows as active.
ListedAddresses ==
  \A x, y \in Sessions :
    /\ x # y /\ server[x] = "active" /\ (x \in peers \/ listed[x].status = "active")
    /\ listed[y].status = "active"
    => address[x] # address[y]

Orderly ==
  /\ Started /\ OverBefore /\ Judged /\ OneListed /\ InOrder /\ OldListedOver
  /\ OldRetireFirst /\ OnePeerPerDevice /\ OneAddressEach /\ ListedAddresses

LEMMA OrderlyInit == Init => Orderly
<1> SUFFICES ASSUME Init PROVE Orderly
  OBVIOUS
<1>1. \A x \in Sessions : listed[x].status = "unused" /\ server[x] = "unused"
  BY DEF Init, NoList
<1>2. peers = {} /\ todo = {} /\ pc = "idle"
  BY DEF Init
<1> QED
  BY <1>1, <1>2
     DEF Orderly, Started, OverBefore, Judged, OneListed, InOrder, OldListedOver, OldRetireFirst,
         OnePeerPerDevice, OneAddressEach, ListedAddresses

\* Sessions end, and Monitor forgets about some.
Quiet ==
  /\ \A x \in Sessions :
       \/ server'[x] = server[x]
       \/ server[x] # "unused" /\ server'[x] \in {"revoked", "disconnected"}
  /\ UNCHANGED <<address, listed, todo, current>>
  /\ peers' \subseteq peers
  /\ pc = "retire" => pc' = "retire" \/ current \notin peers'

LEMMA QuietStep ==
  ASSUME Typed, Typed', Orderly, Quiet, Judged'
  PROVE  Orderly'
<1> USE DEF Orderly, Quiet
<1>0. peers \subseteq Sessions
  BY DEF Typed, TypeOK
<1>1. Started'
  BY <1>0 DEF Started
<1>2. OverBefore'
  BY DEF OverBefore
<1>3. OneListed' /\ InOrder' /\ OldListedOver'
  BY DEF OneListed, InOrder, OldListedOver
<1>4. OldRetireFirst'
  BY DEF OldRetireFirst
<1>5. OnePeerPerDevice' /\ OneAddressEach' /\ ListedAddresses'
  BY DEF OnePeerPerDevice, OneAddressEach, ListedAddresses
<1> QED
  BY <1>1, <1>2, <1>3, <1>4, <1>5

LEMMA QuietActions ==
  ASSUME Typed, Typed', Orderly,
         \/ Retire \/ ReadCounter \/ RevokeUnreadable \/ DropPeer \/ Report
         \/ \E x \in Sessions : SessionEnds(x)
         \/ \E d \in Consumers : KeyChanges(d)
         \/ \E k \in Keys : Transfer(k)
         \/ TunnelRestarts
  PROVE  Orderly'
<1> USE DEF Typed, TypeOK, Working
<1>1. CASE Retire
  <2>1. Quiet /\ Judged'
    BY <1>1 DEF Retire, Quiet, Judged, Orderly, rows
  <2> QED
    BY <2>1, QuietStep
<1>2. CASE ReadCounter \/ DropPeer
  <2>1. Quiet /\ Judged'
    BY <1>2 DEF ReadCounter, DropPeer, Quiet, Judged, Orderly, rows
  <2> QED
    BY <2>1, QuietStep
<1>3. CASE RevokeUnreadable
  <2>1. Quiet /\ Judged'
    BY <1>3 DEF RevokeUnreadable, Quiet, Judged, Orderly
  <2> QED
    BY <2>1, QuietStep
<1>4. CASE Report
  <2>1. \A x \in Sessions :
          \/ server'[x] = server[x]
          \/ server[x] # "unused" /\ server'[x] \in {"revoked", "disconnected"}
    BY <1>4 DEF Report
  <2>2. UNCHANGED <<address, listed, todo, current, peers>> /\ pc = "report" /\ pc' \in {"drop", "next"}
    BY <1>4 DEF Report
  <2>3. Quiet /\ Judged'
    BY <2>1, <2>2 DEF Quiet, Judged, Orderly
  <2> QED
    BY <2>3, QuietStep
<1>5. CASE \E x \in Sessions : SessionEnds(x)
  <2>1. Quiet /\ Judged'
    BY <1>5 DEF SessionEnds, Quiet, Judged, Orderly, agent
  <2> QED
    BY <2>1, QuietStep
<1>6. CASE \/ \E d \in Consumers : KeyChanges(d)
           \/ \E k \in Keys : Transfer(k)
           \/ TunnelRestarts
  <2>1. Quiet /\ Judged'
    BY <1>6 DEF KeyChanges, Transfer, TunnelRestarts, Quiet, Judged, Orderly, agent, rows
  <2> QED
    BY <2>1, QuietStep
<1> QED
  BY <1>1, <1>2, <1>3, <1>4, <1>5, <1>6

LEMMA OrderlyList ==
  ASSUME Typed, Typed', Orderly, ListSessions
  PROVE  Orderly'
<1> USE DEF Typed, TypeOK, Orderly
<1>1. /\ \A x \in Sessions : listed'[x].status = server[x]
      /\ todo' = {x \in Sessions : server[x] # "unused"}
      /\ pc' = "next" /\ current' = 0
      /\ UNCHANGED <<server, address, peers>>
  BY DEF ListSessions, Listed, rows
<1>2. Started' /\ OverBefore' /\ Judged' /\ OneAddressEach' /\ OnePeerPerDevice'
  BY <1>1 DEF Started, OverBefore, Judged, OneAddressEach, OnePeerPerDevice
<1>3. OneListed'
  <2> SUFFICES ASSUME NEW x \in Sessions, NEW y \in Sessions, SameDevice(x, y), x # y,
                      server[x] = "active", server[y] = "active"
               PROVE  FALSE
    BY <1>1 DEF OneListed
  <2>1. x < y \/ y < x
    BY ProviderAssumption
  <2> QED
    BY <2>1 DEF OverBefore, SameDevice
<1>4. InOrder'
  BY <1>1, ProviderAssumption DEF InOrder
<1>5. OldListedOver' /\ OldRetireFirst'
  BY <1>1 DEF OldListedOver, OldRetireFirst, OverBefore, Started
<1>6. ListedAddresses'
  BY <1>1 DEF ListedAddresses, OneAddressEach
<1> QED
  BY <1>2, <1>3, <1>4, <1>5, <1>6

LEMMA OrderlyVisit ==
  ASSUME Typed, Typed', Orderly, Visit
  PROVE  Orderly'
<1> USE DEF Typed, TypeOK, Orderly
<1>1. UNCHANGED <<server, address, peers>> /\ pc = "next"
  BY DEF Visit, rows
<1>2. Started' /\ OverBefore' /\ OneAddressEach' /\ OnePeerPerDevice'
  <2>1. \A x \in Sessions : listed'[x].status \in {listed[x].status, "unused"}
    BY DEF Visit, NoList
  <2> QED
    BY <1>1, <2>1 DEF Started, OverBefore, OneAddressEach, OnePeerPerDevice
<1>3. CASE todo = {}
  <2>1. /\ \A x \in Sessions : listed'[x].status = "unused"
        /\ todo' = {} /\ pc' = "idle"
    BY <1>3 DEF Visit, Earliest, NoList
  <2> QED
    BY <1>1, <1>2, <2>1
       DEF Judged, OneListed, InOrder, OldListedOver, OldRetireFirst, ListedAddresses
<1>4. CASE todo # {}
  <2>1. /\ current' \in todo /\ \A y \in todo : StartedAt[current'] <= StartedAt[y]
        /\ todo' = todo \ {current'}
        /\ UNCHANGED listed
    BY <1>4 DEF Visit, Earliest
  <2>2. /\ pc' \in {"read", "add"} => listed[current'].status = "active"
        /\ pc' = "retire" <=> listed[current'].status # "active" /\ current' \in peers
        /\ pc' \in {"retire", "next", "read", "add"}
    BY <1>4 DEF Visit, GoesOn
  <2>3. Judged'
    BY <1>1, <2>1, <2>2 DEF Judged
  <2>4. InOrder'
    BY <2>1, ProviderAssumption DEF InOrder
  <2>5. OldRetireFirst'
    <3> SUFFICES ASSUME NEW x \in Sessions, NEW y \in peers, SameDevice(x, y), y < x,
                        listed[x].status = "active", StartedAt[x] # StartedAt[y]
                 PROVE  y \in todo' \/ (current' = y /\ pc' = "retire")
      BY <1>1, <2>1 DEF OldRetireFirst
    <3>1. y \in todo
      BY <1>1 DEF OldRetireFirst
    <3>2. listed[y].status # "active"
      BY ProviderAssumption DEF OneListed
    <3> QED
      BY <2>1, <2>2, <3>1, <3>2
  <2> QED
    BY <1>1, <1>2, <2>1, <2>3, <2>4, <2>5 DEF OneListed, OldListedOver, ListedAddresses
<1> QED
  BY <1>3, <1>4

LEMMA OrderlyAdd ==
  ASSUME Typed, Typed', Orderly, AddPeer
  PROVE  Orderly'
<1> USE DEF Typed, TypeOK, Orderly
<1>1. /\ UNCHANGED <<server, address, listed, todo, current>>
      /\ current \in Sessions /\ listed[current].status = "active"
      /\ pc = "add" /\ pc' \in {"read", "next"}
      /\ peers' \subseteq peers \cup {current}
  BY DEF AddPeer, rows, Working, Judged
<1>2. \A y \in peers :
        SameDevice(current, y) => y = current \/ StartedAt[y] = StartedAt[current]
  <2> SUFFICES ASSUME NEW y \in peers, SameDevice(current, y), y # current,
                      StartedAt[y] # StartedAt[current]
               PROVE  FALSE
    OBVIOUS
  <2>1. y < current \/ current < y
    BY <1>1, ProviderAssumption
  <2>2. CASE y < current
    <3>1. y \in todo
      BY <1>1, <2>2 DEF OldRetireFirst
    <3>2. StartedAt[current] <= StartedAt[y] /\ StartedAt[y] <= StartedAt[current]
      BY <1>1, <2>2, <3>1, ProviderAssumption DEF InOrder
    <3>3. StartedAt[current] \in Nat /\ StartedAt[y] \in Nat
      BY <1>1, ProviderAssumption
    <3>4. \A m, n \in Nat : m <= n /\ n <= m => m = n
      OBVIOUS
    <3> QED
      BY <3>2, <3>3, <3>4
  <2>3. CASE current < y
    BY <1>1, <2>3 DEF OldListedOver, SameDevice
  <2> QED
    BY <2>1, <2>2, <2>3
<1>3. Started' /\ OverBefore' /\ Judged' /\ OneListed' /\ InOrder' /\ OneAddressEach'
  BY <1>1 DEF Started, OverBefore, Judged, OneListed, InOrder, OneAddressEach
<1>4. OnePeerPerDevice'
  BY <1>1, <1>2 DEF OnePeerPerDevice, SameDevice
<1>5. OldListedOver'
  <2> SUFFICES ASSUME NEW x \in peers', NEW y \in Sessions, SameDevice(x, y), y < x
               PROVE  listed[y].status # "active"
    BY <1>1 DEF OldListedOver
  <2>1. CASE x \in peers
    BY <2>1 DEF OldListedOver
  <2>2. CASE x = current
    BY <1>1, <2>2, ProviderAssumption DEF OneListed
  <2> QED
    BY <1>1, <2>1, <2>2
<1>6. OldRetireFirst'
  <2> SUFFICES ASSUME NEW x \in Sessions, NEW y \in peers',
                      SameDevice(x, y), y < x, listed[x].status = "active",
                      StartedAt[x] # StartedAt[y]
               PROVE  y \in todo
    BY <1>1 DEF OldRetireFirst
  <2>1. y # current
    BY <1>1, ProviderAssumption DEF OneListed
  <2> QED
    BY <1>1, <2>1 DEF OldRetireFirst
<1>7. ListedAddresses'
  BY <1>1 DEF ListedAddresses
<1> QED
  BY <1>3, <1>4, <1>5, <1>6, <1>7

LEMMA OrderlyStart ==
  ASSUME Typed, Typed', Orderly, NEW z \in Sessions, SessionStarts(z)
  PROVE  Orderly'
<1> USE DEF Typed, TypeOK, Orderly
<1>1. /\ server[z] = "unused" /\ server' = [server EXCEPT ![z] = "active"]
      /\ \A y \in Sessions : y < z => server[y] # "unused"
      /\ \A y \in Sessions : SameDevice(y, z) => server[y] # "active"
      /\ UNCHANGED <<peers, pc, current, listed, todo>>
  BY DEF SessionStarts, agent, SameDevice
<1>2. address'[z] \in Addresses \ AddressesInUse
      /\ \A y \in Sessions \ {z} : address'[y] = address[y] /\ server'[y] = server[y]
  BY NextAddress DEF SessionStarts
<1>3. listed[z].status = "unused" /\ z \notin peers
  BY <1>1 DEF Started
<1>4. Started'
  BY <1>1 DEF Started
<1>5. OverBefore'
  <2> SUFFICES ASSUME NEW x \in Sessions, NEW y \in Sessions,
                      SameDevice(x, y), y < x, server'[x] # "unused"
               PROVE  server'[y] \in {"revoked", "disconnected"}
    BY DEF OverBefore
  <2>1. CASE x = z
    <3>1. server[y] \notin {"unused", "active"} /\ y # z
      BY <1>1, <2>1, ProviderAssumption DEF SameDevice
    <3> QED
      BY <1>1, <3>1 DEF Statuses
  <2>2. CASE x # z
    BY <1>1, <2>2 DEF OverBefore
  <2> QED
    BY <2>1, <2>2
<1>6. OneAddressEach'
  <2>1. \A y \in Sessions : server[y] = "active" => address[y] # address'[z]
    BY <1>2 DEF AddressesInUse
  <2> QED
    BY <1>1, <1>2, <2>1 DEF OneAddressEach
<1>7. ListedAddresses'
  BY <1>1, <1>2, <1>3 DEF ListedAddresses
<1>8. Judged' /\ OneListed' /\ InOrder' /\ OldListedOver' /\ OldRetireFirst' /\ OnePeerPerDevice'
  BY <1>1 DEF Judged, OneListed, InOrder, OldListedOver, OldRetireFirst, OnePeerPerDevice
<1> QED
  BY <1>4, <1>5, <1>6, <1>7, <1>8

LEMMA OrderlyRestart ==
  ASSUME Typed, Typed', Orderly, AgentRestarts
  PROVE  Orderly'
<1>1. /\ UNCHANGED <<server, address>>
      /\ peers' = {} /\ todo' = {} /\ pc' = "idle"
      /\ \A x \in Sessions : listed'[x].status = "unused"
  BY DEF AgentRestarts, rows, NoList
<1> QED
  BY <1>1
     DEF Orderly, Started, OverBefore, Judged, OneListed, InOrder, OldListedOver, OldRetireFirst,
         OnePeerPerDevice, OneAddressEach, ListedAddresses

LEMMA OrderlyNext ==
  ASSUME Typed, Typed', Orderly, [Next]_vars
  PROVE  Orderly'
<1>1. CASE UNCHANGED vars
  <2>1. Quiet /\ Judged'
    BY <1>1 DEF vars, rows, agent, Quiet, Judged, Orderly
  <2> QED
    BY <2>1, QuietStep
<1> QED
  BY <1>1, QuietActions, OrderlyList, OrderlyVisit, OrderlyAdd, OrderlyStart, OrderlyRestart
     DEF Next, Monitor

LEMMA AddsUnknownNext ==
  ASSUME Typed, AddsUnknown, [Next]_vars
  PROVE  AddsUnknown'
<1>1. CASE Visit
  BY <1>1 DEF Visit, AddsUnknown
<1>2. CASE UNCHANGED <<pc, current, peers>>
  BY <1>2 DEF AddsUnknown
<1>3. CASE pc' # "add"
  BY <1>3 DEF AddsUnknown
<1>4. ASSUME Monitor, ~ Visit PROVE pc' # "add"
  BY <1>4 DEF Monitor, ListSessions, Retire, AddPeer, ReadCounter, RevokeUnreadable, DropPeer, Report
<1> QED
  BY <1>1, <1>2, <1>3, <1>4
  DEF Next, SessionStarts, SessionEnds, KeyChanges, Transfer, TunnelRestarts, AgentRestarts, agent, vars

LEMMA SeparateStep ==
  ASSUME Typed, Orderly, AddsUnknown, [Next]_vars,
         NEW x \in peers \cap peers', server[x] = "active", ~ Confused(x),
         wg[KeyOf(x)].on, wg[KeyOf(x)].address = address[x]
  PROVE  \/ wg'[KeyOf(x)].on /\ wg'[KeyOf(x)].address = address[x]
         \/ TunnelRestarts
<1> USE DEF Typed, TypeOK, Orderly
<1>1. x \in Sessions /\ DeviceOf \in [Sessions -> Consumers]
  BY ProviderAssumption
<1>2. KeyOf(x) = key[DeviceOf[x]] /\ KeyOf(x) \in Keys
  BY <1>1 DEF KeyOf
<1> DEFINE Goal == wg'[KeyOf(x)].on /\ wg'[KeyOf(x)].address = address[x]
\* The session of an active list entry, or of a peer that retires, is of another
\* device, and has another key.
<1>3. ASSUME current \in Sessions, current # x,
             listed[current].status = "active" \/ current \in peers
      PROVE  Key # KeyOf(x)
  <2>1. ~ SameDevice(x, current)
    <3> SUFFICES ASSUME SameDevice(x, current) PROVE FALSE
      OBVIOUS
    <3>0. StartedAt[current] # StartedAt[x]
      BY <1>1, <1>3 DEF Confused, SameDevice
    <3>1. CASE current \in peers
      BY <1>1, <1>3, <3>0, <3>1 DEF OnePeerPerDevice
    <3>2. CASE listed[current].status = "active"
      <4>1. current < x \/ x < current
        BY <1>1, <1>3, ProviderAssumption
      <4>2. CASE current < x
        BY <1>1, <1>3, <3>2, <4>2 DEF OldListedOver
      <4>3. CASE x < current
        BY <1>1, <1>3, <3>2, <4>3 DEF OverBefore, Started, SameDevice
      <4> QED
        BY <4>1, <4>2, <4>3
    <3> QED
      BY <1>3, <3>1, <3>2
  <2> QED
    BY <1>3, <2>1 DEF Confused, SameDevice
<1>4. CASE Retire \/ DropPeer
  <2>1. current \in Sessions /\ current # x
    BY <1>4 DEF Retire, DropPeer, Working
  <2>2. listed[current].status = "active" \/ current \in peers
    BY <1>4 DEF Retire, DropPeer, Judged
  <2>3. Key # KeyOf(x)
    BY <1>3, <2>1, <2>2
  <2> QED
    BY <1>2, <1>4, <2>3 DEF Retire, DropPeer, RemovePeer
<1>5. CASE AddPeer
  <2>1. current \in Sessions /\ listed[current].status = "active"
    BY <1>5 DEF AddPeer, Working, Judged
  <2>2. current # x
    BY <1>5 DEF AddPeer, AddsUnknown
  <2>3. Key # KeyOf(x)
    BY <1>3, <2>1, <2>2
  <2>4. address[x] # address[current]
    BY <1>1, <2>1, <2>2 DEF ListedAddresses
  <2>5. wg' = wg \/ wg'[KeyOf(x)] = wg[KeyOf(x)]
    BY <1>2, <1>5, <2>3, <2>4 DEF AddPeer, WithPeer
  <2> QED
    BY <2>5
<1>6. ASSUME NEW k \in Keys, Transfer(k) PROVE Goal
  <2>1. wg' = [wg EXCEPT ![k].bytes = @ + 1]
    BY <1>6 DEF Transfer
  <2> QED
    BY <1>2, <2>1
<1>7. CASE AgentRestarts
  BY <1>7 DEF AgentRestarts
<1>8. CASE UNCHANGED wg
  BY <1>8
<1>9. \/ Retire \/ DropPeer \/ AddPeer \/ TunnelRestarts \/ AgentRestarts \/ UNCHANGED wg
      \/ \E k \in Keys : Transfer(k)
  BY DEF Next, Monitor, ListSessions, Visit, ReadCounter, RevokeUnreadable, Report,
         SessionStarts, SessionEnds, KeyChanges, vars
<1> QED
  BY <1>4, <1>5, <1>6, <1>7, <1>8, <1>9

PeersInv == Typed /\ Orderly /\ AddsUnknown

LEMMA PeersInvInit == Init => PeersInv
<1>1. Init => AddsUnknown
  BY DEF Init, AddsUnknown
<1> QED
  BY <1>1, TypedInit, OrderlyInit DEF PeersInv

LEMMA PeersInvNext == PeersInv /\ [Next]_vars => PeersInv'
BY TypedNext, OrderlyNext, AddsUnknownNext DEF PeersInv

\* The peer of a session that goes on is neither removed nor given away by what
\* Monitor does for other sessions, whatever keys the devices have and change to,
\* for any number of sessions, devices, addresses, restarts and failures: except
\* when that other session is of another device with the same key, or of the same
\* device and second.  Removing by key and taking over addresses are safe otherwise,
\* since one device has one session at a time and a round visits its sessions in the
\* order they started.
THEOREM PeersAreSeparate == Spec => PeersStaySeparate
<1>1. PeersInv /\ [Next]_vars =>
        [\A x \in peers \cap peers' :
           server[x] = "active" /\ wg[KeyOf(x)].on /\ wg[KeyOf(x)].address = address[x]
             => \/ wg'[KeyOf(x)].on /\ wg'[KeyOf(x)].address = address[x]
                \/ TunnelRestarts
                \/ Confused(x)]_vars
  BY SeparateStep DEF PeersInv
<1> QED
  BY <1>1, PeersInvInit, PeersInvNext, PTL DEF Spec, PeersStaySeparate

-----------------------------------------------------------------------------
(* Nobody is charged for traffic that did not take place *)

\* Active sessions, and sessions listed as active, have keys of their own.
ActiveApart ==
  \A x, y \in Sessions :
    server[x] = "active" /\ server[y] = "active" /\ x # y => KeyOf(x) # KeyOf(y)

ListedApart ==
  \A x, y \in Sessions :
    listed[x].status = "active" /\ listed[y].status = "active" /\ x # y
      => listed[x].key # listed[y].key

\* A key that an active session came to have after the list was made has no peer,
\* and gets none in this round.
LaterKeysAreFresh ==
  \A x \in Sessions :
    server[x] = "active" /\ listed[x].status = "active" /\ listed[x].key # KeyOf(x) =>
      /\ wg[KeyOf(x)] = NoPeer
      /\ \A y \in Sessions : listed[y].status = "active" => listed[y].key # KeyOf(x)

KeysApart == ActiveApart /\ ListedApart /\ LaterKeysAreFresh

\* Between rounds there is no list.
NoListWhenIdle == pc = "idle" => \A x \in Sessions : listed[x].status # "active"

\* A metered session that goes on is on the list.
MeteredListed ==
  \A x \in Sessions : baselines[x].exists =>
    /\ server[x] # "unused"
    /\ pc # "idle" /\ server[x] = "active" => listed[x].status = "active"

MeterBase == PeersInv /\ NoListWhenIdle /\ MeteredListed

LEMMA NoListWhenIdleNext ==
  ASSUME NoListWhenIdle, [Next]_vars
  PROVE  NoListWhenIdle'
<1>1. CASE UNCHANGED listed /\ (pc' = "idle" => pc = "idle")
  BY <1>1 DEF NoListWhenIdle
<1>2. CASE listed' = NoList
  BY <1>2 DEF NoListWhenIdle, NoList
<1>3. CASE pc' # "idle"
  BY <1>3 DEF NoListWhenIdle
<1>4. CASE Monitor
  BY <1>2, <1>3, <1>4
  DEF Monitor, ListSessions, Visit, Retire, AddPeer, ReadCounter, RevokeUnreadable, DropPeer, Report
<1> QED
  BY <1>1, <1>2, <1>4
  DEF Next, SessionStarts, SessionEnds, KeyChanges, Transfer, TunnelRestarts, AgentRestarts, agent, vars

\* What a step does to keys, list and active sessions.
LEMMA StepOnKeys ==
  ASSUME Typed, [Next]_vars
  PROVE  /\ keyShared => keyShared'
         /\ \/ /\ UNCHANGED <<key, listed>>
               /\ \A x \in Sessions : server'[x] = "active" => server[x] = "active"
            \/ \E x \in Sessions : SessionStarts(x)
            \/ \E d \in Consumers : KeyChanges(d)
            \/ UNCHANGED <<server, key>> /\ listed' = NoList
            \/ ListSessions
<1> USE DEF Typed, TypeOK
<1>1. ASSUME NEW x \in Sessions, SessionStarts(x) \/ SessionEnds(x)
      PROVE  /\ keyShared => keyShared'
             /\ SessionEnds(x) => /\ UNCHANGED <<key, listed>>
                                  /\ \A y \in Sessions : server'[y] = "active" => server[y] = "active"
  BY <1>1 DEF SessionStarts, SessionEnds, agent
<1>2. ASSUME NEW d \in Consumers, KeyChanges(d) PROVE keyShared => keyShared'
  BY <1>2 DEF KeyChanges
<1>3. CASE ListSessions \/ Visit \/ AgentRestarts
  BY <1>3 DEF ListSessions, Visit, AgentRestarts, rows
<1>4. CASE Retire \/ AddPeer \/ ReadCounter \/ DropPeer
  BY <1>4 DEF Retire, AddPeer, ReadCounter, DropPeer, rows
<1>5. CASE RevokeUnreadable
  BY <1>5 DEF RevokeUnreadable
<1>6. CASE Report
  BY <1>6 DEF Report
<1>7. CASE TunnelRestarts \/ (\E k \in Keys : Transfer(k)) \/ UNCHANGED vars
  BY <1>7 DEF TunnelRestarts, Transfer, vars, rows, agent
<1> QED
  BY <1>1, <1>2, <1>3, <1>4, <1>5, <1>6, <1>7 DEF Next, Monitor

\* A step gives no peer to a key without one, unless Monitor adds the peer of the
\* session it is at.
LEMMA StepOnPeers ==
  ASSUME Typed, [Next]_vars, NEW k \in Keys, wg[k] = NoPeer, pc = "add" => k # Key
  PROVE  wg'[k] = NoPeer
<1> USE DEF Typed, TypeOK
<1>1. CASE AddPeer
  <2>1. k # Key
    BY <1>1 DEF AddPeer
  <2>2. [NoPeer EXCEPT !.address = 0] = NoPeer
    BY DEF NoPeer
  <2> QED
    BY <1>1, <2>1, <2>2 DEF AddPeer, WithPeer
<1>2. CASE RemovePeer
  BY <1>2 DEF RemovePeer
<1>3. ASSUME NEW j \in Keys, Transfer(j) PROVE wg'[k] = NoPeer
  <2>1. j # k
    BY <1>3 DEF Transfer, NoPeer
  <2> QED
    BY <1>3, <2>1 DEF Transfer
<1>4. CASE TunnelRestarts
  BY <1>4 DEF TunnelRestarts
<1>5. CASE UNCHANGED wg
  BY <1>5
<1> QED
  BY <1>1, <1>2, <1>3, <1>4, <1>5
  DEF Next, Monitor, ListSessions, Visit, Retire, ReadCounter, RevokeUnreadable, DropPeer, Report,
      SessionStarts, SessionEnds, KeyChanges, AgentRestarts, vars

LEMMA KeysApartNext ==
  ASSUME PeersInv, PeersInv', KeysApart, [Next]_vars, ~ keyShared'
  PROVE  KeysApart'
<1> USE DEF KeysApart
<1>0. DeviceOf \in [Sessions -> Consumers]
  BY ProviderAssumption
<1>1. /\ key \in [Consumers -> Keys] /\ server \in [Sessions -> Statuses]
      /\ \A x \in Sessions : KeyOf(x) \in Keys
  BY <1>0 DEF PeersInv, Typed, TypeOK, KeyOf
<1>2. CASE /\ UNCHANGED <<key, listed>>
           /\ \A x \in Sessions : server'[x] = "active" => server[x] = "active"
  <2>1. ActiveApart' /\ ListedApart'
    BY <1>2 DEF ActiveApart, ListedApart, KeyOf
  <2>2. LaterKeysAreFresh'
    <3> SUFFICES ASSUME NEW x \in Sessions, server[x] = "active", listed[x].status = "active",
                        listed[x].key # KeyOf(x)
                 PROVE  /\ wg'[KeyOf(x)] = NoPeer
                        /\ \A y \in Sessions : listed[y].status = "active" => listed[y].key # KeyOf(x)
      BY <1>2 DEF LaterKeysAreFresh, KeyOf
    <3>1. /\ wg[KeyOf(x)] = NoPeer
          /\ \A y \in Sessions : listed[y].status = "active" => listed[y].key # KeyOf(x)
      BY DEF LaterKeysAreFresh
    <3>2. pc = "add" => KeyOf(x) # Key
      BY <3>1 DEF PeersInv, Typed, Working, Orderly, Judged, Key
    <3> QED
      BY <1>1, <3>1, <3>2, StepOnPeers DEF PeersInv
  <2> QED
    BY <2>1, <2>2
<1>3. ASSUME NEW z \in Sessions, SessionStarts(z) PROVE KeysApart'
  <2>1. /\ UNCHANGED <<key, listed, wg>>
        /\ server[z] = "unused" /\ server' = [server EXCEPT ![z] = "active"]
        /\ \A y \in Sessions : server[y] = "active" => KeyOf(y) # KeyOf(z)
    BY <1>3 DEF SessionStarts, agent
  <2>2. listed[z].status = "unused"
    BY <2>1 DEF PeersInv, Orderly, Started
  <2>3. ActiveApart'
    BY <1>1, <2>1 DEF ActiveApart, KeyOf
  <2>4. ListedApart' /\ LaterKeysAreFresh'
    BY <1>1, <2>1, <2>2 DEF ListedApart, LaterKeysAreFresh, KeyOf
  <2> QED
    BY <2>3, <2>4
<1>4. ASSUME NEW d \in Consumers, KeyChanges(d) PROVE KeysApart'
  <2>1. UNCHANGED <<server, listed, wg>>
    BY <1>4 DEF KeyChanges, agent
  <2>2. PICK k \in Keys :
          /\ key' = [key EXCEPT ![d] = k]
          /\ ~ InUse(k) \/ \A x \in Sessions : DeviceOf[x] = d => server[x] # "active"
    BY <1>4 DEF KeyChanges
  <2>3. \A x \in Sessions : KeyOf(x)' = IF DeviceOf[x] = d THEN k ELSE KeyOf(x)
    BY <1>0, <1>1, <2>2 DEF KeyOf
  <2>4. ASSUME NEW x \in Sessions, server[x] = "active", DeviceOf[x] = d
        PROVE  /\ wg[k] = NoPeer
               /\ \A y \in Sessions : server[y] = "active" => KeyOf(y) # k
               /\ \A y \in Sessions : listed[y].status = "active" => listed[y].key # k
    BY <2>2, <2>4 DEF InUse
  <2>5. ASSUME NEW x \in Sessions, NEW y \in Sessions, server[x] = "active", server[y] = "active",
               DeviceOf[x] = DeviceOf[y]
        PROVE  x = y
    <3>1. x < y \/ y < x \/ x = y
      BY ProviderAssumption
    <3> QED
      BY <2>5, <3>1 DEF PeersInv, Orderly, OverBefore, SameDevice
  <2>6. ActiveApart'
    <3> SUFFICES ASSUME NEW x \in Sessions, NEW y \in Sessions,
                        server[x] = "active", server[y] = "active", x # y
                 PROVE  KeyOf(x)' # KeyOf(y)'
      BY <2>1 DEF ActiveApart
    <3>1. DeviceOf[x] # DeviceOf[y]
      BY <2>5
    <3> QED
      BY <2>3, <2>4, <3>1 DEF ActiveApart
  <2>7. ListedApart'
    BY <2>1 DEF ListedApart
  <2>8. LaterKeysAreFresh'
    BY <2>1, <2>3, <2>4 DEF LaterKeysAreFresh
  <2> QED
    BY <2>6, <2>7, <2>8
<1>5. CASE UNCHANGED <<server, key>> /\ listed' = NoList
  <2>1. \A x \in Sessions : listed'[x].status = "unused"
    BY <1>5 DEF NoList
  <2> QED
    BY <1>5, <2>1 DEF ActiveApart, ListedApart, LaterKeysAreFresh, KeyOf
<1>6. CASE ListSessions
  <2>1. /\ UNCHANGED <<server, key>>
        /\ \A x \in Sessions : listed'[x].status = server[x] /\ listed'[x].key = KeyOf(x)
    BY <1>6 DEF ListSessions, rows, KeyOf
  <2> QED
    BY <2>1 DEF ActiveApart, ListedApart, LaterKeysAreFresh, KeyOf
<1> QED
  BY <1>2, <1>3, <1>4, <1>5, <1>6, StepOnKeys DEF PeersInv

\* The counter Monitor reads for a session, while it may still read one.
MeterKey(x) == IF pc = "idle" THEN KeyOf(x) ELSE listed[x].key

Readable(x) == server[x] = "active" \/ listed[x].status = "active"

\* Traffic on that counter since Monitor read it last.
Unread(x) ==
  IF baselines[x].exists /\ Readable(x)
  THEN Delta(baselines[x].last, wg[MeterKey(x)].bytes)
  ELSE 0

\* What the next reports may add to the charge for a session.
Unbilled(x) == Delta(reported[x], baselines[x].used) + Unread(x)

Unpaid == [x \in Sessions |-> Unbilled(x)]

\* The units that w gives to the sessions; counting them is adding them up.
Units(w) == {u \in Sessions \X Nat : u[2] \in 1..w[u[1]]}

TrafficCovers == IsFiniteSet(Units(Unpaid)) /\ used + Cardinality(Units(Unpaid)) <= passed

MeterInv == MeterBase /\ (keyShared \/ (KeysApart /\ TrafficCovers))

\* Lemmas about units.
LEMMA UnitsFit ==
  ASSUME NEW w \in [Sessions -> Nat], NEW v \in [Sessions -> Nat], IsFiniteSet(Units(w)),
         \A x \in Sessions : v[x] <= w[x]
  PROVE  /\ IsFiniteSet(Units(v)) /\ Cardinality(Units(v)) \in Nat
         /\ Cardinality(Units(w)) \in Nat
         /\ Cardinality(Units(v)) <= Cardinality(Units(w))
<1>1. ASSUME NEW u \in Units(v) PROVE u \in Units(w)
  <2>1. u \in Sessions \X Nat /\ u[2] \in 1..v[u[1]]
    BY DEF Units
  <2>2. v[u[1]] \in Nat /\ w[u[1]] \in Nat /\ v[u[1]] <= w[u[1]]
    BY <2>1
  <2>3. u[2] \in 1..w[u[1]]
    BY <2>1, <2>2
  <2> QED
    BY <2>1, <2>3 DEF Units
<1>2. Units(v) \in SUBSET Units(w)
  BY <1>1
<1> QED
  BY <1>2, FS_Subset, FS_CardinalityType

LEMMA UnitsGrow ==
  ASSUME NEW w \in [Sessions -> Nat], NEW v \in [Sessions -> Nat], IsFiniteSet(Units(w)),
         NEW z \in Sessions, v[z] <= w[z] + 1,
         \A x \in Sessions \ {z} : v[x] <= w[x]
  PROVE  /\ IsFiniteSet(Units(v)) /\ Cardinality(Units(v)) \in Nat
         /\ Cardinality(Units(w)) \in Nat
         /\ Cardinality(Units(v)) <= Cardinality(Units(w)) + 1
<1> DEFINE new == <<z, w[z] + 1>>
<1>1. ASSUME NEW u \in Units(v) PROVE u \in Units(w) \cup {new}
  <2>1. u \in Sessions \X Nat /\ u[2] \in 1..v[u[1]]
    BY DEF Units
  <2>2. v[u[1]] \in Nat /\ w[u[1]] \in Nat
    BY <2>1
  <2>3. CASE u[2] \in 1..w[u[1]]
    BY <2>1, <2>3 DEF Units
  <2>4. CASE u[2] \notin 1..w[u[1]]
    <3>1. u[1] = z
      BY <2>1, <2>2, <2>4
    <3>2. u[2] = w[z] + 1
      BY <2>1, <2>2, <2>4, <3>1
    <3> QED
      BY <2>1, <3>1, <3>2
  <2> QED
    BY <2>3, <2>4
<1> HIDE DEF new
<1>2. Units(v) \in SUBSET (Units(w) \cup {new})
  BY <1>1
<1>3. Cardinality(Units(w)) \in Nat
  BY FS_CardinalityType
<1>4. /\ IsFiniteSet(Units(w) \cup {new})
      /\ Cardinality(Units(w) \cup {new})
           = IF new \in Units(w) THEN Cardinality(Units(w)) ELSE Cardinality(Units(w)) + 1
  BY FS_AddElement
<1>5. /\ IsFiniteSet(Units(v)) /\ Cardinality(Units(v)) \in Nat
      /\ Cardinality(Units(v)) <= Cardinality(Units(w) \cup {new})
  BY <1>2, <1>4, FS_Subset, FS_CardinalityType
<1> QED
  BY <1>3, <1>4, <1>5

LEMMA UnitsBilled ==
  ASSUME NEW w \in [Sessions -> Nat], NEW v \in [Sessions -> Nat], IsFiniteSet(Units(w)),
         NEW z \in Sessions, NEW n \in Nat, v[z] + n <= w[z],
         \A x \in Sessions \ {z} : v[x] <= w[x]
  PROVE  /\ IsFiniteSet(Units(v)) /\ Cardinality(Units(v)) \in Nat
         /\ Cardinality(Units(w)) \in Nat
         /\ Cardinality(Units(v)) + n <= Cardinality(Units(w))
<1> DEFINE billed == {z} \X ((v[z] + 1)..(v[z] + n))
<1>0. v[z] \in Nat /\ w[z] \in Nat
  OBVIOUS
<1>1. IsFiniteSet(billed) /\ Cardinality(billed) = n
  <2>1. PICK first \in Int, last \in Int : first = v[z] + 1 /\ last = v[z] + n
    BY <1>0
  <2>2. /\ IsFiniteSet(first..last)
        /\ Cardinality(first..last) = IF first > last THEN 0 ELSE last - first + 1
    BY FS_Interval
  <2>3. PICK S : S = (v[z] + 1)..(v[z] + n)
    OBVIOUS
  <2>4. IsFiniteSet(S) /\ Cardinality(S) = n
    BY <1>0, <2>1, <2>2, <2>3
  <2>5. IsFiniteSet({z}) /\ Cardinality({z}) = 1
    BY FS_Singleton
  <2>6. IsFiniteSet({z} \X S) /\ Cardinality({z} \X S) = 1 * n
    BY <2>4, <2>5, FS_Product
  <2>7. 1 * n = n
    OBVIOUS
  <2> QED
    BY <2>3, <2>6, <2>7
<1>2. ASSUME NEW u \in billed PROVE u \in Units(w) /\ u \notin Units(v)
  <2>1. PICK k \in (v[z] + 1)..(v[z] + n) : u = <<z, k>>
    OBVIOUS
  <2>2. k \in Nat /\ k \in 1..w[z] /\ k \notin 1..v[z]
    BY <1>0
  <2>3. u \in Sessions \X Nat /\ u[1] = z /\ u[2] = k
    BY <2>1, <2>2
  <2> QED
    BY <2>2, <2>3 DEF Units
<1> HIDE DEF billed
<1>3. /\ IsFiniteSet(Units(v)) /\ Cardinality(Units(v)) \in Nat
      /\ Cardinality(Units(w)) \in Nat
      /\ Units(v) \subseteq Units(w)
  <2>1. \A x \in Sessions : v[x] <= w[x]
    BY <1>0
  <2>2. ASSUME NEW u \in Units(v) PROVE u \in Units(w)
    <3>1. u \in Sessions \X Nat /\ u[2] \in 1..v[u[1]]
      BY DEF Units
    <3>2. v[u[1]] \in Nat /\ w[u[1]] \in Nat /\ v[u[1]] <= w[u[1]]
      BY <2>1, <3>1
    <3>3. u[2] \in 1..w[u[1]]
      BY <3>1, <3>2
    <3> QED
      BY <3>1, <3>3 DEF Units
  <2> QED
    BY <2>1, <2>2, UnitsFit
<1>4. Units(v) \cup billed \in SUBSET Units(w) /\ Units(v) \cap billed = {}
  BY <1>2, <1>3
<1>5. /\ IsFiniteSet(Units(v) \cup billed)
      /\ Cardinality(Units(v) \cup billed)
           = Cardinality(Units(v)) + Cardinality(billed) - Cardinality(Units(v) \cap billed)
  BY <1>1, <1>3, FS_Union
<1>6. Cardinality(Units(v) \cap billed) = 0
  BY <1>4, FS_EmptySet
<1>7. Cardinality(Units(v) \cup billed) <= Cardinality(Units(w))
  BY <1>4, FS_Subset
<1> QED
  BY <1>1, <1>3, <1>5, <1>6, <1>7

LEMMA DeltaZero == \A n \in Nat : Delta(n, n) = 0 /\ Delta(n, 0) = 0
BY DEF Delta

LEMMA DeltaGrows == \A m, n, d \in Nat : Delta(m, n + d) <= Delta(m, n) + d
BY DEF Delta

LEMMA MeterTypes ==
  ASSUME Typed, NEW x \in Sessions
  PROVE  /\ KeyOf(x) \in Keys /\ MeterKey(x) \in Keys
         /\ reported[x] \in Nat
         /\ baselines[x] \in [exists : BOOLEAN, last : Nat, used : Nat]
         /\ \A k \in Keys : wg[k].bytes \in Nat
         /\ Unread(x) \in Nat /\ Unbilled(x) \in Nat
<1> USE DEF Typed, TypeOK
<1>1. KeyOf(x) \in Keys /\ MeterKey(x) \in Keys
  BY ProviderAssumption DEF KeyOf, MeterKey
<1>2. /\ reported[x] \in Nat
      /\ baselines[x] \in [exists : BOOLEAN, last : Nat, used : Nat]
      /\ \A k \in Keys : wg[k].bytes \in Nat
  OBVIOUS
<1>3. Unread(x) \in Nat
  BY <1>1, <1>2, DeltaType DEF Unread
<1>4. Delta(reported[x], baselines[x].used) \in Nat
  BY <1>2, DeltaType
<1> QED
  BY <1>1, <1>2, <1>3, <1>4 DEF Unbilled

LEMMA UnpaidType == Typed => Unpaid \in [Sessions -> Nat]
BY MeterTypes DEF Unpaid

LEMMA UnpaidTypeNext == Typed' => (Unpaid \in [Sessions -> Nat])'
BY UnpaidType, PTL

\* A step that changes neither the charge nor the traffic and leaves no session
\* with more to bill.
LEMMA CoverFits ==
  ASSUME Typed, Typed', TrafficCovers, used' = used, passed' = passed,
         \A x \in Sessions : Unbilled(x)' <= Unbilled(x)
  PROVE  TrafficCovers'
<1>1. PICK w, v : w = Unpaid /\ v = Unpaid'
  OBVIOUS
<1>2. w \in [Sessions -> Nat] /\ v \in [Sessions -> Nat]
  BY <1>1, UnpaidType, UnpaidTypeNext
<1>3. \A x \in Sessions : v[x] <= w[x]
  BY <1>1 DEF Unpaid
<1>4. IsFiniteSet(Units(w)) /\ used + Cardinality(Units(w)) <= passed
  BY <1>1 DEF TrafficCovers
<1>5. /\ IsFiniteSet(Units(v)) /\ Cardinality(Units(v)) \in Nat /\ Cardinality(Units(w)) \in Nat
      /\ Cardinality(Units(v)) <= Cardinality(Units(w))
  BY <1>2, <1>3, <1>4, UnitsFit
<1>6. used \in Nat /\ passed \in Nat
  BY ProviderAssumption DEF Typed, TypeOK
<1>7. used + Cardinality(Units(v)) <= passed
  BY <1>4, <1>5, <1>6
<1>8. TrafficCovers' <=> IsFiniteSet(Units(v)) /\ used' + Cardinality(Units(v)) <= passed'
  BY <1>1 DEF TrafficCovers, Units
<1> QED
  BY <1>5, <1>7, <1>8

\* What keeps a session from having more to bill.
Quieter(x) ==
  /\ baselines'[x] = baselines[x] /\ reported'[x] = reported[x]
  /\ baselines[x].exists /\ Readable(x)' =>
       Readable(x) /\ wg'[MeterKey(x)'].bytes \in {0, wg[MeterKey(x)].bytes}

LEMMA QuieterFits ==
  ASSUME Typed, NEW x \in Sessions, Quieter(x)
  PROVE  Unbilled(x)' <= Unbilled(x)
<1>1. /\ reported[x] \in Nat
      /\ baselines[x].last \in Nat /\ baselines[x].used \in Nat
      /\ wg[MeterKey(x)].bytes \in Nat
      /\ Unread(x) \in Nat
  BY MeterTypes
<1>2. Unread(x)' \in Nat /\ Unread(x)' <= Unread(x)
  <2>1. CASE baselines[x].exists /\ Readable(x)'
    <3>1. Readable(x) /\ wg'[MeterKey(x)'].bytes \in {0, wg[MeterKey(x)].bytes}
      BY <2>1 DEF Quieter
    <3>2. Unread(x)' = Delta(baselines[x].last, wg'[MeterKey(x)'].bytes)
      BY <2>1 DEF Unread, Quieter
    <3>3. Unread(x) = Delta(baselines[x].last, wg[MeterKey(x)].bytes)
      BY <2>1, <3>1 DEF Unread
    <3>4. /\ Delta(baselines[x].last, 0) = 0
          /\ Delta(baselines[x].last, wg[MeterKey(x)].bytes) \in Nat
      BY <1>1, DeltaType, DeltaZero
    <3> QED
      BY <1>1, <3>1, <3>2, <3>3, <3>4
  <2>2. CASE ~ (baselines[x].exists /\ Readable(x)')
    <3>1. Unread(x)' = 0
      BY <2>2 DEF Unread, Quieter
    <3> QED
      BY <1>1, <3>1
  <2> QED
    BY <2>1, <2>2
<1>3. Delta(reported[x], baselines[x].used) \in Nat
  BY <1>1, DeltaType
<1>4. Unbilled(x)' = Delta(reported[x], baselines[x].used) + Unread(x)'
  BY DEF Unbilled, Quieter
<1> QED
  BY <1>1, <1>2, <1>3, <1>4 DEF Unbilled

\* Two sessions that are metered have counters of their own.
LEMMA MetersApart ==
  ASSUME MeterBase, KeysApart, NEW x \in Sessions, NEW y \in Sessions, x # y,
         baselines[x].exists, Readable(x), baselines[y].exists, Readable(y)
  PROVE  MeterKey(x) # MeterKey(y)
<1> USE DEF MeterBase, KeysApart, Readable, MeterKey
<1>1. CASE pc = "idle"
  BY <1>1 DEF NoListWhenIdle, ActiveApart
<1>2. CASE pc # "idle"
  BY <1>2 DEF MeteredListed, ListedApart
<1> QED
  BY <1>1, <1>2

\* The steps that leave metering alone.
LEMMA QuietMeters ==
  ASSUME MeterBase, KeysApart, ~ keyShared', NEW x \in Sessions,
         \/ ListSessions \/ Visit \/ AddPeer \/ RevokeUnreadable \/ DropPeer
         \/ \E y \in Sessions : SessionStarts(y) \/ SessionEnds(y)
         \/ \E d \in Consumers : KeyChanges(d)
         \/ TunnelRestarts \/ UNCHANGED vars
  PROVE  Quieter(x)
<1> USE DEF MeterBase, PeersInv, Typed, TypeOK
<1>0. /\ KeyOf(x) \in Keys /\ MeterKey(x) \in Keys
      /\ NoPeer.bytes = 0
  BY MeterTypes DEF NoPeer
<1>1. CASE ListSessions
  <2>1. listed'[x].key = KeyOf(x) /\ listed'[x].status = server[x]
    BY <1>1 DEF ListSessions, KeyOf
  <2> QED
    BY <1>1, <2>1 DEF ListSessions, Quieter, Readable, MeterKey, rows, charge
<1>2. CASE Visit
  <2>1. CASE todo = {}
    <3>1. pc # "idle" /\ pc' = "idle" /\ listed'[x].status = "unused"
      BY <1>2, <2>1 DEF Visit, Earliest, NoList
    <3>2. UNCHANGED <<server, key, wg, baselines, reported>>
      BY <1>2 DEF Visit, rows, charge
    <3>3. MeterKey(x)' = KeyOf(x) /\ MeterKey(x) = listed[x].key
      BY <3>1, <3>2 DEF MeterKey, KeyOf
    <3>4. baselines[x].exists /\ server[x] = "active" =>
            wg[KeyOf(x)].bytes \in {0, wg[listed[x].key].bytes}
      BY <1>0, <3>1 DEF KeysApart, LaterKeysAreFresh, MeteredListed
    <3> QED
      BY <3>1, <3>2, <3>3, <3>4 DEF Quieter, Readable
  <2>2. CASE todo # {}
    <3>1. pc # "idle" /\ pc' # "idle"
      BY <1>2, <2>2 DEF Visit
    <3>2. UNCHANGED <<server, key, wg, baselines, reported, listed>>
      BY <1>2, <2>2 DEF Visit, rows, charge
    <3> QED
      BY <3>1, <3>2 DEF Quieter, Readable, MeterKey
  <2> QED
    BY <2>1, <2>2
<1>3. CASE AddPeer
  <2>1. /\ pc # "idle" /\ pc' # "idle"
        /\ UNCHANGED <<server, key, baselines, reported, listed>>
    BY <1>3 DEF AddPeer, rows, charge
  <2>2. \A k \in Keys : wg'[k].bytes = wg[k].bytes
    <3>1. \A k \in Keys : wg[k] \in [on : BOOLEAN, bytes : Nat, address : Addresses \cup {0}]
      OBVIOUS
    <3>2. \/ UNCHANGED wg
          \/ \A k \in Keys : \/ wg'[k] = [wg[k] EXCEPT !.on = TRUE, !.address = address[current]]
                             \/ wg'[k] = [wg[k] EXCEPT !.address = 0]
                             \/ wg'[k] = wg[k]
      BY <1>3 DEF AddPeer, WithPeer
    <3> QED
      BY <3>1, <3>2
  <2> QED
    BY <1>0, <2>1, <2>2 DEF Quieter, Readable, MeterKey
<1>4. CASE RevokeUnreadable
  <2>1. /\ pc # "idle" /\ pc' # "idle"
        /\ UNCHANGED <<key, wg, baselines, reported, listed>>
        /\ server'[x] = "active" => server[x] = "active"
    BY <1>4 DEF RevokeUnreadable, charge
  <2> QED
    BY <2>1 DEF Quieter, Readable, MeterKey
<1>5. CASE DropPeer
  <2>1. /\ pc # "idle" /\ pc' # "idle"
        /\ UNCHANGED <<server, key, baselines, reported, listed>>
        /\ \A k \in Keys : wg'[k].bytes \in {0, wg[k].bytes}
    BY <1>0, <1>5 DEF DropPeer, RemovePeer, rows, charge
  <2> QED
    BY <1>0, <2>1 DEF Quieter, Readable, MeterKey
<1>6. ASSUME NEW y \in Sessions, SessionStarts(y) PROVE Quieter(x)
  <2>1. /\ UNCHANGED <<key, wg, baselines, reported, listed, pc>>
        /\ server[y] = "unused" /\ (x # y => server'[x] = server[x])
    BY <1>6 DEF SessionStarts, charge, agent
  <2>2. x = y => ~ baselines[x].exists
    BY <2>1 DEF MeteredListed
  <2> QED
    BY <2>1, <2>2 DEF Quieter, Readable, MeterKey, KeyOf
<1>7. ASSUME NEW y \in Sessions, SessionEnds(y) PROVE Quieter(x)
  <2>1. /\ UNCHANGED <<key, wg, baselines, reported, listed, pc>>
        /\ server'[x] = "active" => server[x] = "active"
    BY <1>7 DEF SessionEnds, charge, agent
  <2> QED
    BY <2>1 DEF Quieter, Readable, MeterKey, KeyOf
<1>8. ASSUME NEW d \in Consumers, KeyChanges(d) PROVE Quieter(x)
  <2>1. UNCHANGED <<server, wg, baselines, reported, listed, pc>>
    BY <1>8 DEF KeyChanges, charge, agent
  <2>2. PICK k \in Keys :
          /\ key' = [key EXCEPT ![d] = k]
          /\ ~ InUse(k) \/ \A y \in Sessions : DeviceOf[y] = d => server[y] # "active"
    BY <1>8 DEF KeyChanges
  <2>3. KeyOf(x)' = IF DeviceOf[x] = d THEN k ELSE KeyOf(x)
    BY <2>2, ProviderAssumption DEF KeyOf
  <2>4. CASE MeterKey(x)' = MeterKey(x)
    BY <1>0, <2>1, <2>4 DEF Quieter, Readable
  <2>5. CASE MeterKey(x)' # MeterKey(x)
    <3>1. pc = "idle" /\ DeviceOf[x] = d /\ MeterKey(x)' = k
      BY <2>1, <2>3, <2>5 DEF MeterKey
    <3>2. Readable(x) => server[x] = "active"
      BY <3>1 DEF Readable, NoListWhenIdle
    <3>3. Readable(x) => wg[k] = NoPeer
      BY <2>2, <3>1, <3>2 DEF InUse
    <3> QED
      BY <1>0, <2>1, <3>1, <3>3 DEF Quieter, Readable
  <2> QED
    BY <2>4, <2>5
<1>9. CASE TunnelRestarts
  <2>1. /\ UNCHANGED <<server, key, baselines, reported, listed, pc>>
        /\ \A k \in Keys : wg'[k].bytes = 0
    BY <1>0, <1>9 DEF TunnelRestarts, rows, charge, agent
  <2> QED
    BY <1>0, <2>1 DEF Quieter, Readable, MeterKey, KeyOf
<1>10. CASE UNCHANGED vars
  BY <1>10 DEF vars, Quieter, Readable, MeterKey, KeyOf
<1> QED
  BY <1>1, <1>2, <1>3, <1>4, <1>5, <1>6, <1>7, <1>8, <1>9, <1>10

LEMMA MeteredListedNext ==
  ASSUME PeersInv, MeteredListed, [Next]_vars
  PROVE  MeteredListed'
<1> USE DEF PeersInv, Typed, TypeOK
<1> SUFFICES ASSUME NEW x \in Sessions, baselines'[x].exists
             PROVE  /\ server'[x] # "unused"
                    /\ pc' # "idle" /\ server'[x] = "active" => listed'[x].status = "active"
  BY DEF MeteredListed
<1>1. \/ baselines[x].exists
      \/ ReadCounter /\ current = x
  <2>1. CASE ReadCounter
    BY <2>1 DEF ReadCounter
  <2>2. CASE Retire \/ AgentRestarts
    BY <2>2 DEF Retire, AgentRestarts, NoBaseline
  <2>3. CASE UNCHANGED baselines
    BY <2>3
  <2> QED
    BY <2>1, <2>2, <2>3
    DEF Next, Monitor, ListSessions, Visit, AddPeer, RevokeUnreadable, DropPeer, Report,
        SessionStarts, SessionEnds, KeyChanges, Transfer, TunnelRestarts, agent, vars
<1>2. /\ server[x] # "unused"
      /\ pc # "idle" /\ server[x] = "active" => listed[x].status = "active"
  <2>1. CASE ReadCounter /\ current = x
    BY <2>1 DEF ReadCounter, Orderly, Judged, Started
  <2> QED
    BY <1>1, <2>1 DEF MeteredListed
<1>3. \/ listed'[x].status = server[x]
      \/ pc' = "idle"
      \/ UNCHANGED listed /\ pc # "idle"
  <2>1. CASE ListSessions
    BY <2>1 DEF ListSessions
  <2>2. CASE Visit \/ AgentRestarts
    BY <2>2 DEF Visit, AgentRestarts
  <2>3. CASE UNCHANGED listed /\ (pc # "idle" \/ pc' = "idle")
    BY <2>3
  <2> QED
    BY <2>1, <2>2, <2>3
    DEF Next, Monitor, Retire, ReadCounter, AddPeer, RevokeUnreadable, DropPeer, Report,
        SessionStarts, SessionEnds, KeyChanges, Transfer, TunnelRestarts, agent, vars
<1>4. server'[x] # "unused" /\ (server'[x] = "active" => server[x] = "active")
  <2>1. CASE Report \/ RevokeUnreadable
    BY <1>2, <2>1 DEF Report, RevokeUnreadable
  <2>2. CASE \E y \in Sessions : SessionStarts(y) \/ SessionEnds(y)
    BY <1>2, <2>2 DEF SessionStarts, SessionEnds
  <2>3. CASE UNCHANGED server
    BY <1>2, <2>3
  <2> QED
    BY <2>1, <2>2, <2>3
    DEF Next, Monitor, ListSessions, Visit, Retire, ReadCounter, AddPeer, DropPeer,
        KeyChanges, Transfer, TunnelRestarts, AgentRestarts, rows, vars
<1> QED
  BY <1>2, <1>3, <1>4

LEMMA MeterBaseNext == MeterBase /\ [Next]_vars => MeterBase'
BY PeersInvNext, NoListWhenIdleNext, MeteredListedNext DEF MeterBase

\* Traffic adds a unit to what may be billed for one session, and that unit took
\* place.
LEMMA CoverTransfer ==
  ASSUME MeterBase, Typed', KeysApart, TrafficCovers, NEW k \in Keys, Transfer(k)
  PROVE  TrafficCovers'
<1> USE DEF MeterBase, PeersInv
<1>1. /\ UNCHANGED <<server, key, used, reported, baselines, pc, listed>>
      /\ passed' = passed + 1
      /\ \A j \in Keys : wg'[j].bytes = IF j = k THEN wg[j].bytes + 1 ELSE wg[j].bytes
  <2>1. wg \in [Keys -> [on : BOOLEAN, bytes : Nat, address : Addresses \cup {0}]]
    BY DEF Typed, TypeOK
  <2> QED
    BY <2>1 DEF Transfer, rows, charge, agent
<1> DEFINE Grows(x) == baselines[x].exists /\ Readable(x) /\ MeterKey(x) = k
<1>2. ASSUME NEW x \in Sessions, ~ Grows(x) PROVE Unbilled(x)' <= Unbilled(x)
  <2>1. MeterKey(x) \in Keys
    BY MeterTypes
  <2>2. Quieter(x)
    BY <1>1, <1>2, <2>1 DEF Quieter, Readable, MeterKey, KeyOf
  <2> QED
    BY <2>2, QuieterFits
<1>3. ASSUME NEW x \in Sessions, Grows(x) PROVE Unbilled(x)' <= Unbilled(x) + 1
  <2>1. /\ baselines[x].last \in Nat /\ wg[k].bytes \in Nat
        /\ reported[x] \in Nat /\ baselines[x].used \in Nat
    BY MeterTypes
  <2>2. Unread(x) = Delta(baselines[x].last, wg[k].bytes)
    BY <1>3 DEF Unread
  <2>3. Unread(x)' = Delta(baselines[x].last, wg[k].bytes + 1)
    BY <1>1, <1>3 DEF Unread, Readable, MeterKey, KeyOf
  <2>4. /\ Delta(baselines[x].last, wg[k].bytes) \in Nat
        /\ Delta(baselines[x].last, wg[k].bytes + 1) \in Nat
        /\ Delta(baselines[x].last, wg[k].bytes + 1) <= Delta(baselines[x].last, wg[k].bytes) + 1
        /\ Delta(reported[x], baselines[x].used) \in Nat
    <3>1. wg[k].bytes + 1 \in Nat
      BY <2>1
    <3> QED
      BY <2>1, <3>1, DeltaType, DeltaGrows
  <2>5. Unbilled(x)' = Delta(reported[x], baselines[x].used) + Unread(x)'
    BY <1>1 DEF Unbilled
  <2> QED
    BY <2>2, <2>3, <2>4, <2>5 DEF Unbilled
<1>4. PICK w, v : w = Unpaid /\ v = Unpaid'
  OBVIOUS
<1>5. w \in [Sessions -> Nat] /\ v \in [Sessions -> Nat]
  BY <1>4, UnpaidType, UnpaidTypeNext
<1>6. \A x \in Sessions : w[x] = Unbilled(x) /\ v[x] = Unbilled(x)'
  BY <1>4 DEF Unpaid
<1>7. IsFiniteSet(Units(w)) /\ used + Cardinality(Units(w)) <= passed
  BY <1>4 DEF TrafficCovers
<1>8. TrafficCovers' <=> IsFiniteSet(Units(v)) /\ used' + Cardinality(Units(v)) <= passed'
  BY <1>4 DEF TrafficCovers, Units
<1>9. used \in Nat /\ passed \in Nat
  BY ProviderAssumption DEF Typed, TypeOK
<1>10. CASE \E z \in Sessions : Grows(z)
  <2>1. PICK z \in Sessions : Grows(z)
    BY <1>10
  <2>2. \A x \in Sessions \ {z} : ~ Grows(x)
    BY <2>1, MetersApart
  <2> HIDE DEF Grows
  <2>3. v[z] <= w[z] + 1 /\ \A x \in Sessions \ {z} : v[x] <= w[x]
    BY <1>2, <1>3, <1>6, <2>1, <2>2
  <2>4. /\ IsFiniteSet(Units(v)) /\ Cardinality(Units(v)) \in Nat /\ Cardinality(Units(w)) \in Nat
        /\ Cardinality(Units(v)) <= Cardinality(Units(w)) + 1
    BY <1>5, <1>7, <2>3, UnitsGrow
  <2>5. used' + Cardinality(Units(v)) <= passed'
    BY <1>1, <1>7, <1>9, <2>4
  <2> QED
    BY <1>8, <2>4, <2>5
<1>11. CASE ~ \E z \in Sessions : Grows(z)
  <2> HIDE DEF Grows
  <2>1. \A x \in Sessions : v[x] <= w[x]
    BY <1>2, <1>6, <1>11
  <2>2. /\ IsFiniteSet(Units(v)) /\ Cardinality(Units(v)) \in Nat /\ Cardinality(Units(w)) \in Nat
        /\ Cardinality(Units(v)) <= Cardinality(Units(w))
    BY <1>5, <1>7, <2>1, UnitsFit
  <2>3. used' + Cardinality(Units(v)) <= passed'
    BY <1>1, <1>7, <1>9, <2>2
  <2> QED
    BY <1>8, <2>2, <2>3
<1> QED
  BY <1>10, <1>11

\* A report moves what it bills to the charge, up to the quota.
LEMMA CoverReported ==
  ASSUME PeersInv, PeersInv', TrafficCovers, Report
  PROVE  TrafficCovers'
<1> USE DEF PeersInv
<1>0. PICK z \in Sessions : z = current
  BY DEF Report, Typed, Working
<1>1. /\ pc # "idle" /\ pc' # "idle"
      /\ UNCHANGED <<key, wg, baselines, listed, passed>>
      /\ \A x \in Sessions : server'[x] = "active" => server[x] = "active"
  <2>1. server \in [Sessions -> Statuses]
    BY DEF Typed, TypeOK
  <2> QED
    BY <2>1 DEF Report
<1>2. CASE UNCHANGED charge
  <2>1. ASSUME NEW x \in Sessions PROVE Quieter(x)
    BY <1>1, <1>2 DEF Quieter, Readable, MeterKey, charge
  <2> QED
    BY <1>1, <1>2, <2>1, QuieterFits, CoverFits DEF charge
<1>3. CASE ~ UNCHANGED charge
  <2> DEFINE total == baselines[z].used
             billed == Delta(reported[z], total)
  <2>1. /\ used' = IF used + billed >= Quota THEN Quota ELSE used + billed
        /\ reported' = [reported EXCEPT ![z] = total]
    BY <1>0, <1>3 DEF Report, charge
  <2>2. /\ total \in Nat /\ reported[z] \in Nat /\ billed \in Nat
        /\ Delta(total, total) = 0
        /\ Unread(z) \in Nat
    BY MeterTypes, DeltaType, DeltaZero
  <2>3. reported \in [Sessions -> Nat] /\ used \in Nat /\ passed \in Nat /\ Quota \in Nat
    BY ProviderAssumption DEF Typed, TypeOK
  <2>4. used' \in Nat /\ used' <= used + billed
    <3> HIDE DEF billed
    <3> QED
      BY <2>1, <2>2, <2>3
  <2>5. ASSUME NEW x \in Sessions \ {z} PROVE Unbilled(x)' <= Unbilled(x)
    <3>1. Quieter(x)
      BY <1>1, <2>1, <2>3 DEF Quieter, Readable, MeterKey
    <3> QED
      BY <3>1, QuieterFits
  <2>6. Unbilled(z)' + billed <= Unbilled(z)
    <3>1. Unread(z)' \in Nat /\ Unread(z)' <= Unread(z)
      <4>1. MeterKey(z)' = MeterKey(z) /\ (Readable(z)' => Readable(z))
        BY <1>1 DEF MeterKey, Readable
      <4>2. Unread(z)' = Unread(z) \/ Unread(z)' = 0
        BY <1>1, <4>1 DEF Unread
      <4> QED
        BY <2>2, <4>2
    <3>2. Unbilled(z)' = 0 + Unread(z)'
      BY <1>1, <2>1, <2>2, <2>3 DEF Unbilled
    <3>3. Unbilled(z) = billed + Unread(z)
      BY DEF Unbilled
    <3> HIDE DEF billed
    <3> QED
      BY <2>2, <3>1, <3>2, <3>3
  <2>7. PICK w, v, n : w = Unpaid /\ v = Unpaid' /\ n = billed
    OBVIOUS
  <2>8. w \in [Sessions -> Nat] /\ v \in [Sessions -> Nat] /\ n \in Nat
    BY <2>2, <2>7, UnpaidType, UnpaidTypeNext
  <2>9. v[z] + n <= w[z] /\ \A x \in Sessions \ {z} : v[x] <= w[x]
    BY <2>5, <2>6, <2>7 DEF Unpaid
  <2>10. IsFiniteSet(Units(w)) /\ used + Cardinality(Units(w)) <= passed
    BY <2>7 DEF TrafficCovers
  <2>11. /\ IsFiniteSet(Units(v)) /\ Cardinality(Units(v)) \in Nat
         /\ Cardinality(Units(w)) \in Nat
         /\ Cardinality(Units(v)) + n <= Cardinality(Units(w))
    BY <2>8, <2>9, <2>10, UnitsBilled
  <2>12. TrafficCovers' <=> IsFiniteSet(Units(v)) /\ used' + Cardinality(Units(v)) <= passed'
    BY <2>7 DEF TrafficCovers, Units
  <2> HIDE DEF billed
  <2>13. used' + Cardinality(Units(v)) <= passed'
    BY <1>1, <2>3, <2>4, <2>7, <2>8, <2>10, <2>11
  <2> QED
    BY <2>11, <2>12, <2>13
<1> QED
  BY <1>2, <1>3

\* Reading a counter bills what was unread; forgetting a session bills nothing.
LEMMA CoverRead ==
  ASSUME PeersInv, PeersInv', TrafficCovers, ReadCounter
  PROVE  TrafficCovers'
<1> USE DEF PeersInv
<1>0. PICK z \in Sessions : z = current
  BY DEF ReadCounter, Typed, Working
<1>1. /\ pc # "idle" /\ pc' # "idle"
      /\ UNCHANGED <<server, key, wg, used, reported, listed, passed>>
      /\ Key \in Keys /\ listed[z].key = Key
      /\ listed[z].status = "active"
  BY <1>0 DEF ReadCounter, Typed, TypeOK, Working, Orderly, Judged, Key, MeterKey, rows, charge
<1>2. ASSUME NEW x \in Sessions, x # z \/ baselines'[x] = baselines[x]
      PROVE  Unbilled(x)' <= Unbilled(x)
  <2>1. baselines'[x] = baselines[x]
    BY <1>0, <1>2 DEF ReadCounter, Typed, TypeOK
  <2>2. Quieter(x)
    BY <1>1, <2>1 DEF Quieter, Readable, MeterKey
  <2> QED
    BY <2>2, QuieterFits
<1>3. ASSUME baselines'[z] # baselines[z]
      PROVE  Unbilled(z)' <= Unbilled(z)
  <2> DEFINE b == baselines[z]
             n == wg[Key].bytes
  <2>1. baselines'[z] = Metered(b, n)
    BY <1>0, <1>1, <1>3 DEF ReadCounter, Typed, TypeOK
  <2>2. /\ b \in [exists : BOOLEAN, last : Nat, used : Nat] /\ n \in Nat
        /\ reported[z] \in Nat
        /\ Unbilled(z) \in Nat
    BY <1>1, MeterTypes
  <2>3. /\ Metered(b, n).exists /\ Metered(b, n).last = n
        /\ Metered(b, n).used = IF b.exists THEN b.used + Delta(b.last, n) ELSE 0
    BY <2>2 DEF Metered, Advance
  <2>4. /\ Readable(z) /\ Readable(z)'
        /\ MeterKey(z) = Key /\ MeterKey(z)' = Key
    BY <1>1 DEF Readable, MeterKey
  <2>5. Unread(z)' = 0
    BY <1>1, <2>1, <2>2, <2>3, <2>4, DeltaZero DEF Unread
  <2>6. Unbilled(z)' = Delta(reported[z], Metered(b, n).used) + 0
    BY <1>1, <2>1, <2>5 DEF Unbilled
  <2>7. CASE b.exists
    <3>1. Unbilled(z) = Delta(reported[z], b.used) + Delta(b.last, n)
      BY <1>1, <2>4, <2>7 DEF Unbilled, Unread
    <3>2. b.last \in Nat /\ b.used \in Nat /\ Delta(b.last, n) \in Nat
      BY <2>2, DeltaType
    <3> HIDE DEF b, n
    <3>3. b.used + Delta(b.last, n) \in Nat
      BY <3>2
    <3>4. /\ Delta(reported[z], b.used + Delta(b.last, n))
               <= Delta(reported[z], b.used) + Delta(b.last, n)
          /\ Delta(reported[z], b.used + Delta(b.last, n)) \in Nat
          /\ Delta(reported[z], b.used) \in Nat
      BY <2>2, <3>2, <3>3, DeltaType, DeltaGrows
    <3> QED
      BY <2>3, <2>6, <2>7, <3>1, <3>2, <3>4
  <2>8. CASE ~ b.exists
    <3>1. Unbilled(z)' = 0
      BY <2>2, <2>3, <2>6, <2>8, DeltaZero
    <3> QED
      BY <2>2, <3>1
  <2> QED
    BY <2>7, <2>8
<1>4. \A x \in Sessions : Unbilled(x)' <= Unbilled(x)
  BY <1>1, <1>2, <1>3
<1> QED
  BY <1>1, <1>4, CoverFits

LEMMA CoverForget ==
  ASSUME PeersInv, PeersInv', TrafficCovers, Retire \/ AgentRestarts
  PROVE  TrafficCovers'
<1> USE DEF PeersInv
<1>1. UNCHANGED <<server, key, used, reported, passed>>
  BY DEF Retire, AgentRestarts, rows, charge
<1>2. ASSUME NEW x \in Sessions, baselines'[x] = NoBaseline
      PROVE  Unbilled(x)' <= Unbilled(x)
  <2>1. reported[x] \in Nat /\ Unbilled(x) \in Nat
    BY MeterTypes
  <2>2. Unbilled(x)' = Delta(reported[x], 0) + 0
    BY <1>1, <1>2 DEF Unbilled, Unread, NoBaseline
  <2> QED
    BY <2>1, <2>2, DeltaZero
<1>3. ASSUME NEW x \in Sessions, baselines'[x] # NoBaseline
      PROVE  Unbilled(x)' <= Unbilled(x)
  <2>1. baselines'[x] = baselines[x]
    BY <1>3 DEF Retire, AgentRestarts, Typed, TypeOK
  <2>2. Retire
    BY <1>3 DEF AgentRestarts
  <2>3. pc # "idle" /\ pc' # "idle" /\ UNCHANGED listed
    BY <2>2 DEF Retire
  <2>4. MeterKey(x) \in Keys /\ \A k \in Keys : wg'[k].bytes \in {0, wg[k].bytes}
    <3>1. MeterKey(x) \in Keys
      BY MeterTypes
    <3>2. wg \in [Keys -> [on : BOOLEAN, bytes : Nat, address : Addresses \cup {0}]] /\ NoPeer.bytes = 0
      BY DEF Typed, TypeOK, NoPeer
    <3> QED
      BY <2>2, <3>1, <3>2 DEF Retire, RemovePeer
  <2>5. Quieter(x)
    BY <1>1, <2>1, <2>3, <2>4 DEF Quieter, Readable, MeterKey
  <2> QED
    BY <2>5, QuieterFits
<1> QED
  BY <1>1, <1>2, <1>3, CoverFits

LEMMA MeterInvInit == Init => MeterInv
<1> SUFFICES ASSUME Init PROVE MeterInv
  OBVIOUS
<1>1. \A x \in Sessions : server[x] = "unused" /\ listed[x].status = "unused"
  BY DEF Init, NoList
<1>2. MeterBase /\ KeysApart
  BY <1>1, PeersInvInit
  DEF Init, MeterBase, MeteredListed, NoListWhenIdle, NoBaseline, KeysApart, ActiveApart, ListedApart,
      LaterKeysAreFresh
<1>3. used = 0 /\ passed = 0
  BY DEF Init
<1>4. \A x \in Sessions : Unbilled(x) = 0
  BY DeltaZero DEF Init, Unbilled, Unread, NoBaseline
<1>5. Units(Unpaid) = {}
  <2> SUFFICES ASSUME NEW u \in Units(Unpaid) PROVE FALSE
    OBVIOUS
  <2>1. u[1] \in Sessions /\ u[2] \in 1..Unpaid[u[1]]
    BY DEF Units
  <2>2. Unpaid[u[1]] = 0
    BY <1>4, <2>1 DEF Unpaid
  <2> QED
    BY <2>1, <2>2
<1>6. IsFiniteSet(Units(Unpaid)) /\ Cardinality(Units(Unpaid)) = 0
  BY <1>5, FS_EmptySet
<1> QED
  BY <1>2, <1>3, <1>6 DEF MeterInv, TrafficCovers

LEMMA MeterInvNext == MeterInv /\ [Next]_vars => MeterInv'
<1> SUFFICES ASSUME MeterInv, [Next]_vars PROVE MeterInv'
  OBVIOUS
<1>1. MeterBase /\ MeterBase' /\ PeersInv /\ PeersInv' /\ Typed /\ Typed'
  BY MeterBaseNext DEF MeterInv, MeterBase, PeersInv
<1> SUFFICES ASSUME ~ keyShared' PROVE KeysApart' /\ TrafficCovers'
  BY <1>1 DEF MeterInv
<1>2. KeysApart /\ TrafficCovers
  BY <1>1, StepOnKeys DEF MeterInv
<1>3. KeysApart'
  BY <1>1, <1>2, KeysApartNext
<1>4. CASE \/ ListSessions \/ Visit \/ AddPeer \/ RevokeUnreadable \/ DropPeer
           \/ \E y \in Sessions : SessionStarts(y) \/ SessionEnds(y)
           \/ \E d \in Consumers : KeyChanges(d)
           \/ TunnelRestarts \/ UNCHANGED vars
  <2>1. used' = used /\ passed' = passed
    BY <1>4 DEF ListSessions, Visit, AddPeer, RevokeUnreadable, DropPeer, SessionStarts,
                SessionEnds, KeyChanges, TunnelRestarts, charge, vars
  <2>2. \A x \in Sessions : Unbilled(x)' <= Unbilled(x)
    BY <1>1, <1>2, <1>4, QuietMeters, QuieterFits
  <2> QED
    BY <1>1, <1>2, <1>3, <2>1, <2>2, CoverFits
<1>5. CASE Retire \/ AgentRestarts
  BY <1>1, <1>2, <1>3, <1>5, CoverForget
<1>6. CASE ReadCounter
  BY <1>1, <1>2, <1>3, <1>6, CoverRead
<1>7. CASE Report
  BY <1>1, <1>2, <1>3, <1>7, CoverReported
<1>8. ASSUME NEW k \in Keys, Transfer(k) PROVE TrafficCovers'
  BY <1>1, <1>2, <1>8, CoverTransfer
<1> QED
  BY <1>3, <1>4, <1>5, <1>6, <1>7, <1>8 DEF Next, Monitor

\* The charge never exceeds the traffic, for any number of sessions, devices and
\* keys, however often the tunnel, the agent, reports and their answers fail, unless
\* an active session came to have a key in use: what was charged and what the next
\* readings and reports would add to it are together at most what went through the
\* tunnel, since no counter is read for two sessions.
THEOREM ChargesAreBacked == Spec => []ChargeNeverExceedsTraffic
<1>1. MeterInv => ChargeNeverExceedsTraffic
  <2> SUFFICES ASSUME MeterInv, ~ keyShared PROVE used <= passed
    BY DEF ChargeNeverExceedsTraffic
  <2>1. /\ used \in Nat /\ passed \in Nat
        /\ Cardinality(Units(Unpaid)) \in Nat
        /\ used + Cardinality(Units(Unpaid)) <= passed
    BY ProviderAssumption, FS_CardinalityType
       DEF MeterInv, MeterBase, TrafficCovers, PeersInv, Typed, TypeOK
  <2> QED
    BY <2>1
<1> QED
  BY <1>1, MeterInvInit, MeterInvNext, PTL DEF Spec

=============================================================================
