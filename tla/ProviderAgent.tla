---------------------------- MODULE ProviderAgent ----------------------------
(***************************************************************************)
(* Metering on a provider device: the provider branch of                   *)
(* LocalController.Monitor, the counter arithmetic of internal/traffic,    *)
(* the peers of the WireGuard interface, and the charging of a share by    *)
(* the control server's ReportTraffic.                                     *)
(*                                                                         *)
(* Monitor keeps two maps in memory, peers and baselines.  A round of its  *)
(* loop lists the sessions of the device and walks through the list, one   *)
(* command or request per step, while consumers use the tunnel, the        *)
(* server's sessions change and the list grows stale.                      *)
(*                                                                         *)
(* A peer is added and removed by the consumer's public key, and the list  *)
(* shows the key that the consumer's device has at that moment.  A peer    *)
(* takes its address over from whichever peer had it before.               *)
(*                                                                         *)
(* Rx and tx are one counter, since both are advanced alike and reported   *)
(* as their sum.  All sessions are sessions of one share.                  *)
(*                                                                         *)
(* A device is a row of the server's table.  Nothing keeps two rows from   *)
(* having one key: a device that was renamed registers a second row with   *)
(* the key it has.  Session ids are numbered in the order in which they    *)
(* start, but started_at, by which the list is sorted, counts whole        *)
(* seconds, and sessions of the same second are listed in any order.       *)
(***************************************************************************)
EXTENDS Naturals, FiniteSetsExt

CONSTANTS
  Sessions,    \* numbers, in the order they are started
  Consumers,   \* consumer devices
  DeviceOf,    \* DeviceOf[x]: the consumer device of session x
  StartedAt,   \* StartedAt[x]: the second in which session x starts
  Keys,        \* public keys
  FirstKey,    \* FirstKey[d]: the key device d is registered with at first
  Addresses,   \* numbers, in the order they are handed out
  Quota,       \* of the share, in traffic units
  MaxTraffic,  \* bound: units that consumers send and receive
  Failures,    \* the kinds of failures that may happen
  MaxFaults    \* bound: failures

ASSUME ProviderAssumption ==
  /\ Sessions \subseteq Nat \ {0}
  /\ DeviceOf \in [Sessions -> Consumers]
  /\ StartedAt \in [Sessions -> Nat]
  /\ \A x, y \in Sessions : x <= y => StartedAt[x] <= StartedAt[y]
  /\ FirstKey \in [Consumers -> Keys]
  /\ Addresses \subseteq Nat \ {0}
  /\ Quota \in Nat \ {0}
  /\ MaxTraffic \in Nat /\ MaxFaults \in Nat
  /\ Failures \subseteq {"request", "response", "add", "added", "read", "remove", "tunnel", "agent", "key"}

VARIABLES
  server,    \* server[x]: status of session x on the control server
  address,   \* address[x]: the tunnel address of session x, 0 before it starts
  key,       \* key[d]: the key that device d is registered with
  used,      \* the share's used_bytes
  reported,  \* reported[x]: total_bytes of the last report on session x
  wg,        \* wg[k]: the peer with key k on the WireGuard interface
  peers,     \* Monitor's map: the sessions it has added a peer for
  baselines, \* Monitor's map: baselines[x]
  pc,        \* what Monitor does next
  current,   \* the session it does that for, 0 between sessions
  listed,    \* the list of this round: status and key of each session
  todo,      \* the sessions of the list still to visit
  passed,    \* units that went through the tunnel, in total
  keyShared, \* history: whether an active session has come to have a key in use
  faults     \* failures so far

agent == <<peers, baselines, pc, current, listed, todo>>
charge == <<used, reported>>
rows == <<server, address, key>>
vars == <<server, address, key, used, reported, wg, peers, baselines, pc, current, listed, todo, passed, keyShared, faults>>

NoPeer == [on |-> FALSE, bytes |-> 0, address |-> 0]
NoList == [x \in Sessions |-> [status |-> "unused", key |-> FirstKey[DeviceOf[x]]]]
NoBaseline == [exists |-> FALSE, last |-> 0, used |-> 0]

Init ==
  /\ server = [x \in Sessions |-> "unused"]
  /\ address = [x \in Sessions |-> 0] /\ key = FirstKey
  /\ used = 0 /\ reported = [x \in Sessions |-> 0]
  /\ wg = [k \in Keys |-> NoPeer]
  /\ peers = {} /\ baselines = [x \in Sessions |-> NoBaseline]
  /\ pc = "idle" /\ current = 0
  /\ listed = NoList /\ todo = {}
  /\ passed = 0 /\ keyShared = FALSE /\ faults = 0

Fault(kind) == kind \in Failures /\ faults < MaxFaults /\ faults' = faults + 1

-----------------------------------------------------------------------------
(* The arithmetic of the two layers that turn counters into charges *)

\* Faulty: the unsigned difference of a counter that was reset.
DeltaUnderflows(previous, now) == now - previous

\* traffic.delta, and the same rule in ReportTraffic: a value below the last
\* one is that of a counter that started again from 0.
Delta(previous, now) == IF now >= previous THEN now - previous ELSE now

Advance(baseline, counter) ==
  [baseline EXCEPT !.used = @ + Delta(baseline.last, counter), !.last = counter]

\* Faulty: what the counter shows at the first reading is charged.
MeteredFromZero(baseline, counter) ==
  [exists |-> TRUE, last |-> counter, used |-> baseline.used + Delta(baseline.last, counter)]

\* The first reading of a session's counter is where metering starts.
Metered(baseline, counter) ==
  IF baseline.exists THEN Advance(baseline, counter)
  ELSE [exists |-> TRUE, last |-> counter, used |-> 0]

-----------------------------------------------------------------------------
(* Monitor, provider branch *)

\* Faulty: only the sessions that go on.
ListedActive == {x \in Sessions : server[x] = "active"}

\* ProviderSessions lists all sessions of the device, those that ended too.
Listed == {x \in Sessions : server[x] # "unused"}

GoesOn(status) == status = "active"

\* Faulty: the latest session first.
Latest(list) == {x \in list : \A y \in list : StartedAt[y] <= StartedAt[x]}

\* ORDER BY started_at: the session that comes first is one of these.
Earliest(list) == {x \in list : \A y \in list : StartedAt[x] <= StartedAt[y]}

ListSessions ==
  /\ pc = "idle"
  /\ listed' = [x \in Sessions |-> [status |-> server[x], key |-> key[DeviceOf[x]]]]
  /\ todo' = Listed
  /\ pc' = "next" /\ current' = 0
  /\ UNCHANGED <<rows, charge, wg, peers, baselines, passed, keyShared, faults>>

Visit ==
  /\ pc = "next"
  /\ \/ /\ todo = {}
        /\ pc' = "idle" /\ current' = 0 /\ listed' = NoList /\ UNCHANGED todo
     \/ \E x \in Earliest(todo) :
          /\ current' = x
          /\ todo' = todo \ {x}
          /\ pc' = IF ~ GoesOn(listed[x].status)
                   THEN IF x \in peers THEN "retire" ELSE "next"
                   ELSE IF x \in peers THEN "read" ELSE "add"
          /\ UNCHANGED listed
  /\ UNCHANGED <<rows, charge, wg, peers, baselines, passed, keyShared, faults>>

\* The key Monitor uses in a round is the one in the list.
Key == listed[current].key

\* wg set ... peer KEY remove.  Its error is ignored.
RemovePeer ==
  \/ wg' = [wg EXCEPT ![Key] = NoPeer] /\ UNCHANGED faults
  \/ UNCHANGED wg /\ Fault("remove")

\* A listed session that is over.
Retire ==
  /\ pc = "retire"
  /\ RemovePeer
  /\ peers' = peers \ {current}
  /\ baselines' = [baselines EXCEPT ![current] = NoBaseline]
  /\ pc' = "next"
  /\ UNCHANGED <<rows, charge, current, listed, todo, passed, keyShared>>

\* A peer that is there already keeps its counters.
WithPeer ==
  [k \in Keys |->
     IF k = Key THEN [wg[k] EXCEPT !.on = TRUE, !.address = address[current]]
     ELSE IF wg[k].address = address[current] THEN [wg[k] EXCEPT !.address = 0]
     ELSE wg[k]]

\* wg set ... peer KEY allowed-ips ADDRESS.  It fails with or without effect, and
\* Monitor does not know the peer then.
AddPeer ==
  /\ pc = "add"
  /\ \/ /\ wg' = WithPeer
        /\ peers' = peers \cup {current}
        /\ pc' = "read"
        /\ UNCHANGED faults
     \/ /\ \/ wg' = WithPeer /\ Fault("added")
           \/ UNCHANGED wg /\ Fault("add")
        /\ pc' = "next"
        /\ UNCHANGED peers
  /\ UNCHANGED <<rows, charge, baselines, current, listed, todo, passed, keyShared>>

\* "wg show ... dump" fails, or it does not list the peer.
ReadCounter ==
  /\ pc = "read"
  /\ LET peer == wg[Key] IN
     \/ /\ peer.on
        /\ baselines' = [baselines EXCEPT ![current] = Metered(@, peer.bytes)]
        /\ pc' = "report"
        /\ UNCHANGED faults
     \/ /\ IF peer.on THEN Fault("read") ELSE UNCHANGED faults
        /\ pc' = "revoke"
        /\ UNCHANGED baselines
  /\ UNCHANGED <<rows, charge, wg, peers, current, listed, todo, passed, keyShared>>

\* The counter cannot be read: the session is revoked, and its peer removed.
RevokeUnreadable ==
  /\ pc = "revoke"
  /\ \/ /\ server' = [server EXCEPT ![current] = IF @ = "active" THEN "revoked" ELSE @]
        /\ UNCHANGED faults
     \/ UNCHANGED server /\ Fault("request")
  /\ pc' = "drop"
  /\ UNCHANGED <<address, key, charge, wg, peers, baselines, current, listed, todo, passed, keyShared>>

\* The peer of a session that could not be read or has exhausted the share; its
\* baseline stays.
DropPeer ==
  /\ pc = "drop"
  /\ RemovePeer
  /\ peers' = peers \ {current}
  /\ pc' = "next"
  /\ UNCHANGED <<rows, charge, baselines, current, listed, todo, passed, keyShared>>

\* ReportTraffic on the server, and what Monitor makes of the answer.
Report ==
  /\ pc = "report"
  /\ LET total     == baselines[current].used
         newUsed   == used + Delta(reported[current], total)
         exhausted == newUsed >= Quota
     IN
     \/ /\ server[current] \in {"active", "revoked"}
        /\ used' = IF exhausted THEN Quota ELSE newUsed
        /\ reported' = [reported EXCEPT ![current] = total]
        /\ server' = IF exhausted THEN [server EXCEPT ![current] = "revoked"] ELSE server
        /\ \/ pc' = (IF exhausted THEN "drop" ELSE "next") /\ UNCHANGED faults
           \/ pc' = "next" /\ Fault("response")
     \/ /\ server[current] = "disconnected"
        /\ pc' = "next"
        /\ UNCHANGED <<server, charge, faults>>
     \/ /\ pc' = "next" /\ Fault("request")
        /\ UNCHANGED <<server, charge>>
  /\ UNCHANGED <<address, key, wg, peers, baselines, current, listed, todo, passed, keyShared>>

Monitor ==
  ListSessions \/ Visit \/ Retire \/ AddPeer \/ ReadCounter \/ RevokeUnreadable
  \/ DropPeer \/ Report

-----------------------------------------------------------------------------
(* The environment *)

AddressesInUse == {address[x] : x \in {y \in Sessions : server[y] = "active"}}

KeyOf(x) == key[DeviceOf[x]]

\* A key of an active session, or one that has a peer or gets it in this round.
InUse(k) ==
  \/ \E x \in Sessions : server[x] = "active" /\ KeyOf(x) = k
  \/ \E x \in Sessions : listed[x].status = "active" /\ listed[x].key = k
  \/ wg[k] # NoPeer

\* Sessions start in order, and a device has one live session at most; another
\* device with the same key may have one as well.
SessionStarts(x) ==
  /\ server[x] = "unused"
  /\ \A y \in Sessions : y < x => server[y] # "unused"
  /\ \A y \in Sessions : DeviceOf[y] = DeviceOf[x] => server[y] # "active"
  /\ used < Quota
  /\ Addresses \ AddressesInUse # {}
  /\ address' = [address EXCEPT ![x] = Min(Addresses \ AddressesInUse)]
  /\ server' = [server EXCEPT ![x] = "active"]
  /\ keyShared' = (keyShared \/ \E y \in Sessions : server[y] = "active" /\ KeyOf(y) = KeyOf(x))
  /\ UNCHANGED <<key, charge, wg, agent, passed, faults>>

\* A sweep or the owner revokes it, or one of the two sides disconnects.
SessionEnds(x) ==
  /\ \/ server[x] = "active" /\ \E to \in {"revoked", "disconnected"} :
          server' = [server EXCEPT ![x] = to]
     \/ server[x] = "revoked" /\ server' = [server EXCEPT ![x] = "disconnected"]
  /\ UNCHANGED <<address, key, charge, wg, agent, passed, keyShared, faults>>

\* The consumer's device is registered again, with any other key: a new one, the
\* key of another device, or one it had before.
KeyChanges(d) ==
  /\ Fault("key")
  /\ \E k \in Keys \ {key[d]} :
       /\ key' = [key EXCEPT ![d] = k]
       /\ keyShared' = \/ keyShared
                       \/ InUse(k) /\ \E x \in Sessions : DeviceOf[x] = d /\ server[x] = "active"
  /\ UNCHANGED <<server, address, charge, wg, agent, passed>>

\* A consumer uses the tunnel for as long as its peer is there and has an address.
Transfer(k) ==
  /\ wg[k].on /\ wg[k].address # 0
  /\ passed < MaxTraffic
  /\ passed' = passed + 1
  /\ wg' = [wg EXCEPT ![k].bytes = @ + 1]
  /\ UNCHANGED <<rows, charge, agent, keyShared, faults>>

\* The tunnel service starts again, from a configuration without these peers.
TunnelRestarts ==
  /\ Fault("tunnel")
  /\ wg' = [k \in Keys |-> NoPeer]
  /\ UNCHANGED <<rows, charge, agent, passed, keyShared>>

\* The agent's process is killed and started again: the maps are lost, the
\* WireGuard service runs on.
AgentRestarts ==
  /\ Fault("agent")
  /\ peers' = {} /\ baselines' = [x \in Sessions |-> NoBaseline]
  /\ pc' = "idle" /\ current' = 0 /\ listed' = NoList /\ todo' = {}
  /\ UNCHANGED <<rows, charge, wg, passed, keyShared>>

Next ==
  \/ Monitor
  \/ \E x \in Sessions : SessionStarts(x) \/ SessionEnds(x)
  \/ \E d \in Consumers : KeyChanges(d)
  \/ \E k \in Keys : Transfer(k)
  \/ TunnelRestarts
  \/ AgentRestarts

Spec == Init /\ [][Next]_vars

\* Monitor's ticker ticks, and the heartbeat that comes before a round does not
\* fail for ever.
FairSpec == Spec /\ WF_vars(Monitor)

-----------------------------------------------------------------------------
Statuses == {"unused", "active", "revoked", "disconnected"}

TypeOK ==
  /\ server \in [Sessions -> Statuses]
  /\ address \in [Sessions -> Addresses \cup {0}]
  /\ key \in [Consumers -> Keys]
  /\ used \in 0..Quota
  /\ reported \in [Sessions -> Nat]
  /\ wg \in [Keys -> [on : BOOLEAN, bytes : Nat, address : Addresses \cup {0}]]
  /\ peers \subseteq Sessions
  /\ baselines \in [Sessions -> [exists : BOOLEAN, last : Nat, used : Nat]]
  /\ pc \in {"idle", "next", "retire", "add", "read", "revoke", "drop", "report"}
  /\ current \in Sessions \cup {0}
  /\ listed \in [Sessions -> [status : Statuses, key : Keys]]
  /\ todo \subseteq Sessions
  /\ passed \in 0..MaxTraffic
  /\ keyShared \in BOOLEAN
  /\ faults \in 0..MaxFaults

\* Nobody is charged for traffic that did not take place, although the counter
\* runs through two layers of deltas, either side of each may start again, lose a
\* report or lose the answer, and keys change: to new ones at any time, and to any
\* key while the device has no active session.  Two active sessions with one key
\* are the exception, and so is a session whose device takes a key in use: Monitor
\* then meters one counter for two sessions, or goes on from the wrong one.
ChargeNeverExceedsTraffic == keyShared \/ used <= passed

\* Monitor's step is about another session that it cannot tell from x on the
\* interface, or cannot put in order with x: one of another device with the same
\* key, or one of the same device from the same second.
Confused(x) ==
  /\ current \in Sessions \ {x}
  /\ \/ DeviceOf[current] # DeviceOf[x] /\ Key = KeyOf(x)
     \/ DeviceOf[current] = DeviceOf[x] /\ StartedAt[current] = StartedAt[x]

\* A session that goes on keeps the peer Monitor added for it, and the peer keeps
\* the session's address, whatever Monitor does for the other sessions: those of
\* the same device share its key, and those that start later may get the address
\* of one that ended, which a stale list shows as active (AddPeer, RemovePeer).
\* The exceptions are a restart of the tunnel and the sessions that Confused names.
PeersStaySeparate ==
  [][\A x \in peers \cap peers' :
       server[x] = "active" /\ wg[KeyOf(x)].on /\ wg[KeyOf(x)].address = address[x]
         => \/ wg'[KeyOf(x)].on /\ wg'[KeyOf(x)].address = address[x]
            \/ TunnelRestarts
            \/ Confused(x)]_vars

\* A key that no active session stands behind loses its access to the tunnel,
\* unless its device has registered another key by then.
EndedSessionLosesItsPeer ==
  \A k \in Keys :
    LET stray == wg[k].on /\ ~ \E x \in Sessions : KeyOf(x) = k /\ server[x] = "active"
    IN  stray ~> (~ stray \/ \A d \in Consumers : key[d] # k)

=============================================================================
