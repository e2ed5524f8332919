-------------------------- MODULE SessionLifecycle --------------------------
(***************************************************************************)
(* The lifecycle of sessions as internal/session/state.go declares it.     *)
(* The server does not call that machine, it writes statuses straight into *)
(* the table; this is the abstract specification its writes have to meet.  *)
(***************************************************************************)

CONSTANT Ids      \* session ids
VARIABLE status   \* status[x]: the status of session x

\* The transitions table, with the row of each status that has one.
Transitions ==
  [pending       |-> {"active", "failed", "revoked"},
   active        |-> {"disconnecting", "revoked", "failed"},
   disconnecting |-> {"disconnected", "failed"},
   failed        |-> {"disconnecting", "disconnected"},
   revoked       |-> {"disconnecting", "disconnected"}]

\* Transition's guard: a status without a row leads nowhere.
Allowed(from, to) == from \in DOMAIN Transitions /\ to \in Transitions[from]

\* One write of the server may take two transitions at once: an active
\* session that is disconnected passes over "disconnecting" or "revoked".
Follows(from, to) ==
  \/ Allowed(from, to)
  \/ \E mid \in DOMAIN Transitions : Allowed(from, mid) /\ Allowed(mid, to)

\* A session starts as pending, or as active when it is set up in one step.
Opens(from, to) == from = "unused" /\ to \in {"pending", "active"}

Init == status = [x \in Ids |-> "unused"]

\* One statement may move several sessions.
Next ==
  /\ DOMAIN status' = Ids
  /\ \A x \in Ids :
       \/ status'[x] = status[x]
       \/ Opens(status[x], status'[x])
       \/ Follows(status[x], status'[x])

Spec == Init /\ [][Next]_status

=============================================================================
