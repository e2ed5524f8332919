--------------------------- MODULE MCControlPlane ---------------------------
(***************************************************************************)
(* Small instances of ControlPlane: an owner with provider devices and     *)
(* receivers with consumer devices.                                        *)
(***************************************************************************)
EXTENDS ControlPlane, TLC

CONSTANTS owner, guest, p1, p2, c1, c2

\* c1 and c2 belong to the guest; p1 and p2 to the owner.
MCUserOf == [d \in Devices |-> IF d \in {p1, p2} THEN owner ELSE guest]

\* Every device keeps the role its agent is configured with.
MCFixedRoles ==
  [d \in Devices |-> IF d \in {p1, p2} THEN {"provider"} ELSE {"consumer"}]

\* One device of the guest may be registered again under the other role: either
\* user owns a provider at times, and c2 may change sides during a session.
MCChangingRoles == [MCFixedRoles EXCEPT ![c2] = Roles]

MCSymmetry == Permutations(Sessions) \cup Permutations(Shares)

=============================================================================
