--------------------------- MODULE MCLocalIdentity ---------------------------
(***************************************************************************)
(* Small instances of LocalIdentity for TLC.                               *)
(***************************************************************************)
EXTENDS LocalIdentity, TLC

CONSTANTS s1, s2, u1, u2, n1, n2, d1, d2

MCSymmetry == Permutations(Users) \cup Permutations(DeviceIds)

=============================================================================
