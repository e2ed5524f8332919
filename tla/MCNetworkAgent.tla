---------------------------- MODULE MCNetworkAgent ----------------------------
(***************************************************************************)
(* Small instances of NetworkAgent for TLC.                                *)
(***************************************************************************)
EXTENDS NetworkAgent, TLC

CONSTANTS x1, x2, n1, g1, e1, e2, h1, m1, v1

MCInitEndpoint == [n \in Manual |-> e1]

MCSymmetry == Permutations(Sessions)

=============================================================================
