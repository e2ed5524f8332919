----------------------------- MODULE MCEndToEnd -----------------------------
(***************************************************************************)
(* A small instance of EndToEnd: one provider, one consumer, one share and *)
(* one session of it.                                                      *)
(***************************************************************************)
EXTENDS EndToEnd

CONSTANTS owner, guest, p1, c1

MCUserOf == [d \in Devices |-> IF d = p1 THEN owner ELSE guest]

MCRoles == [d \in Devices |-> IF d = p1 THEN {"provider"} ELSE {"consumer"}]

=============================================================================
