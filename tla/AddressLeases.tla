--------------------------- MODULE AddressLeases ---------------------------
(***************************************************************************)
(* The address pool of one provider over time: sessions take addresses     *)
(* from it and give them back when they end, in any order.                 *)
(***************************************************************************)
EXTENDS TunnelPool

VARIABLE leased   \* addresses of the provider's live sessions

Init == leased = {}

\* CreateSession inserts the address it got; without one it fails.
Lease ==
  /\ Allocate(leased) # NoAddress
  /\ leased' = leased \cup {Allocate(leased)}

\* Sessions end, one or, in a statement of the sweeper or of StopShare, several:
\* their rows no longer count.
Release(hosts) == leased' = leased \ hosts

Next == (\E hosts \in SUBSET leased : Release(hosts)) \/ Lease

Spec == Init /\ [][Next]_leased

-----------------------------------------------------------------------------
(* The loop of allocateTunnelIP, round by round. *)
Scan(used) ==
  LET Round[o \in 0..(Size - 2)] ==
        IF o = Size - 2 THEN NoAddress
        ELSE IF Candidate(o) = ProviderHost \/ Candidate(o) \in used THEN Round[o + 1]
        ELSE Candidate(o)
  IN  Round[0]

-----------------------------------------------------------------------------
\* Only usable addresses are leased, never the provider's own one.
TypeOK == leased \subseteq Usable \ {ProviderHost}

\* The closed form of Allocate returns what the loop returns, whichever
\* addresses earlier sessions left behind.
AllocateIsTheLoop == Allocate(leased) = Scan(leased)

\* A session is refused only when every usable address is taken: the scan that
\* starts at the preferred address wraps around and skips none.
RefusedOnlyWhenFull ==
  Allocate(leased) = NoAddress => leased = Usable \ {ProviderHost}

\* The next session gets an address that no live session holds.
NextAddressIsFree ==
  Allocate(leased) # NoAddress => Allocate(leased) \in Usable \ (leased \cup {ProviderHost})

=============================================================================
