----------------------------- MODULE TunnelPool -----------------------------
(***************************************************************************)
(* The allocation of consumer tunnel addresses (allocateTunnelIP in        *)
(* internal/database/repository.go).  An address is abstracted to its      *)
(* offset from the network address of the pool, so the pool is             *)
(* 0..(Size - 1), with the network address at 0 and the broadcast address  *)
(* at Size - 1.                                                            *)
(***************************************************************************)
EXTENDS Naturals

CONSTANTS
  Size,           \* addresses of the pool: 2^(32 - prefix length)
  ProviderHost,   \* offset of the configured provider address
  PreferredHost   \* offset of the configured consumer address

\* A /30 is the smallest prefix the code accepts, and both configured
\* addresses must belong to the pool; nothing says that they are usable.
ASSUME PoolAssumption ==
  /\ Size \in Nat /\ Size >= 4
  /\ ProviderHost \in 0..(Size - 1)
  /\ PreferredHost \in 0..(Size - 1)

\* The addresses between the network and the broadcast address.
Usable == 1..(Size - 2)

\* Returned in place of ErrUnavailable; the network address is never leased.
NoAddress == 0

Start == IF PreferredHost \in Usable THEN PreferredHost ELSE 1

\* The address the scan looks at in its offset-th round, wrapping around.
Candidate(offset) == 1 + ((Start - 1 + offset) % (Size - 2))

\* Faulty: the provider's own address, a taken address, a scan that ends one
\* round early, and one that does not wrap around.
FreeWithProvider(used) == {o \in 0..(Size - 3) : Candidate(o) \notin used}

FreeOrTaken(used) == {o \in 0..(Size - 3) : Candidate(o) # ProviderHost}

FreeButLast(used) ==
  {o \in 0..(Size - 4) : Candidate(o) # ProviderHost /\ Candidate(o) \notin used}

FreeAhead(used) ==
  {o \in 0..(Size - 2 - Start) : Candidate(o) # ProviderHost /\ Candidate(o) \notin used}

FreeOffsets(used) ==
  {o \in 0..(Size - 3) : Candidate(o) # ProviderHost /\ Candidate(o) \notin used}

\* The loop returns at the first round that finds a free address.
Allocate(used) ==
  IF FreeOffsets(used) = {}
  THEN NoAddress
  ELSE Candidate(CHOOSE o \in FreeOffsets(used) : \A p \in FreeOffsets(used) : o <= p)

=============================================================================
