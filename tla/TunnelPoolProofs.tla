-------------------------- MODULE TunnelPoolProofs --------------------------
(***************************************************************************)
(* What allocateTunnelIP returns, for every pool it accepts.               *)
(***************************************************************************)
EXTENDS TunnelPool, WellFoundedInduction, TLAPS

\* The scan's modulus, for arguments less than twice the divisor.
LEMMA ModBelowTwice ==
  ASSUME NEW n \in Nat \ {0}, NEW a \in 0..(2 * n - 1)
  PROVE  a % n = IF a < n THEN a ELSE a - n
  OBVIOUS

LEMMA StartIsUsable == Start \in Usable
BY PoolAssumption DEF Start, Usable

\* Every round looks at a usable address.
LEMMA CandidateIsUsable ==
  ASSUME NEW o \in 0..(Size - 3)
  PROVE  Candidate(o) \in Usable
<1> DEFINE n == Size - 2
           a == Start - 1 + o
<1>1. n \in Nat \ {0} /\ a \in 0..(2 * n - 1)
  BY PoolAssumption, StartIsUsable DEF Usable
<1>2. a % n \in 0..(n - 1)
  <2> HIDE DEF n, a
  <2> QED BY <1>1, ModBelowTwice
<1> QED BY <1>2, PoolAssumption DEF Candidate, Usable

\* Every usable address has its round: the scan wraps around.
LEMMA EveryUsableHasARound ==
  ASSUME NEW h \in Usable
  PROVE  \E o \in 0..(Size - 3) : Candidate(o) = h
<1> DEFINE n == Size - 2
           o == IF h >= Start THEN h - Start ELSE h - Start + n
           a == Start - 1 + o
<1>1. /\ n \in Nat \ {0} /\ a \in 0..(2 * n - 1)
      /\ o \in 0..(Size - 3)
      /\ a = IF h >= Start THEN h - 1 ELSE h - 1 + n
      /\ h - 1 \in 0..(n - 1)
  BY PoolAssumption, StartIsUsable DEF Usable
<1>2. a % n = h - 1
  <2>1. a % n = IF a < n THEN a ELSE a - n
    <3> HIDE DEF n, a
    <3> QED BY <1>1, ModBelowTwice
  <2> HIDE DEF n, a, o
  <2> QED BY <1>1, <2>1, StartIsUsable, PoolAssumption DEF Usable
<1>3. Candidate(o) = 1 + (h - 1)
  BY <1>2 DEF Candidate
<1> QED BY <1>1, <1>3, PoolAssumption DEF Usable

\* A set of naturals that is not empty has a least element.
LEMMA LeastOfNaturals ==
  ASSUME NEW S \in SUBSET Nat, S # {}
  PROVE  \E o \in S : \A p \in S : o <= p
<1>1. PICK o \in S : \A p \in S : <<p, o>> \notin OpToRel(<, Nat)
  BY NatLessThanWellFounded, WFMin
<1>2. \A p \in S : ~ (p < o)
  BY <1>1 DEF OpToRel
<1> QED BY <1>2

LEMMA LeastOffset ==
  ASSUME NEW S \in SUBSET (0..(Size - 3)), S # {}
  PROVE  \E o \in S : \A p \in S : o <= p
<1>1. S \subseteq Nat
  BY PoolAssumption
<1> QED BY <1>1, LeastOfNaturals

\* An address that is returned is usable, not the provider's and not taken;
\* none is returned only when all of them are taken.
THEOREM AllocateIsSound ==
  ASSUME NEW used, Allocate(used) # NoAddress
  PROVE  Allocate(used) \in Usable \ (used \cup {ProviderHost})
<1>1. FreeOffsets(used) # {} /\ FreeOffsets(used) \in SUBSET (0..(Size - 3))
  BY DEF Allocate, FreeOffsets
<1> DEFINE o == CHOOSE o \in FreeOffsets(used) : \A p \in FreeOffsets(used) : o <= p
<1>2. o \in FreeOffsets(used)
  BY <1>1, LeastOffset
<1>3. Allocate(used) = Candidate(o)
  BY <1>1 DEF Allocate
<1> HIDE DEF o
<1>4. Candidate(o) \in Usable
  BY <1>1, <1>2, CandidateIsUsable
<1> QED BY <1>2, <1>3, <1>4 DEF FreeOffsets

THEOREM AllocateIsComplete ==
  ASSUME NEW used, Allocate(used) = NoAddress
  PROVE  Usable \ {ProviderHost} \subseteq used
<1>1. FreeOffsets(used) = {}
  <2> SUFFICES ASSUME FreeOffsets(used) # {}
               PROVE  FALSE
    OBVIOUS
  <2> DEFINE o == CHOOSE o \in FreeOffsets(used) : \A p \in FreeOffsets(used) : o <= p
  <2>1. o \in FreeOffsets(used)
    BY LeastOffset DEF FreeOffsets
  <2>2. Allocate(used) = Candidate(o)
    BY DEF Allocate
  <2> HIDE DEF o
  <2>3. Candidate(o) \in Usable
    BY <2>1, CandidateIsUsable DEF FreeOffsets
  <2> QED BY <2>2, <2>3, PoolAssumption DEF Usable, NoAddress
<1> SUFFICES ASSUME NEW h \in Usable \ {ProviderHost}
             PROVE  h \in used
  OBVIOUS
<1>2. PICK o \in 0..(Size - 3) : Candidate(o) = h
  BY EveryUsableHasARound
<1> QED BY <1>1, <1>2 DEF FreeOffsets

=============================================================================
