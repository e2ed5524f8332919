------------------------- MODULE AddressLeasesProofs -------------------------
(***************************************************************************)
(* The address pool keeps its promises for every pool the server accepts.  *)
(***************************************************************************)
EXTENDS AddressLeases, TunnelPoolProofs

\* Leases stay within the usable addresses, however sessions come and go.
THEOREM Typing == Spec => []TypeOK
<1>1. Init => TypeOK
  BY DEF Init, TypeOK
<1>2. TypeOK /\ [Next]_leased => TypeOK'
  <2> SUFFICES ASSUME TypeOK, [Next]_leased PROVE TypeOK'
    OBVIOUS
  <2>1. CASE Lease
    BY <2>1, AllocateIsSound DEF Lease, TypeOK
  <2>2. ASSUME NEW hosts \in SUBSET leased, Release(hosts) PROVE TypeOK'
    BY <2>2 DEF Release, TypeOK
  <2>3. CASE UNCHANGED leased
    BY <2>3 DEF TypeOK
  <2> QED BY <2>1, <2>2, <2>3 DEF Next
<1> QED BY <1>1, <1>2, PTL DEF Spec

\* No session is refused while an address is left.
THEOREM NoEarlyRefusal == Spec => []RefusedOnlyWhenFull
<1>1. TypeOK => RefusedOnlyWhenFull
  BY AllocateIsComplete DEF TypeOK, RefusedOnlyWhenFull
<1> QED BY <1>1, Typing, PTL

\* The next session gets an address of its own.
THEOREM FreshAddresses == Spec => []NextAddressIsFree
<1>1. NextAddressIsFree
  BY AllocateIsSound DEF NextAddressIsFree
<1> QED BY <1>1, PTL

-----------------------------------------------------------------------------
(* The loop of allocateTunnelIP: a recursive function whose rounds look ahead. *)

Free(used, o) == Candidate(o) # ProviderHost /\ Candidate(o) \notin used

\* What a round of the loop does, given what the later rounds return.
RoundOf(used, later, o) ==
  IF o = Size - 2 THEN NoAddress
  ELSE IF Candidate(o) = ProviderHost \/ Candidate(o) \in used THEN later[o + 1]
  ELSE Candidate(o)

IsLoop(used, f) == f = [o \in 0..(Size - 2) |-> RoundOf(used, f, o)]

LEMMA FreeRounds ==
  ASSUME NEW used, NEW o
  PROVE  o \in FreeOffsets(used) <=> o \in Nat /\ o < Size - 2 /\ Free(used, o)
<1>1. o \in 0..(Size - 3) <=> o \in Nat /\ o < Size - 2
  BY PoolAssumption
<1> QED BY <1>1 DEF FreeOffsets, Free

\* The free offsets that round o and later ones look at.
Ahead(used, o) == {p \in FreeOffsets(used) : o <= p}

\* There is a function that is what the loop's rounds say of each other.
LEMMA LoopExists ==
  ASSUME NEW used
  PROVE  \E f : IsLoop(used, f)
<1> DEFINE First(S) == CHOOSE o \in S : \A p \in S : o <= p
           f == [o \in 0..(Size - 2) |->
                   IF Ahead(used, o) = {} THEN NoAddress ELSE Candidate(First(Ahead(used, o)))]
<1> SUFFICES ASSUME NEW o \in 0..(Size - 2) PROVE f[o] = RoundOf(used, f, o)
  BY DEF IsLoop
<1>1. Size - 2 \in Nat /\ o \in Nat
  BY PoolAssumption
<1>2. \A p : p \in FreeOffsets(used) <=> p \in Nat /\ p < Size - 2 /\ Free(used, p)
  BY FreeRounds
<1>3. CASE o = Size - 2
  <2>1. Ahead(used, o) = {}
    <3>1. \A p \in Ahead(used, o) : p \in Nat /\ p < o /\ o <= p
      BY <1>2, <1>3 DEF Ahead
    <3> QED BY <1>1, <3>1
  <2> QED
    BY <1>3, <2>1 DEF RoundOf
<1>4. CASE o # Size - 2 /\ ~ Free(used, o)
  <2>1. o + 1 \in 0..(Size - 2)
    BY <1>1, <1>4
  <2>2. Ahead(used, o) = Ahead(used, o + 1)
    <3>1. \A p \in FreeOffsets(used) : p # o /\ (o <= p <=> o + 1 <= p)
      BY <1>1, <1>2, <1>4
    <3> QED
      BY <3>1 DEF Ahead
  <2>3. f[o] = f[o + 1]
    BY <2>1, <2>2
  <2> HIDE DEF f
  <2> QED
    BY <1>4, <2>3 DEF RoundOf, Free
<1>5. CASE o # Size - 2 /\ Free(used, o)
  <2>1. o \in Ahead(used, o) /\ \A p \in Ahead(used, o) : p \in Nat /\ o <= p
    <3>1. o < Size - 2 /\ o <= o
      BY <1>1, <1>5
    <3> QED BY <1>1, <1>2, <1>5, <3>1 DEF Ahead
  <2>2. \A q \in Ahead(used, o) : (\A p \in Ahead(used, o) : q <= p) => q = o
    BY <1>1, <2>1
  <2>3. First(Ahead(used, o)) = o
    BY <2>1, <2>2
  <2>4. f[o] = Candidate(o)
    BY <2>1, <2>3
  <2> HIDE DEF f
  <2> QED
    BY <1>5, <2>4 DEF RoundOf, Free
<1> QED
  BY <1>3, <1>4, <1>5

\* Every such function returns at round 0 what it returns at round m, if no
\* round before m finds a free address.
LEMMA LoopSkips ==
  ASSUME NEW used, NEW f, IsLoop(used, f), NEW m \in 0..(Size - 2),
         \A o \in 0..(m - 1) : ~ Free(used, o)
  PROVE  f[0] = f[m]
<1> DEFINE Same == {o \in 0..m : f[o] = f[m]}
<1>1. m \in Nat /\ Size - 2 \in Nat
  BY PoolAssumption
<1>2. Same \in SUBSET Nat /\ m \in Same
  BY <1>1
<1> HIDE DEF Same
<1>3. PICK o \in Same : \A p \in Same : o <= p
  BY <1>2, LeastOfNaturals
<1>4. o \in 0..m /\ f[o] = f[m]
  BY DEF Same
<1>5. CASE o # 0
  <2>1. o - 1 \in 0..(m - 1) /\ o - 1 \in 0..m /\ o - 1 \in 0..(Size - 2) /\ o - 1 # Size - 2
        /\ o - 1 + 1 = o
    BY <1>1, <1>4, <1>5
  <2>2. ~ Free(used, o - 1)
    BY <2>1
  <2>3. f[o - 1] = RoundOf(used, f, o - 1)
    BY <2>1 DEF IsLoop
  <2>4. f[o - 1] = f[o]
    BY <2>1, <2>2, <2>3 DEF RoundOf, Free
  <2>5. o - 1 \in Same
    BY <1>4, <2>1, <2>4 DEF Same
  <2> QED
    BY <1>3, <1>4, <2>5
<1> QED
  BY <1>4, <1>5

\* The closed form of Allocate is what the loop of allocateTunnelIP returns, for
\* every pool and every set of taken addresses.
THEOREM AllocateIsScan == ASSUME NEW used PROVE Allocate(used) = Scan(used)
<1> DEFINE loop == CHOOSE f : IsLoop(used, f)
<1>1. Scan(used) = loop[0]
  BY DEF Scan, IsLoop, RoundOf
<1>2. IsLoop(used, loop)
  BY LoopExists
<1> HIDE DEF loop
<1>3. Size - 2 \in Nat /\ Size - 3 \in Nat
  BY PoolAssumption
<1>4. CASE FreeOffsets(used) = {}
  <2>1. \A o \in 0..(Size - 2 - 1) : ~ Free(used, o)
    <3> SUFFICES ASSUME NEW o \in 0..(Size - 2 - 1) PROVE ~ Free(used, o)
      OBVIOUS
    <3>1. o \in Nat /\ o < Size - 2
      BY <1>3
    <3> QED BY <1>4, <3>1, FreeRounds
  <2>2. loop[0] = loop[Size - 2]
    BY <1>2, <1>3, <2>1, LoopSkips
  <2>3. loop[Size - 2] = NoAddress
    BY <1>2, <1>3 DEF IsLoop, RoundOf
  <2> QED
    BY <1>1, <1>4, <2>2, <2>3 DEF Allocate
<1>5. CASE FreeOffsets(used) # {}
  <2> DEFINE m == CHOOSE o \in FreeOffsets(used) : \A p \in FreeOffsets(used) : o <= p
  <2>1. FreeOffsets(used) \in SUBSET (0..(Size - 3))
    BY DEF FreeOffsets
  <2>2. m \in FreeOffsets(used) /\ \A p \in FreeOffsets(used) : m <= p
    BY <1>5, <2>1, LeastOffset
  <2>3. Allocate(used) = Candidate(m)
    BY <1>5 DEF Allocate
  <2> HIDE DEF m
  <2>4. m \in 0..(Size - 3) /\ m \in 0..(Size - 2) /\ m # Size - 2 /\ Free(used, m)
    <3>1. m \in Nat /\ m < Size - 2 /\ Free(used, m)
      BY <2>2, FreeRounds
    <3>2. m \in 0..(Size - 3) /\ m \in 0..(Size - 2) /\ m # Size - 2
      BY <3>1, PoolAssumption
    <3> QED BY <3>1, <3>2
  <2>5. ASSUME NEW o \in 0..(m - 1) PROVE ~ Free(used, o)
    <3>1. o \in 0..(Size - 3) /\ ~ (m <= o)
      BY <1>3, <2>4
    <3>2. o \in Nat /\ o < Size - 2
      BY <3>1, PoolAssumption
    <3> QED
      BY <2>2, <3>1, <3>2, FreeRounds
  <2>6. loop[0] = loop[m]
    BY <1>2, <2>4, <2>5, LoopSkips
  <2>7. loop[m] = RoundOf(used, loop, m)
    BY <1>2, <2>4 DEF IsLoop
  <2>8. loop[m] = Candidate(m)
    BY <2>4, <2>7 DEF RoundOf, Free
  <2> QED
    BY <1>1, <2>3, <2>6, <2>8
<1> QED
  BY <1>4, <1>5

\* Whichever addresses earlier sessions left behind, the server's loop and the
\* closed form that the other theorems are about agree.
THEOREM LoopAgrees == Spec => []AllocateIsTheLoop
<1>1. AllocateIsTheLoop
  BY AllocateIsScan DEF AllocateIsTheLoop
<1> QED BY <1>1, PTL

=============================================================================
