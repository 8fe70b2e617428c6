--------------------------- MODULE AtomicsProofs ---------------------------
(***************************************************************************)
(* No increment is lost, for any number of threads and words and any width.*)
(***************************************************************************)
EXTENDS Atomics, TLAPS

\* NoLostUpdate is not inductive: a matching SC stores what its LR read, so the
\* reservation must vouch for that value.
Inv == TypeOK /\ ReservationIsCurrent /\ NoLostUpdate

LEMMA PlusType == ASSUME NEW v \in Words PROVE Plus(v) \in Words
  BY AtomicsAssumption DEF Plus, Words

LEMMA InitInv == Init => Inv
<1>1. 0 \in Words  BY AtomicsAssumption DEF Words
<1> QED  BY <1>1 DEF Init, Inv, TypeOK, ReservationIsCurrent, NoLostUpdate

LEMMA IncrementKeeps ==
    ASSUME Inv, NEW a \in Addrs, Increment(a, mem[a])
    PROVE  mem' \in [Addrs -> Words] /\ added' \in [Addrs -> Words] /\ NoLostUpdate'
<1>1. mem[a] \in Words /\ added[a] \in Words /\ mem[a] = added[a]
  BY DEF Inv, TypeOK, NoLostUpdate
<1>2. Plus(mem[a]) \in Words /\ Plus(added[a]) = Plus(mem[a])  BY <1>1, PlusType
<1> QED  BY <1>2 DEF Inv, TypeOK, Increment, NoLostUpdate

LEMMA FaultKeeps ==
    ASSUME Inv, NEW a \in Addrs, PageFault(a)
    PROVE  Inv'
  BY DEF Inv, TypeOK, ReservationIsCurrent, NoLostUpdate, PageFault

LEMMA LrKeeps ==
    ASSUME Inv, NEW a \in Addrs, Lr(a)
    PROVE  Inv'
<1>1. CASE Readable(a)
  BY <1>1 DEF Inv, TypeOK, ReservationIsCurrent, NoLostUpdate, Lr
<1>2. CASE ~ Readable(a)  BY <1>2, FaultKeeps DEF Lr
<1> QED  BY <1>1, <1>2

\* A matching SC stores the successor of what is still in memory.
LEMMA ScKeeps ==
    ASSUME Inv, NEW a \in Addrs, Sc(a)
    PROVE  Inv'
<1>1. CASE reservation = a /\ ~ Writable(a)  BY <1>1, FaultKeeps DEF Sc
<1>2. CASE reservation = a /\ Writable(a)
  <2>1. seen[current] = mem[a]
    BY <1>2, AtomicsAssumption DEF Inv, ReservationIsCurrent
  <2>2. mem' \in [Addrs -> Words] /\ added' \in [Addrs -> Words] /\ NoLostUpdate'
    BY <1>2, <2>1, IncrementKeeps DEF Sc
  <2> QED  BY <1>2, <2>2 DEF Sc, AfterSc, Inv, TypeOK, ReservationIsCurrent
<1>3. CASE reservation # a
  BY <1>3 DEF Sc, AfterSc, Inv, TypeOK, ReservationIsCurrent, NoLostUpdate
<1> QED  BY <1>1, <1>2, <1>3

\* Between pairs a thread holds no reservation that an AMO could outdate.
LEMMA AmoKeeps ==
    ASSUME Inv, NEW a \in Addrs, Amo(a)
    PROVE  Inv'
<1>1. CASE Writable(a)
  <2>1. mem' \in [Addrs -> Words] /\ added' \in [Addrs -> Words] /\ NoLostUpdate'
    BY <1>1, IncrementKeeps DEF Amo
  <2>2. reservation = None  BY DEF Amo, Inv, TypeOK, ReservationIsCurrent
  <2> QED  BY <1>1, <2>1, <2>2 DEF Amo, Inv, TypeOK, ReservationIsCurrent
<1>2. CASE ~ Writable(a)  BY <1>2, FaultKeeps DEF Amo
<1> QED  BY <1>1, <1>2

LEMMA HandlerKeeps ==
    ASSUME Inv, NEW a \in Addrs, HandlerPair(a)
    PROVE  Inv'
<1>1. mem' \in [Addrs -> Words] /\ added' \in [Addrs -> Words] /\ NoLostUpdate'
  BY IncrementKeeps DEF HandlerPair
<1> QED  BY <1>1 DEF HandlerPair, AfterSc, Inv, TypeOK, ReservationIsCurrent

LEMMA NextInv == Inv /\ [Next]_vars => Inv'
<1> SUFFICES ASSUME Inv, [Next]_vars PROVE Inv'  OBVIOUS
<1>1. ASSUME NEW a \in Addrs, Revoke(a) PROVE Inv'
  BY <1>1 DEF Revoke, Inv, TypeOK, ReservationIsCurrent, NoLostUpdate
<1>2. ASSUME NEW t \in Threads, Switch(t) PROVE Inv'
  BY <1>2 DEF Switch, AfterSc, Inv, TypeOK, ReservationIsCurrent, NoLostUpdate
<1>3. CASE UNCHANGED vars
  BY <1>3 DEF vars, Inv, TypeOK, ReservationIsCurrent, NoLostUpdate
<1> QED
  BY <1>1, <1>2, <1>3, LrKeeps, ScKeeps, AmoKeeps, HandlerKeeps DEF Next

\* Words keep their width under every interleaving (cpu.rs execute).
THEOREM AtomicsTypeCorrect == Spec => []TypeOK
<1>1. Inv => TypeOK  BY DEF Inv
<1> QED  BY InitInv, NextInv, <1>1, PTL DEF Spec

\* The reservation vouches for the running thread's value (cpu.rs LR, SC).
THEOREM AtomicsReservation == Spec => []ReservationIsCurrent
<1>1. Inv => ReservationIsCurrent  BY DEF Inv
<1> QED  BY InitInv, NextInv, <1>1, PTL DEF Spec

\* No successful increment is lost (cpu.rs LR, SC, AMO).
THEOREM AtomicsNoLostUpdate == Spec => []NoLostUpdate
<1>1. Inv => NoLostUpdate  BY DEF Inv
<1> QED  BY InitInv, NextInv, <1>1, PTL DEF Spec

=============================================================================
