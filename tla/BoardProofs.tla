---------------------------- MODULE BoardProofs ----------------------------
(***************************************************************************)
(* The interrupt lines of the board for every guest, number of sources,    *)
(* poll interval and clock width, and the console as a channel.            *)
(***************************************************************************)
EXTENDS Console, WellFoundedInduction, SequenceTheorems, FiniteSetTheorems, TLAPS

-----------------------------------------------------------------------------
(* The arbitration of the controller *)

\* Every nonempty set of naturals has a least element.
LEMMA LeastNatural ==
    ASSUME NEW T \in SUBSET Nat, T # {}
    PROVE  \E x \in T : \A y \in T : x <= y
<1> DEFINE R == OpToRel(<, Nat)
<1>1. PICK x \in T : \A y \in T : ~ (<<y, x>> \in R)
  BY WFMin, NatLessThanWellFounded
<1>2. ASSUME NEW y \in T PROVE x <= y
  <2>1. ~ (y < x)  BY <1>1 DEF OpToRel
  <2> QED  BY <2>1
<1> QED  BY <1>2

\* plic.rs best: any set of sources has a winner, the lowest-numbered source
\* of the highest priority.
LEMMA WinnerExists ==
    ASSUME PlicTypeOK, NEW T \in SUBSET Sources, T # {}
    PROVE  \E s \in T : \A t \in T : Beats(s, t)
<1>1. \A s \in T : s \in Nat /\ priority[s] \in 0 .. MaxWord
  BY MaxSourcesAssumption DEF PlicTypeOK, Sources, Bits, Words
<1> DEFINE G == {MaxWord - priority[s] : s \in T}
<1>2. G \in SUBSET Nat /\ G # {}  BY <1>1, MaxWordAssumption
<1> HIDE DEF G
<1>3. PICK g \in G : \A h \in G : g <= h  BY <1>2, LeastNatural
<1> DEFINE H == {s \in T : MaxWord - priority[s] = g}
<1>4. H \in SUBSET Nat /\ H # {}  BY <1>1, <1>3 DEF G
<1>5. PICK s \in H : \A t \in H : s <= t  BY <1>4, LeastNatural
<1>6. ASSUME NEW t \in T PROVE Beats(s, t)
  <2>1. priority[s] >= priority[t]
    BY <1>1, <1>3, <1>5, <1>6, MaxWordAssumption DEF G
  <2>2. priority[s] = priority[t] => s <= t  BY <1>5, <1>6
  <2> QED  BY <2>1, <2>2, <1>1, <1>5 DEF Beats
<1> QED  BY <1>5, <1>6

LEMMA CandidatesAreSources ==
    ASSUME PlicTypeOK, NEW c \in CONTEXTS PROVE Candidates(c) \in SUBSET Sources
BY DEF Candidates, pending, PlicTypeOK

\* plic.rs best returns 0 or a source that is asserted, unclaimed and enabled
\* for the context, whatever the priorities are.
LEMMA BestIsPending ==
    ASSUME PlicTypeOK, NEW c \in CONTEXTS, best(c) # 0
    PROVE  best(c) \in Sources /\ best(c) \notin claimed
<1>1. Candidates(c) # {}  BY DEF best
<1>2. \E s \in Candidates(c) : \A t \in Candidates(c) : Beats(s, t)
  BY <1>1, WinnerExists, CandidatesAreSources
<1>3. best(c) \in Candidates(c)  BY <1>1, <1>2 DEF best
<1> QED  BY <1>3 DEF Candidates, pending, PlicTypeOK

\* plic.rs is_pending: a context is interrupted exactly when it has a candidate.
LEMMA PendingIsCandidate ==
    ASSUME PlicTypeOK, NEW c \in CONTEXTS
    PROVE  is_pending(c) <=> Candidates(c) # {}
<1>1. ASSUME Candidates(c) # {} PROVE best(c) # 0
  <2>1. \E s \in Candidates(c) : \A t \in Candidates(c) : Beats(s, t)
    BY <1>1, WinnerExists, CandidatesAreSources
  <2>2. best(c) \in Candidates(c)  BY <1>1, <2>1 DEF best
  <2>3. best(c) \in Sources  BY <2>2 DEF Candidates, pending, PlicTypeOK
  <2> QED  BY <2>3, MaxSourcesAssumption DEF Sources
<1> QED  BY <1>1 DEF is_pending, best

-----------------------------------------------------------------------------
(* Reads of device memory *)

\* A buffer is read up to its first unmapped byte, which exists or is its end.
LEMMA ReachedType ==
    ASSUME NEW places \in Seq(Places)
    PROVE  Reached(places) \in 0 .. Len(places)
<1> DEFINE Holes == {i \in 1 .. Len(places) : places[i] \notin Mapped}
           Stops(n) == /\ \A i \in 1 .. n : places[i] \in Mapped
                       /\ n < Len(places) => places[n + 1] \notin Mapped
<1>0. Len(places) \in Nat  BY LenProperties
<1>1. \E n \in 0 .. Len(places) : Stops(n)
  <2>1. CASE Holes = {}
    <3>1. Stops(Len(places))  BY <1>0, <2>1
    <3> QED  BY <1>0, <3>1
  <2>2. CASE Holes # {}
    <3>1. Holes \in SUBSET Nat  BY <1>0
    <3>2. PICK h \in Holes : \A j \in Holes : h <= j
      <4> HIDE DEF Holes
      <4> QED  BY <2>2, <3>1, LeastNatural
    <3>3. h \in 1 .. Len(places) /\ places[h] \notin Mapped  OBVIOUS
    <3>4. \A i \in 1 .. h - 1 : places[i] \in Mapped  BY <1>0, <3>2, <3>3
    <3>5. h - 1 \in 0 .. Len(places) /\ (h - 1) + 1 = h  BY <1>0, <3>3
    <3>6. Stops(h - 1)  BY <3>3, <3>4, <3>5
    <3> QED  BY <3>5, <3>6
  <2> QED  BY <2>1, <2>2
<1> HIDE DEF Stops
<1>2. (CHOOSE n \in 0 .. Len(places) : Stops(n)) \in 0 .. Len(places)  BY <1>1
<1> QED  BY <1>2 DEF Reached, Stops

\* Reads only take: they consume input and claim sources, and a read that does
\* either marks the devices dirty (memory.rs read).
LEMMA ReadsEffect ==
    ASSUME TypeOK, NEW places \in Seq(Places), NEW c \in CONTEXTS, Reads(places, c)
    PROVE  /\ rx' \in Seq(Bytes) /\ (rx = <<>> => rx' = <<>>)
           /\ claimed' \in SUBSET Sources /\ claimed \subseteq claimed'
           /\ devices_dirty' \in BOOLEAN /\ (devices_dirty => devices_dirty')
           /\ ~ devices_dirty' => rx' = rx /\ claimed' = claimed
<1> DEFINE R == ReadsOf(places, "rbr")
           k == Cardinality(R)
<1>0. /\ rx \in Seq(Bytes) /\ Len(rx) \in Nat /\ Len(places) \in Nat
      /\ claimed \in SUBSET Sources /\ devices_dirty \in BOOLEAN /\ dlab \in BOOLEAN
      /\ DOMAIN places = 1 .. Len(places)
  BY LenProperties DEF TypeOK, UartTypeOK, PlicTypeOK
<1>1. Reached(places) \in 0 .. Len(places)  BY ReachedType
<1>2. k \in Nat /\ (R = {} => k = 0)
  <2>1. IsFiniteSet(1 .. Reached(places))  BY <1>1, FS_Interval
  <2>2. IsFiniteSet(R)  BY <2>1, FS_Subset DEF ReadsOf
  <2> QED  BY <2>2, FS_CardinalityType, FS_EmptySet
<1> HIDE DEF k
<1>3. rx' = IF dlab THEN rx ELSE SubSeq(rx, 1 + k, Len(rx))  BY DEF Reads, k
<1>4. /\ SubSeq(rx, 1 + k, Len(rx)) \in Seq(Bytes)
      /\ rx = <<>> => SubSeq(rx, 1 + k, Len(rx)) = <<>>
  <2>1. \A i \in 1 + k .. Len(rx) : rx[i] \in Bytes  BY <1>0, <1>2, ElementOfSeq
  <2>2. SubSeq(rx, 1 + k, Len(rx)) \in Seq(Bytes)
    BY <1>0, <1>2, <2>1, SubSeqProperties
  <2>3. ASSUME rx = <<>> PROVE SubSeq(rx, 1 + k, Len(rx)) = <<>>
    <3>1. Len(rx) < 1 + k  BY <1>0, <1>2, <2>3
    <3> QED  BY <1>0, <1>2, <3>1, SubSeqEmpty
  <2> QED  BY <2>2, <2>3
<1>5. k = 0 => SubSeq(rx, 1 + k, Len(rx)) = rx  BY <1>0, SubSeqFull
<1>6. claimed' \in SUBSET Sources /\ claimed \subseteq claimed'
  BY <1>0, BestIsPending DEF Reads, TypeOK
<1>7. devices_dirty' \in BOOLEAN /\ (devices_dirty => devices_dirty')
  BY <1>0 DEF Reads
<1>8. ASSUME ~ devices_dirty' PROVE R = {} /\ ReadsOf(places, "claim") = {}
  <2>1. \A i \in DOMAIN places : i <= Reached(places) + 1 => places[i] \notin BelowDram
    BY <1>8 DEF Reads
  <2>2. \A i \in 1 .. Reached(places) : i \in DOMAIN places /\ i <= Reached(places) + 1
    BY <1>0, <1>1
  <2> QED  BY <2>1, <2>2 DEF ReadsOf, BelowDram
<1>9. ~ devices_dirty' => rx' = rx /\ claimed' = claimed
  BY <1>2, <1>3, <1>5, <1>8 DEF Reads
<1> QED  BY <1>0, <1>3, <1>4, <1>6, <1>7, <1>9

-----------------------------------------------------------------------------
(* Types *)

USE DEF SSIP, MSIP, STIP, MTIP, SEIP, MEIP

RestTypeOK ==
    /\ msip \in {0, 1} /\ mtimecmp \in Times /\ mtime \in Times
    /\ mip \in SUBSET ALL /\ timer_armed \in BOOLEAN /\ devices_dirty \in BOOLEAN
    /\ cycle \in 0 .. DEVICE_POLL_INTERVAL - 1 /\ phase \in {"tick", "exec"}
    /\ ipi_due \subseteq IpiKinds
    /\ guest \in Guests

LEMMA TypeParts == TypeOK <=> PlicTypeOK /\ UartTypeOK /\ RestTypeOK
  BY DEF TypeOK, RestTypeOK

LEMMA PollAndClock ==
    DEVICE_POLL_INTERVAL \in Nat \ {0} /\ TimeModulus \in Nat \ {0}
  BY BoardAssumption

LEMMA InitTypeOK == Init => TypeOK
<1> SUFFICES ASSUME Init PROVE TypeOK  OBVIOUS
<1>1. PlicTypeOK
  BY MaxSourcesAssumption, MaxWordAssumption DEF Init, PlicInit, PlicTypeOK, Bits, Words
<1>2. UartTypeOK
  BY UartAssumption, EmptySeq DEF Init, UartInit, UartTypeOK
<1>3. RestTypeOK
  <2>1. mtimecmp \in Times /\ mtime \in Times /\ cycle \in 0 .. DEVICE_POLL_INTERVAL - 1
    BY PollAndClock DEF Init, Times
  <2> QED  BY <2>1 DEF Init, RestTypeOK
<1> QED  BY <1>1, <1>2, <1>3, TypeParts

LEMMA TickType == ASSUME TypeOK, tick_timer PROVE TypeOK'
<1>1. PlicTypeOK'
  BY BoardAssumption DEF TypeOK, tick_timer, PlicTypeOK, set_level, plicVars
<1>2. UartTypeOK'  BY DEF TypeOK, tick_timer, UartTypeOK, uartVars
<1>3. mip' \in SUBSET ALL
  <2>1. TimerBits \subseteq ALL  BY DEF TimerBits, ALL
  <2>2. ExternalBits \subseteq ALL  BY DEF ExternalBits, ALL, ExtBit
  <2> QED  BY <2>1, <2>2 DEF tick_timer, ALL
<1>4. timer_armed' \in BOOLEAN /\ devices_dirty' \in BOOLEAN
  BY DEF TypeOK, tick_timer, disarm
<1>5. cycle' \in 0 .. DEVICE_POLL_INTERVAL - 1 /\ mtime' \in Times
  BY BoardAssumption DEF TypeOK, tick_timer, Times
<1>6. RestTypeOK'
  BY <1>3, <1>4, <1>5 DEF TypeOK, tick_timer, RestTypeOK, uartVars
<1> QED  BY <1>1, <1>2, <1>6 DEF TypeOK, RestTypeOK

\* What every instruction leaves of the step's own state.
LEMMA ExecutesType ==
    ASSUME TypeOK, NEW op, Executes(op)
    PROVE  /\ phase' = "tick" /\ cycle' = cycle /\ guest' = guest
           /\ op \in guest.ops /\ phase = "exec"
           /\ op \notin {"ipi", "csr"} => ipi_due' = ipi_due
  BY DEF Executes

\* An access to a device register leaves the rest of the hart alone.
LEMMA TouchesType ==
    ASSUME TypeOK, NEW op \in {"plic", "rbr", "uart", "thr", "clint", "mtime", "other", "amo"},
           Touches(op), msip' \in {0, 1}, mtimecmp' \in Times, mtime' \in Times
    PROVE  RestTypeOK'
<1>1. Executes(op) /\ devices_dirty' = TRUE /\ mip' = mip /\ timer_armed' = timer_armed
  BY DEF Touches
<1>2. phase' = "tick" /\ cycle' = cycle /\ guest' = guest /\ ipi_due' = ipi_due
  BY <1>1, ExecutesType
<1> QED  BY <1>1, <1>2 DEF TypeOK, RestTypeOK

LEMMA PopType == ASSUME UartTypeOK PROVE Pop \in Seq(Bytes) /\ (rx = <<>> => Pop = <<>>)
  BY HeadTailProperties DEF UartTypeOK, Pop, has_input

LEMMA ConcatType ==
    ASSUME NEW s \in Seq(Bytes), NEW m \in Nat, NEW t \in [1 .. m -> Bytes]
    PROVE  s \o t \in Seq(Bytes)
<1>1. t \in Seq(Bytes)  BY IsASeq
<1> QED  BY <1>1, ConcatProperties

LEMMA BuffersType ==
    /\ \A b \in Buffers : b \in Seq(Places)
    /\ \A place \in Places : <<place>> \in Seq(Places)
  BY BoardAssumption

LEMMA PlicAccessType == ASSUME TypeOK, PlicAccess PROVE TypeOK'
<1> USE DEF PlicAccess
<1>1. PlicTypeOK'
  <2> USE DEF TypeOK, PlicTypeOK
  <2>1. ASSUME NEW c \in CONTEXTS, claim(c) PROVE PlicTypeOK'
    BY <2>1, BestIsPending DEF claim
  <2>2. ASSUME NEW s \in Bits, complete(s) PROVE PlicTypeOK'  BY <2>2 DEF complete
  <2>3. ASSUME NEW s \in Bits, NEW w \in Words, WritePriority(s, w) PROVE PlicTypeOK'
    BY <2>3 DEF WritePriority
  <2>4. ASSUME NEW c \in CONTEXTS, NEW w \in SUBSET Bits, WriteEnable(c, w) PROVE PlicTypeOK'
    <3>1. w \ {0} \in SUBSET Sources  BY MaxSourcesAssumption DEF Sources, Bits
    <3> QED  BY <2>4, <3>1 DEF WriteEnable
  <2>5. ASSUME NEW c \in CONTEXTS, NEW w \in Words, WriteThreshold(c, w) PROVE PlicTypeOK'
    BY <2>5 DEF WriteThreshold
  <2> QED  BY <2>1, <2>2, <2>3, <2>4, <2>5
<1>2. UartTypeOK'  BY DEF TypeOK, UartTypeOK, uartVars
<1>3. RestTypeOK'
  <2>1. msip' \in {0, 1} /\ mtimecmp' \in Times /\ mtime' \in Times
    BY DEF TypeOK, clintVars
  <2> QED  BY <2>1, TouchesType
<1> QED  BY <1>1, <1>2, <1>3 DEF TypeOK, RestTypeOK

LEMMA UartAccessType ==
    ASSUME TypeOK, UartReadRbr \/ UartControl \/ UartTransmit
    PROVE  TypeOK'
<1> USE DEF UartReadRbr, UartControl, UartTransmit
<1>1. PlicTypeOK'  BY DEF TypeOK, PlicTypeOK, plicVars
<1>2. UartTypeOK'
  <2> USE DEF TypeOK, UartTypeOK
  <2>1. CASE UartReadRbr  BY <2>1, PopType DEF ReadRbr
  <2>2. CASE UartControl  BY <2>2, UartAssumption DEF WriteIer, WriteLcr
  <2>3. CASE UartTransmit
    <3>1. PICK b \in Bytes : WriteThr(b)  BY <2>3
    <3>2. Append(tx, b) \in Seq(Bytes)  BY AppendProperties
    <3> QED  BY <3>1, <3>2 DEF WriteThr, putchar
  <2> QED  BY <2>1, <2>2, <2>3
<1>3. RestTypeOK'
  <2>1. msip' \in {0, 1} /\ mtimecmp' \in Times /\ mtime' \in Times
    BY DEF TypeOK, clintVars
  <2> QED  BY <2>1, TouchesType
<1> QED  BY <1>1, <1>2, <1>3 DEF TypeOK, RestTypeOK

LEMMA ClintAccessType ==
    ASSUME TypeOK, ClintAccess \/ ClintSetTime \/ OtherAccess
    PROVE  TypeOK'
<1> USE DEF ClintAccess, ClintSetTime, OtherAccess
<1>1. PlicTypeOK'  BY DEF TypeOK, PlicTypeOK, plicVars
<1>2. UartTypeOK'  BY DEF TypeOK, UartTypeOK, uartVars
<1>3. RestTypeOK'
  <2>1. msip' \in {0, 1} /\ mtimecmp' \in Times /\ mtime' \in Times
    BY DEF TypeOK, clintVars
  <2> QED  BY <2>1, TouchesType
<1> QED  BY <1>1, <1>2, <1>3 DEF TypeOK, RestTypeOK

\* Reading device memory keeps the devices' types.
LEMMA ReadsType ==
    ASSUME TypeOK, NEW places \in Seq(Places), NEW c \in CONTEXTS, Reads(places, c),
           tx' \in Seq(Bytes)
    PROVE  PlicTypeOK' /\ UartTypeOK'
<1>1. rx' \in Seq(Bytes) /\ claimed' \in SUBSET Sources  BY ReadsEffect
<1>2. UNCHANGED <<priority, levels, enable, threshold, ier, dlab, divisor>>  BY DEF Reads
<1> QED  BY <1>1, <1>2 DEF TypeOK, PlicTypeOK, UartTypeOK

LEMMA AmoType ==
    ASSUME TypeOK, AmoUndefined \/ AmoClaim \/ AmoUart
    PROVE  TypeOK'
<1>1. CASE AmoUndefined
  <2>1. PICK place \in Mapped \ {"dram"}, c \in CONTEXTS : Reads(<<place>>, c)
    BY <1>1 DEF AmoUndefined
  <2>2. <<place>> \in Seq(Places)  BY BuffersType DEF Places
  <2>3. tx' \in Seq(Bytes)  BY <1>1 DEF AmoUndefined, TypeOK, UartTypeOK
  <2>4. PlicTypeOK' /\ UartTypeOK'  BY <2>1, <2>2, <2>3, ReadsType
  <2>5. devices_dirty' \in BOOLEAN  BY <2>1, <2>2, ReadsEffect
  <2>6. /\ phase' = "tick" /\ cycle' = cycle /\ guest' = guest /\ ipi_due' = ipi_due
        /\ UNCHANGED <<clintVars, mip, timer_armed>>
    BY <1>1, ExecutesType DEF AmoUndefined
  <2>7. RestTypeOK'  BY <2>5, <2>6 DEF TypeOK, RestTypeOK, clintVars
  <2> QED  BY <2>4, <2>7 DEF TypeOK, RestTypeOK
<1>2. CASE AmoClaim
  <2>1. PlicTypeOK'
    <3>1. PICK c \in CONTEXTS, s \in Bits : claimed' = (claimed \cup {best(c)}) \ {0, s}
      BY <1>2 DEF AmoClaim
    <3>2. best(c) \in Sources \cup {0}  BY BestIsPending DEF TypeOK
    <3> QED  BY <1>2, <3>1, <3>2 DEF AmoClaim, TypeOK, PlicTypeOK
  <2>2. UartTypeOK'  BY <1>2 DEF AmoClaim, TypeOK, UartTypeOK, uartVars
  <2>3. msip' \in {0, 1} /\ mtimecmp' \in Times /\ mtime' \in Times
    BY <1>2 DEF AmoClaim, TypeOK, clintVars
  <2>4. RestTypeOK'  BY <1>2, <2>3, TouchesType DEF AmoClaim
  <2> QED  BY <2>1, <2>2, <2>4 DEF TypeOK, RestTypeOK
<1>3. CASE AmoUart
  <2>1. PlicTypeOK'  BY <1>3 DEF AmoUart, TypeOK, PlicTypeOK, plicVars
  <2>2. UartTypeOK'
    <3>1. rx' \in Seq(Bytes)  BY <1>3, PopType DEF AmoUart, TypeOK, UartTypeOK
    <3>2. PICK b \in Bytes :
             \/ divisor' = [divisor EXCEPT !.low = b] /\ tx' = tx
             \/ tx' = Append(tx, b) /\ divisor' = divisor
      BY <1>3 DEF AmoUart
    <3>3. Append(tx, b) \in Seq(Bytes)  BY AppendProperties DEF TypeOK, UartTypeOK
    <3> QED  BY <1>3, <3>1, <3>2, <3>3 DEF AmoUart, TypeOK, UartTypeOK
  <2>3. msip' \in {0, 1} /\ mtimecmp' \in Times /\ mtime' \in Times
    BY <1>3 DEF AmoUart, TypeOK, clintVars
  <2>4. RestTypeOK'  BY <1>3, <2>3, TouchesType DEF AmoUart
  <2> QED  BY <2>1, <2>2, <2>4 DEF TypeOK, RestTypeOK
<1> QED  BY <1>1, <1>2, <1>3

LEMMA HartOnlyType ==
    ASSUME TypeOK, CsrPending \/ OtherInstruction \/ SbiSetTimer \/ SbiIpi \/ LegacyClearIpi
    PROVE  TypeOK'
<1> USE DEF CsrPending, OtherInstruction, SbiSetTimer, SbiIpi, LegacyClearIpi
<1>1. PlicTypeOK'  BY DEF TypeOK, PlicTypeOK, plicVars
<1>2. UartTypeOK'  BY DEF TypeOK, UartTypeOK, uartVars
<1>3. mip' \in SUBSET ALL
  BY DEF TypeOK, ALL, Merge, MIP_WRITABLE, SIP_WRITABLE, set_timer
<1>4. timer_armed' \in BOOLEAN /\ devices_dirty' \in BOOLEAN  BY DEF TypeOK, set_timer
<1>5. msip' \in {0, 1} /\ mtimecmp' \in Times /\ mtime' \in Times
  BY DEF TypeOK, clintVars, set_timer
<1>6. phase' = "tick" /\ cycle' = cycle /\ guest' = guest  BY ExecutesType
<1>7. ipi_due' \subseteq IpiKinds
  <2>1. CASE CsrPending \/ SbiIpi \/ LegacyClearIpi  BY <2>1 DEF TypeOK, Addressed
  <2>2. CASE OtherInstruction \/ SbiSetTimer  BY <2>2, ExecutesType DEF TypeOK
  <2> QED  BY <2>1, <2>2
<1>8. RestTypeOK'  BY <1>3, <1>4, <1>5, <1>6, <1>7 DEF TypeOK, RestTypeOK
<1> QED  BY <1>1, <1>2, <1>8 DEF TypeOK, RestTypeOK

LEMMA SbiConsoleType ==
    ASSUME TypeOK, SbiGetchar \/ SbiPutchar
    PROVE  TypeOK'
<1> USE DEF SbiGetchar, SbiPutchar
<1>1. PlicTypeOK'  BY DEF TypeOK, PlicTypeOK, plicVars
<1>2. UartTypeOK'
  <2>1. CASE SbiGetchar  BY <2>1, PopType DEF take_input, TypeOK, UartTypeOK
  <2>2. CASE SbiPutchar
    <3>1. PICK b \in Bytes : putchar(b)  BY <2>2
    <3>2. Append(tx, b) \in Seq(Bytes)  BY AppendProperties DEF TypeOK, UartTypeOK
    <3> QED  BY <3>1, <3>2 DEF putchar, TypeOK, UartTypeOK
  <2> QED  BY <2>1, <2>2
<1>3. phase' = "tick" /\ cycle' = cycle /\ guest' = guest /\ ipi_due' = ipi_due
  BY ExecutesType
<1>4. RestTypeOK'  BY <1>3 DEF TypeOK, RestTypeOK, clintVars
<1> QED  BY <1>1, <1>2, <1>4 DEF TypeOK, RestTypeOK

LEMMA SbiDebugWriteType == ASSUME TypeOK, SbiDebugWrite PROVE TypeOK'
<1>1. PICK places \in Buffers, c \in CONTEXTS :
         /\ Reads(places, c)
         /\ \E bytes \in [1 .. Reached(places) -> Bytes] : tx' = tx \o bytes
  BY DEF SbiDebugWrite
<1>2. places \in Seq(Places)  BY BuffersType
<1>3. Reached(places) \in Nat
  <2>1. Reached(places) \in 0 .. Len(places) /\ Len(places) \in Nat
    BY <1>2, ReachedType, LenProperties
  <2> QED  BY <2>1
<1>4. tx' \in Seq(Bytes)
  <2>1. PICK bytes \in [1 .. Reached(places) -> Bytes] : tx' = tx \o bytes  BY <1>1
  <2>2. tx \in Seq(Bytes)  BY DEF TypeOK, UartTypeOK
  <2>3. tx \o bytes \in Seq(Bytes)  BY <1>3, <2>2, ConcatType
  <2> QED  BY <2>1, <2>3
<1>5. PlicTypeOK' /\ UartTypeOK'  BY <1>1, <1>2, <1>4, ReadsType
<1>6. devices_dirty' \in BOOLEAN  BY <1>1, <1>2, ReadsEffect
<1>7. /\ phase' = "tick" /\ cycle' = cycle /\ guest' = guest /\ ipi_due' = ipi_due
      /\ UNCHANGED <<clintVars, mip, timer_armed>>
  BY ExecutesType DEF SbiDebugWrite
<1>8. RestTypeOK'  BY <1>6, <1>7 DEF TypeOK, RestTypeOK, clintVars
<1> QED  BY <1>5, <1>8 DEF TypeOK, RestTypeOK

LEMMA LegacyIpiType == ASSUME TypeOK, LegacyIpi PROVE TypeOK'
<1>1. PlicTypeOK' /\ UartTypeOK' /\ devices_dirty' \in BOOLEAN
  <2>1. CASE UNCHANGED <<plicVars, uartVars, devices_dirty>>
    BY <2>1 DEF TypeOK, PlicTypeOK, UartTypeOK, plicVars, uartVars
  <2>2. ASSUME NEW place \in Places, NEW c \in CONTEXTS, Reads(<<place>>, c), tx' = tx
        PROVE  PlicTypeOK' /\ UartTypeOK' /\ devices_dirty' \in BOOLEAN
    <3>1. <<place>> \in Seq(Places)  BY BuffersType
    <3>2. tx' \in Seq(Bytes)  BY <2>2 DEF TypeOK, UartTypeOK
    <3> QED  BY <2>2, <3>1, <3>2, ReadsType, ReadsEffect
  <2> QED  BY <2>1, <2>2 DEF LegacyIpi
<1>2. mip' \in SUBSET ALL  BY DEF LegacyIpi, TypeOK, ALL
<1>3. ipi_due' \subseteq IpiKinds
  <2>1. ipi_due' \in {ipi_due, ipi_due \cup {"other"}}  BY DEF LegacyIpi
  <2> QED  BY <2>1 DEF TypeOK, IpiKinds
<1>4. /\ phase' = "tick" /\ cycle' = cycle /\ guest' = guest
      /\ UNCHANGED <<clintVars, timer_armed>>
  BY ExecutesType DEF LegacyIpi
<1>5. RestTypeOK'  BY <1>1, <1>2, <1>3, <1>4 DEF TypeOK, RestTypeOK, clintVars
<1> QED  BY <1>1, <1>5 DEF TypeOK, RestTypeOK

LEMMA PushInputType == ASSUME TypeOK, PushInput PROVE TypeOK'
<1>1. PICK b \in Bytes : push_input(<<b>>)  BY DEF PushInput
<1>2. <<b>> \in [1 .. 1 -> Bytes]  OBVIOUS
<1>3. rx \o <<b>> \in Seq(Bytes)  BY <1>2, ConcatType DEF TypeOK, UartTypeOK
<1>4. UartTypeOK'  BY <1>1, <1>3 DEF push_input, TypeOK, UartTypeOK
<1>5. PlicTypeOK'  BY DEF PushInput, TypeOK, PlicTypeOK, plicVars
<1>6. RestTypeOK'  BY DEF PushInput, TypeOK, RestTypeOK, clintVars, cpuVars
<1> QED  BY <1>4, <1>5, <1>6 DEF TypeOK, RestTypeOK

LEMMA NextTypeOK == TypeOK /\ [Next]_vars => TypeOK'
<1> SUFFICES ASSUME TypeOK, [Next]_vars PROVE TypeOK'  OBVIOUS
<1>1. CASE Execute
  BY <1>1, PlicAccessType, UartAccessType, ClintAccessType, AmoType, HartOnlyType,
     SbiConsoleType, SbiDebugWriteType, LegacyIpiType DEF Execute, SbiCall
<1>2. CASE UNCHANGED vars
  BY <1>2 DEF vars, plicVars, uartVars, clintVars, cpuVars, TypeOK, PlicTypeOK, UartTypeOK
<1> QED  BY <1>1, <1>2, TickType, PushInputType DEF Next

-----------------------------------------------------------------------------
(* The bits of the CLINT and of the firmware *)

\* Under SBI nothing raises the machine timer's bit, so keeping it across a
\* tick keeps it clear.
NoMachineTimer == guest.sbi => MTIP \notin mip

HartInv == NoMachineTimer /\ MachineBitsFresh /\ ArmedIsNotPending /\ IpiNotLost

\* An instruction changes mip by a CSR write, an IPI or a timer call only.
LEMMA ExecuteOnMip ==
    ASSUME TypeOK, Execute
    PROVE  /\ phase' = "tick" /\ phase = "exec" /\ guest' = guest
           /\ mip' \ {SSIP, MSIP, STIP} = mip \ {SSIP, MSIP, STIP}
           /\ guest.sbi => \/ STIP \in mip' <=> STIP \in mip
                           \/ STIP \notin mip'
           /\ guest.sbi /\ timer_armed' => timer_armed \/ STIP \notin mip'
           /\ IpiNotLost => IpiNotLost'
<1> USE DEF SIP_WRITABLE, MIP_WRITABLE, Merge
<1>1. CASE PlicAccess \/ UartReadRbr \/ UartControl \/ UartTransmit \/ ClintAccess
           \/ ClintSetTime \/ OtherAccess \/ AmoClaim \/ AmoUart
  BY <1>1, ExecutesType DEF PlicAccess, UartReadRbr, UartControl, UartTransmit, ClintAccess,
       ClintSetTime, OtherAccess, AmoClaim, AmoUart, Touches, IpiNotLost, Served
<1>2. CASE AmoUndefined \/ OtherInstruction \/ SbiGetchar \/ SbiPutchar \/ SbiDebugWrite
  BY <1>2, ExecutesType
  DEF AmoUndefined, OtherInstruction, SbiGetchar, SbiPutchar, SbiDebugWrite, IpiNotLost, Served
<1>3. CASE CsrPending
  <2>1. phase' = "tick" /\ phase = "exec" /\ guest' = guest /\ timer_armed' = timer_armed
    BY <1>3, ExecutesType DEF CsrPending
  <2>2. /\ mip' \ {SSIP, MSIP, STIP} = mip \ {SSIP, MSIP, STIP}
        /\ guest.sbi => (STIP \in mip' <=> STIP \in mip)
    BY <1>3 DEF CsrPending
  <2>3. SSIP \in mip' \/ ipi_due' = {}  BY <1>3 DEF CsrPending
  <2>4. IpiNotLost'  BY <2>3 DEF IpiNotLost, Served
  <2> QED  BY <2>1, <2>2, <2>4
<1>4. CASE SbiSetTimer  BY <1>4, ExecutesType DEF SbiSetTimer, set_timer, IpiNotLost, Served
<1>5. CASE SbiIpi
  <2>1. phase' = "tick" /\ phase = "exec" /\ guest' = guest /\ timer_armed' = timer_armed
    BY <1>5, ExecutesType DEF SbiIpi
  <2>2. mip' \in {mip, mip \cup {SSIP}}  BY <1>5 DEF SbiIpi
  <2>3. ASSUME IpiNotLost PROVE IpiNotLost'
    <3>1. PICK mask \in BOOLEAN, base \in {"zero", "one", "ones"} :
             /\ mip' = IF hart_selected(mask, base) THEN mip \cup {SSIP} ELSE mip
             /\ ipi_due' = ipi_due \cup Addressed(mask, base)
      BY <1>5 DEF SbiIpi
    <3>2. Addressed(mask, base) \cap Served # {} => hart_selected(mask, base)
      BY DEF Addressed, IpiKinds, Served, hart_selected
    <3>3. ipi_due \cap Served # {} => SSIP \in mip  BY <2>3 DEF IpiNotLost, Served
    <3>4. ipi_due' \cap Served # {} => SSIP \in mip'
      BY <3>1, <3>2, <3>3
    <3> QED  BY <2>1, <3>4 DEF IpiNotLost, Served
  <2> QED  BY <2>1, <2>2, <2>3
<1>6. CASE LegacyIpi
  <2>1. phase' = "tick" /\ phase = "exec" /\ guest' = guest /\ timer_armed' = timer_armed
    BY <1>6, ExecutesType DEF LegacyIpi
  <2>2. mip' \in {mip, mip \cup {SSIP}}  BY <1>6 DEF LegacyIpi
  <2>3. SSIP \in mip' \/ (ipi_due' = ipi_due /\ mip' = mip)  BY <1>6 DEF LegacyIpi
  <2>4. IpiNotLost => IpiNotLost'  BY <2>1, <2>3 DEF IpiNotLost, Served
  <2> QED  BY <2>1, <2>2, <2>4
<1>7. CASE LegacyClearIpi  BY <1>7, ExecutesType DEF LegacyClearIpi, IpiNotLost, Served
<1> QED  BY <1>1, <1>2, <1>3, <1>4, <1>5, <1>6, <1>7 DEF Execute, SbiCall

\* tick_timer drives the bits of machine mode and keeps the software's.
LEMMA TickOnMip ==
    ASSUME TypeOK, tick_timer
    PROVE  /\ phase' = "exec" /\ guest' = guest /\ msip' = msip /\ mtimecmp' = mtimecmp
           /\ ipi_due' = ipi_due
           /\ SSIP \in mip' <=> SSIP \in mip
           /\ MSIP \in mip' <=> msip # 0
           /\ ~ guest.sbi => (MTIP \in mip' <=> mtime' >= mtimecmp)
           /\ guest.sbi => (MTIP \in mip' <=> MTIP \in mip)
           /\ guest.sbi => /\ STIP \in mip' => STIP \in mip \/ (timer_armed /\ Expired)
                           /\ timer_armed' => timer_armed /\ ~ Expired
<1>1. /\ TimerBits \subseteq {STIP, MTIP}
      /\ ~ guest.sbi => (MTIP \in TimerBits <=> Expired)
      /\ guest.sbi => MTIP \notin TimerBits /\ (STIP \in TimerBits => timer_armed /\ Expired)
  BY DEF TimerBits
<1>2. ExternalBits \subseteq {MEIP, SEIP}  BY DEF ExternalBits, ExtBit
<1>3. mip' = (mip \cap ({SSIP, STIP} \cup IF guest.sbi THEN {MTIP} ELSE {}))
             \cup TimerBits \cup (IF msip # 0 THEN {MSIP} ELSE {}) \cup ExternalBits
  BY DEF tick_timer
<1>4. timer_armed' = (timer_armed /\ ~ (guest.sbi /\ Expired))  BY DEF tick_timer, disarm
<1>5. phase' = "exec" /\ guest' = guest /\ msip' = msip /\ mtimecmp' = mtimecmp /\ ipi_due' = ipi_due
  BY DEF tick_timer
<1>6. SSIP \in mip' <=> SSIP \in mip  BY <1>1, <1>2, <1>3
<1>7. MSIP \in mip' <=> msip # 0  BY <1>1, <1>2, <1>3
<1>8. ~ guest.sbi => (MTIP \in mip' <=> mtime' >= mtimecmp)
  BY <1>1, <1>2, <1>3 DEF Expired
<1>9. guest.sbi => (MTIP \in mip' <=> MTIP \in mip)  BY <1>1, <1>2, <1>3
<1>10. guest.sbi => (STIP \in mip' => STIP \in mip \/ (timer_armed /\ Expired))
  BY <1>1, <1>2, <1>3
<1>11. guest.sbi => (timer_armed' => timer_armed /\ ~ Expired)  BY <1>4
<1> QED  BY <1>5, <1>6, <1>7, <1>8, <1>9, <1>10, <1>11

LEMMA InitHart == Init => HartInv
  BY DEF Init, HartInv, NoMachineTimer, MachineBitsFresh, ArmedIsNotPending, IpiNotLost, Served

LEMMA NextHart == TypeOK /\ HartInv /\ [Next]_vars => HartInv'
<1> SUFFICES ASSUME TypeOK, HartInv, [Next]_vars PROVE HartInv'  OBVIOUS
<1> USE DEF HartInv, NoMachineTimer, ArmedIsNotPending, IpiNotLost, Served
<1>1. CASE tick_timer
  <2>1. NoMachineTimer'  BY <1>1, TickOnMip
  <2>2. MachineBitsFresh'
    BY <1>1, <2>1, TickOnMip DEF MachineBitsFresh, TypeOK
  <2>3. ArmedIsNotPending'  BY <1>1, TickOnMip
  <2>4. IpiNotLost'  BY <1>1, TickOnMip
  <2> QED  BY <2>1, <2>2, <2>3, <2>4
<1>2. CASE Execute
  <2>1. NoMachineTimer'
    <3>1. MTIP \in mip' <=> MTIP \in mip  BY <1>2, ExecuteOnMip
    <3> QED  BY <1>2, <3>1, ExecuteOnMip
  <2>2. MachineBitsFresh'  BY <1>2, ExecuteOnMip DEF MachineBitsFresh
  <2>3. ArmedIsNotPending'  BY <1>2, ExecuteOnMip
  <2>4. IpiNotLost'  BY <1>2, ExecuteOnMip
  <2> QED  BY <2>1, <2>2, <2>3, <2>4
<1>3. CASE PushInput
  BY <1>3 DEF PushInput, clintVars, cpuVars, MachineBitsFresh
<1>4. CASE UNCHANGED vars
  BY <1>4 DEF vars, clintVars, cpuVars, MachineBitsFresh
<1> QED  BY <1>1, <1>2, <1>3, <1>4 DEF Next

-----------------------------------------------------------------------------
(* The external bits *)

\* Between two steps the bits may be trusted only if the next tick could skip
\* its sweep: nothing touched a device and no input waits.
Settled == phase = "exec" \/ (~ devices_dirty /\ ~ has_input)

Visible == \A c \in CONTEXTS : Wanted(c) => ExtBit(c) \in mip

\* NoMissedInterrupt and ExternalBitsFresh, carried over the gap between the
\* steps.  The UART is the only source that is ever asserted.
LineInv ==
    /\ levels \subseteq {UART_IRQ}
    /\ phase = "exec" => ~ devices_dirty
    /\ Settled => Visible
    /\ Settled /\ ("getchar" \notin guest.ops \/ has_input) => Synced

\* A sweep makes the bits exact (cpu.rs tick_timer).
LEMMA SweepSyncs ==
    ASSUME TypeOK, LineInv, tick_timer, SweepNeeded
    PROVE  Synced' /\ levels' \subseteq {UART_IRQ}
<1>1. /\ levels' = IF is_interrupting THEN levels \cup {UART_IRQ} ELSE levels \ {UART_IRQ}
      /\ UNCHANGED <<priority, claimed, enable, threshold>>
  BY BoardAssumption DEF tick_timer, set_level
<1>2. levels' = IF is_interrupting THEN {UART_IRQ} ELSE {}  BY <1>1 DEF LineInv
<1>3. is_interrupting' <=> is_interrupting
  BY DEF tick_timer, uartVars, is_interrupting, has_input
<1>4. ASSUME NEW c \in CONTEXTS PROVE is_pending(c)' <=> Wanted(c)'
  <2>1. PlicTypeOK'  BY TickType DEF TypeOK
  <2>2. is_pending(c)' <=> Candidates(c)' # {}
    <3>1. (PlicTypeOK /\ c \in CONTEXTS => (is_pending(c) <=> Candidates(c) # {}))'
      BY PendingIsCandidate, PTL
    <3> QED  BY <2>1, <3>1
  <2>3. Candidates(c)' # {} <=> UART_IRQ \in Candidates(c)'
    BY <1>2 DEF Candidates, pending
  <2>4. UART_IRQ \in Candidates(c)' <=> Wanted(c)'
    BY <1>2, <1>3 DEF Candidates, pending, Wanted
  <2> QED  BY <2>2, <2>3, <2>4
<1>5. ASSUME NEW c \in CONTEXTS PROVE ExtBit(c) \in mip' <=> is_pending(c)'
  <2>1. mip' = (mip \cap ({SSIP, STIP} \cup IF guest.sbi THEN {MTIP} ELSE {}))
               \cup TimerBits \cup (IF msip # 0 THEN {MSIP} ELSE {}) \cup ExternalBits
    BY DEF tick_timer
  <2>2. TimerBits \subseteq {STIP, MTIP}  BY DEF TimerBits
  <2>3. ExtBit(c) \in mip' <=> ExtBit(c) \in ExternalBits  BY <2>1, <2>2 DEF ExtBit
  <2>4. ExternalBits = {ExtBit(d) : d \in {e \in CONTEXTS : is_pending(e)'}}
    BY DEF ExternalBits
  <2>5. \A d \in CONTEXTS : ExtBit(d) = ExtBit(c) => d = c
    BY BoardAssumption DEF ExtBit
  <2> HIDE DEF ExtBit
  <2> QED  BY <2>3, <2>4, <2>5
<1>6. \A c \in CONTEXTS : ExtBit(c)' = ExtBit(c)  BY DEF ExtBit
<1>7. Synced'  BY <1>4, <1>5, <1>6 DEF Synced
<1> QED  BY <1>2, <1>7

\* An instruction leaves the lines as they were, or takes from them, or marks
\* the devices dirty; only the SBI console read takes in silence.
LEMMA ExecuteOnLines ==
    ASSUME TypeOK, Execute
    PROVE  /\ levels' = levels
           /\ \/ devices_dirty'
              \/ /\ ~ devices_dirty
                 /\ UNCHANGED <<priority, enable, threshold, ier>>
                 /\ claimed' = claimed
                 /\ rx = <<>> => rx' = <<>>
                 /\ "getchar" \notin guest.ops => rx' = rx
<1>1. CASE PlicAccess
  BY <1>1 DEF PlicAccess, Touches, claim, complete, WritePriority, WriteEnable, WriteThreshold
<1>2. CASE UartReadRbr \/ UartControl \/ UartTransmit \/ ClintAccess \/ ClintSetTime
           \/ OtherAccess \/ AmoClaim \/ AmoUart
  BY <1>2 DEF UartReadRbr, UartControl, UartTransmit, ClintAccess, ClintSetTime, OtherAccess,
              AmoClaim, AmoUart, Touches, plicVars
<1>3. ASSUME NEW places \in Seq(Places), NEW c \in CONTEXTS, Reads(places, c)
      PROVE  /\ levels' = levels
             /\ \/ devices_dirty'
                \/ /\ ~ devices_dirty
                   /\ UNCHANGED <<priority, enable, threshold, ier>>
                   /\ claimed' = claimed /\ rx' = rx
  <2>1. UNCHANGED <<priority, levels, enable, threshold, ier>>  BY <1>3 DEF Reads
  <2> QED  BY <1>3, <2>1, ReadsEffect
<1>4. CASE AmoUndefined
  <2>1. PICK place \in Mapped \ {"dram"}, c \in CONTEXTS : Reads(<<place>>, c)
    BY <1>4 DEF AmoUndefined
  <2>2. <<place>> \in Seq(Places)  BY BuffersType DEF Places
  <2> QED  BY <1>3, <2>1, <2>2
<1>5. CASE SbiDebugWrite
  <2>1. PICK places \in Buffers, c \in CONTEXTS : Reads(places, c)
    BY <1>5 DEF SbiDebugWrite
  <2>2. places \in Seq(Places)  BY BuffersType
  <2> QED  BY <1>3, <2>1, <2>2
<1>6. CASE LegacyIpi
  <2>1. CASE UNCHANGED <<plicVars, uartVars, devices_dirty>>
    BY <2>1 DEF plicVars, uartVars, TypeOK
  <2>2. ASSUME NEW place \in Places, NEW c \in CONTEXTS, Reads(<<place>>, c)
        PROVE  /\ levels' = levels
               /\ \/ devices_dirty'
                  \/ /\ ~ devices_dirty
                     /\ UNCHANGED <<priority, enable, threshold, ier>>
                     /\ claimed' = claimed /\ rx' = rx
    <3>1. <<place>> \in Seq(Places)  BY BuffersType
    <3> QED  BY <1>3, <2>2, <3>1
  <2> QED  BY <1>6, <2>1, <2>2 DEF LegacyIpi
<1>7. CASE CsrPending \/ OtherInstruction \/ SbiSetTimer \/ SbiIpi \/ LegacyClearIpi
  BY <1>7 DEF CsrPending, OtherInstruction, SbiSetTimer, SbiIpi, LegacyClearIpi,
              plicVars, uartVars, TypeOK
<1>8. CASE SbiPutchar  BY <1>8 DEF SbiPutchar, putchar, plicVars, TypeOK
<1>9. CASE SbiGetchar
  <2>1. "getchar" \in guest.ops  BY <1>9, ExecutesType DEF SbiGetchar
  <2>2. rx = <<>> => rx' = <<>>  BY <1>9, PopType DEF SbiGetchar, take_input, TypeOK
  <2> QED  BY <1>9, <2>1, <2>2 DEF SbiGetchar, take_input, plicVars, TypeOK
<1> QED  BY <1>1, <1>2, <1>4, <1>5, <1>6, <1>7, <1>8, <1>9 DEF Execute, SbiCall

LEMMA TickLine == ASSUME TypeOK, LineInv, tick_timer PROVE LineInv'
<1>1. phase = "tick" /\ phase' = "exec" /\ guest' = guest /\ UNCHANGED uartVars
  BY DEF tick_timer
<1>2. CASE SweepNeeded
  <2>1. ~ devices_dirty'  BY <1>2 DEF tick_timer
  <2>2. Synced' /\ levels' \subseteq {UART_IRQ}  BY <1>2, SweepSyncs
  <2>3. Visible'  BY <2>2 DEF Synced, Visible
  <2> QED  BY <2>1, <2>2, <2>3 DEF LineInv
<1>3. CASE ~ SweepNeeded
  <2>1. ~ devices_dirty /\ ~ has_input  BY <1>3 DEF SweepNeeded
  <2>2. UNCHANGED plicVars /\ devices_dirty' = devices_dirty  BY <1>3 DEF tick_timer
  <2>3. \A c \in CONTEXTS : Wanted(c)' <=> Wanted(c)
    BY <1>1, <2>2 DEF Wanted, plicVars, uartVars, is_interrupting, has_input
  <2>4. \A c \in CONTEXTS : ExtBit(c)' = ExtBit(c)  BY DEF ExtBit
  <2>5. \A c \in CONTEXTS : ExtBit(c) \in mip' <=> ExtBit(c) \in mip
    <3>1. mip' = (mip \cap ({SSIP, STIP} \cup IF guest.sbi THEN {MTIP} ELSE {}))
                 \cup TimerBits \cup (IF msip # 0 THEN {MSIP} ELSE {}) \cup ExternalBits
      BY DEF tick_timer
    <3>2. TimerBits \subseteq {STIP, MTIP}  BY DEF TimerBits
    <3>3. ExternalBits = mip \cap {MEIP, SEIP}  BY <1>3 DEF ExternalBits
    <3> QED  BY <3>1, <3>2, <3>3 DEF ExtBit
  <2>6. Settled  BY <2>1 DEF Settled
  <2>7. Visible /\ ("getchar" \notin guest.ops => Synced)  BY <2>6 DEF LineInv
  <2>8. ~ has_input'  BY <1>1, <2>1 DEF uartVars, has_input
  <2>9. Visible' /\ ("getchar" \notin guest'.ops => Synced')
    <3> HIDE DEF ExtBit
    <3> QED  BY <1>1, <2>3, <2>4, <2>5, <2>7 DEF Visible, Synced
  <2>10. levels' = levels  BY <2>2 DEF plicVars
  <2> QED  BY <2>1, <2>2, <2>8, <2>9, <2>10 DEF LineInv
<1> QED  BY <1>2, <1>3

LEMMA ExecuteLine == ASSUME TypeOK, LineInv, Execute PROVE LineInv'
<1>1. phase' = "tick" /\ phase = "exec" /\ guest' = guest  BY ExecuteOnMip
<1>2. levels' \subseteq {UART_IRQ}  BY ExecuteOnLines DEF LineInv
<1>3. CASE devices_dirty'  BY <1>1, <1>2, <1>3 DEF LineInv, Settled
<1>4. CASE ~ devices_dirty'
  <2>1. /\ UNCHANGED <<priority, enable, threshold, ier, claimed>>
        /\ rx = <<>> => rx' = <<>>
        /\ "getchar" \notin guest.ops => rx' = rx
    BY <1>4, ExecuteOnLines
  <2>2. \A c \in CONTEXTS : ExtBit(c)' = ExtBit(c) /\ (ExtBit(c) \in mip' <=> ExtBit(c) \in mip)
    <3>1. \A b \in {MEIP, SEIP} : b \in mip' <=> b \in mip  BY ExecuteOnMip
    <3> QED  BY <3>1 DEF ExtBit
  <2>3. Visible /\ ("getchar" \notin guest.ops => Synced)  BY <1>1 DEF LineInv, Settled
  <2>4. \A c \in CONTEXTS : Wanted(c)' => Wanted(c)
    BY <2>1 DEF Wanted, is_interrupting, has_input
  <2>5. "getchar" \notin guest.ops => \A c \in CONTEXTS : Wanted(c)' <=> Wanted(c)
    BY <2>1 DEF Wanted, is_interrupting, has_input
  <2>6. Visible' /\ ("getchar" \notin guest'.ops => Synced')
    BY <1>1, <2>2, <2>3, <2>4, <2>5 DEF Visible, Synced
  <2>7. Settled' => ~ has_input'  BY <1>1 DEF Settled
  <2> QED  BY <1>1, <1>2, <2>6, <2>7 DEF LineInv
<1> QED  BY <1>3, <1>4

LEMMA InitLine == Init => LineInv
  BY DEF Init, PlicInit, LineInv, Settled

LEMMA NextLine == TypeOK /\ LineInv /\ [Next]_vars => LineInv'
<1> SUFFICES ASSUME TypeOK, LineInv, [Next]_vars PROVE LineInv'  OBVIOUS
<1>1. CASE PushInput
  <2>1. PICK b \in Bytes : push_input(<<b>>)  BY <1>1 DEF PushInput
  <2>2. has_input'
    <3>1. Len(rx \o <<b>>) = Len(rx) + 1 /\ Len(rx) \in Nat
      BY ConcatProperties, LenProperties DEF TypeOK, UartTypeOK
    <3>2. rx' = rx \o <<b>>  BY <2>1 DEF push_input
    <3> QED  BY <3>1, <3>2 DEF has_input
  <2>3. phase' = "tick" /\ levels' = levels
    BY <1>1 DEF PushInput, cpuVars, plicVars
  <2> QED  BY <2>2, <2>3 DEF LineInv, Settled
<1>2. CASE UNCHANGED vars
  BY <1>2 DEF vars, plicVars, uartVars, clintVars, cpuVars, LineInv, Settled, Visible, Synced,
              Wanted, ExtBit, is_interrupting, has_input
<1> QED  BY <1>1, <1>2, TickLine, ExecuteLine DEF Next

-----------------------------------------------------------------------------
(* The board *)

BoardInv == TypeOK /\ HartInv /\ LineInv

LEMMA SpecInv == Spec => []BoardInv
<1>1. Init => BoardInv  BY InitTypeOK, InitHart, InitLine DEF BoardInv
<1>2. BoardInv /\ [Next]_vars => BoardInv'
  BY NextTypeOK, NextHart, NextLine DEF BoardInv
<1> QED  BY <1>1, <1>2, PTL DEF Spec

\* Queues hold bytes, masks hold sources and the clocks keep their width,
\* whatever buffers and device addresses the guest names (memory.rs, uart.rs).
THEOREM BoardTypeCorrect == Spec => []TypeOK
<1>1. BoardInv => TypeOK  BY DEF BoardInv
<1> QED  BY SpecInv, <1>1, PTL

\* A wanted interrupt is never invisible, at any poll interval and for every
\* guest (cpu.rs tick_timer, memory.rs devices_dirty).
THEOREM BoardNoMissedInterrupt == Spec => []NoMissedInterrupt
<1>1. BoardInv => NoMissedInterrupt
  BY DEF BoardInv, LineInv, Settled, Visible, NoMissedInterrupt
<1> QED  BY SpecInv, <1>1, PTL

\* The dirty flag and the check for input are enough for a guest that does not
\* use the SBI console read: the external bits are exact whenever they are
\* looked at; one that does may see a bit outlive the empty queue, and no other
\* difference (cpu.rs tick_timer, sbi.rs getchar).
THEOREM BoardExternalBitsFresh == Spec => []ExternalBitsFresh
<1>1. BoardInv => ExternalBitsFresh
  BY DEF BoardInv, LineInv, Settled, Visible, Synced, ExternalBitsFresh
<1> QED  BY SpecInv, <1>1, PTL

\* The bits of machine mode follow the CLINT (cpu.rs tick_timer).
THEOREM BoardMachineBitsFresh == Spec => []MachineBitsFresh
<1>1. BoardInv => MachineBitsFresh  BY DEF BoardInv, HartInv
<1> QED  BY SpecInv, <1>1, PTL

\* A scheduled timer and a pending one never coexist (sbi.rs set_timer).
THEOREM BoardArmedIsNotPending == Spec => []ArmedIsNotPending
<1>1. BoardInv => ArmedIsNotPending  BY DEF BoardInv, HartInv
<1> QED  BY SpecInv, <1>1, PTL

\* An IPI the kernel sends itself stays pending until the kernel clears it, by
\* either call and on either width, but for the all-ones base on RV32, which
\* the firmware does not recognise (sbi.rs hart_selected).
THEOREM BoardIpiNotLost == Spec => []IpiNotLost
<1>1. BoardInv => IpiNotLost  BY DEF BoardInv, HartInv
<1> QED  BY SpecInv, <1>1, PTL

-----------------------------------------------------------------------------
(* The console driver *)

\* The driver reads the receive register only when it shows a byte: the divisor
\* is never in its place, and between the status and the read input only grows.
DriverInv == rx \in Seq(Bytes) /\ dlab = FALSE /\ (at = "read" => has_input)

LEMMA DriverInit0 == DriverInit => DriverInv /\ Line!Init
  BY EmptySeq DEF DriverInit, Init, UartInit, DriverInv, Line!Init

\* Most of the driver's steps leave the queue and what was received alone.
LEMMA QuietStep ==
    ASSUME DriverInv,
           \/ Tick \/ SetUp \/ TakeInterrupt \/ HandlerClaim \/ HandlerStatus
           \/ HandlerComplete \/ HandlerReturn \/ MainRuns
    PROVE  DriverInv' /\ UNCHANGED Line!vars
<1>1. rx' = rx /\ dlab' = dlab /\ received' = received
  BY DEF Tick, tick_timer, SetUp, WriteIer, TakeInterrupt, HandlerClaim, HandlerStatus,
         OtherAccess, HandlerComplete, HandlerReturn, MainRuns, OtherInstruction, Idle, uartVars
<1>2. at' = "read" => has_input
  BY DEF DriverInv, Tick, SetUp, TakeInterrupt, HandlerClaim, HandlerStatus, HandlerComplete,
         HandlerReturn, MainRuns
<1> QED  BY <1>1, <1>2 DEF DriverInv, has_input, Line!vars

\* A read of the register, or a poll that finds something, is a delivery.
LEMMA TakeStep ==
    ASSUME DriverInv, HandlerRead \/ MaskedGetchar
    PROVE  DriverInv' /\ (Line!Next \/ UNCHANGED Line!vars)
<1>1. dlab' = dlab /\ rx' = Pop /\ at' # "read"
  BY DEF DriverInv, HandlerRead, UartReadRbr, ReadRbr, MaskedGetchar, SbiGetchar, take_input
<1>2. Pop \in Seq(Bytes)  BY HeadTailProperties DEF Pop, has_input, DriverInv
<1>3. DriverInv'  BY <1>1, <1>2 DEF DriverInv
<1>4. received' = IF has_input THEN Append(received, Head(rx)) ELSE received
  BY DEF DriverInv, HandlerRead, RbrValue, MaskedGetchar
<1>5. CASE has_input
  <2>1. Line!Receive  BY <1>1, <1>4, <1>5 DEF Pop, has_input, Line!Receive
  <2> QED  BY <1>3, <2>1 DEF Line!Next
<1>6. CASE ~ has_input
  <2>1. rx' = rx /\ received' = received  BY <1>1, <1>4, <1>6 DEF Pop
  <2> QED  BY <1>3, <2>1 DEF Line!vars
<1> QED  BY <1>3, <1>5, <1>6

LEMMA TypeStep ==
    ASSUME DriverInv, Type
    PROVE  DriverInv' /\ Line!Next
<1>1. PICK b \in Bytes : push_input(<<b>>)  BY DEF Type, PushInput
<1>2. rx' = Append(rx, b)  BY <1>1, AppendIsConcat DEF push_input, DriverInv
<1>3. Append(rx, b) \in Seq(Bytes) /\ Append(rx, b) # <<>>
  BY AppendProperties DEF DriverInv
<1>4. DriverInv'  BY <1>1, <1>2, <1>3 DEF push_input, DriverInv, has_input
<1>5. received' = received  BY DEF Type
<1> QED  BY <1>2, <1>4, <1>5 DEF Line!Next, Line!Send

\* The console is a channel: under every interleaving of typing, ticks, sweeps,
\* interrupts and masked polls the guest gets the bytes typed, each once and in
\* order (uart.rs read, take_input and push_input).  This is ConsoleIsChannel
\* without its fairness.
THEOREM ConsoleRefinesChannel == DriverSpec => Line!Init /\ [][Line!Next]_(Line!vars)
<1>1. DriverInv /\ [DriverNext]_driverVars => DriverInv' /\ [Line!Next]_(Line!vars)
  <2> SUFFICES ASSUME DriverInv, [DriverNext]_driverVars
               PROVE  DriverInv' /\ [Line!Next]_(Line!vars)
    OBVIOUS
  <2>1. CASE UNCHANGED driverVars
    BY <2>1 DEF driverVars, vars, uartVars, DriverInv, has_input, Line!vars
  <2> QED  BY <2>1, QuietStep, TakeStep, TypeStep DEF DriverNext, Guest
<1> QED  BY DriverInit0, <1>1, PTL DEF DriverSpec

=============================================================================
