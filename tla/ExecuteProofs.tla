--------------------------- MODULE ExecuteProofs ---------------------------
(***************************************************************************)
(* Integer and floating-point execution, for every pair of widths, every   *)
(* pair of formats, every program and every number of processes:           *)
(*                                                                         *)
(*  - the lazily switched floating-point context and the counter of        *)
(*    retired instructions;                                                *)
(*  - products and quotients, the orders the instructions compare by, and  *)
(*    the narrow forms, for which a register is the set of its bits;       *)
(*  - that every floating-point result is a pattern of its format, and so  *)
(*    that registers only ever hold register values;                       *)
(*  - that comparisons order patterns as the numbers they stand for.       *)
(***************************************************************************)
EXTENDS Conformance, WellFoundedInduction, TLAPS

-----------------------------------------------------------------------------
(* The floating-point context *)

\* What an instruction may do to the unit: nothing, or change it while it is
\* on and leave it dirty.
UnitStep ==
    \/ UNCHANGED fpVars
    \/ fs # Off /\ fs' = Dirty

LEMMA OpFpUnit ==
    ASSUME NEW i, OpFp(i) PROVE UnitStep
<1>1. CASE Illegal(i)  BY <1>1 DEF Illegal, Trapped, UnitStep
<1>2. ASSUME fs # Off, execute_op_fp(i) PROVE UnitStep
  <2>1. ASSUME NEW a, NEW b, NEW v, IntegerResult(i, a, b, v) PROVE UnitStep
    BY <2>1 DEF IntegerResult, UnitStep
  <2>2. ASSUME NEW a, NEW b, NEW c, NEW r, FpResult(i, a, b, c, r) PROVE UnitStep
    BY <1>2, <2>2 DEF FpResult, set_fflags, UnitStep
  <2>3. ASSUME NEW a, NEW b, NEW v, NEW r, FpToInteger(i, a, b, v, r) PROVE UnitStep
    BY <1>2, <2>3 DEF FpToInteger, set_fflags, UnitStep
  <2>4. ASSUME NEW a, NEW b, NEW v, FpMove(i, a, b, v) PROVE UnitStep
    BY <1>2, <2>4 DEF FpMove, fw, UnitStep
  <2> QED  BY <1>1, <1>2, <2>1, <2>2, <2>3, <2>4 DEF execute_op_fp
<1> QED  BY <1>1, <1>2 DEF OpFp, fp_enabled

LEMMA ExecuteUnit ==
    ASSUME NEW i, execute(i) PROVE UnitStep
<1>1. CASE Trapped  BY <1>1 DEF Trapped, UnitStep
<1>2. ASSUME NEW a, NEW b, NEW v, IntegerResult(i, a, b, v) PROVE UnitStep
  BY <1>2 DEF IntegerResult, UnitStep
<1>3. CASE Op(i)  BY <1>1, <1>2, <1>3 DEF Op, Illegal
<1>4. CASE OpImm(i)  BY <1>1, <1>2, <1>4 DEF OpImm, Illegal
<1>5. CASE Branch(i) \/ AmoOp(i)
  BY <1>1, <1>5 DEF Branch, AmoOp, Illegal, UnitStep
<1>6. CASE OpFp(i)  BY <1>6, OpFpUnit
<1>7. CASE Fused(i)
  BY <1>1, <1>7 DEF Fused, Illegal, FpResult, set_fflags, fp_enabled, UnitStep
<1>8. CASE LoadFp(i)
  BY <1>1, <1>8 DEF LoadFp, Illegal, FpMove, fw, fp_enabled, UnitStep
<1>9. CASE FpCsr(i)
  <2>1. CASE ~ fp_enabled  BY <1>1, <1>9, <2>1 DEF FpCsr, Illegal
  <2>2. CASE fp_enabled /\ Writes(i)
    BY <1>9, <2>2 DEF FpCsr, fp_enabled, UnitStep
  <2>3. CASE fp_enabled /\ ~ Writes(i)
    BY <1>9, <2>3 DEF FpCsr, UnitStep, fpVars
  <2> QED  BY <2>1, <2>2, <2>3
<1>10. CASE CsrInstret(i)
  BY <1>1, <1>10 DEF CsrInstret, Illegal, InstretWrite, UnitStep
<1> QED
  BY <1>3, <1>4, <1>5, <1>6, <1>7, <1>8, <1>9, <1>10 DEF execute

\* Every process's context is where the kernel thinks it is: the ones that
\* wait are saved, the running one is saved too unless the unit says dirty, and
\* is in the unit unless it is off.
ContextInv ==
    /\ guest \in DOMAIN Guests /\ cur \in G.processes
    /\ DOMAIN saved = G.processes /\ DOMAIN shadow = G.processes
    /\ \A p \in G.processes : shadow[p] = <<shadow[p][1], shadow[p][2]>>
    /\ \A p \in G.processes : p # cur \/ fs # Dirty => saved[p] = shadow[p]
    /\ ContextKept

LEMMA InitContext == Init => ContextInv
<1> SUFFICES ASSUME Init PROVE ContextInv  OBVIOUS
<1>1. guest \in DOMAIN Guests /\ cur \in G.processes  BY DEF Init
<1>2. saved = [p \in G.processes |-> Context] /\ shadow = saved  BY DEF Init
<1>3. \A p \in G.processes : shadow[p] = Context /\ saved[p] = Context  BY <1>2
<1> QED  BY <1>1, <1>2, <1>3 DEF ContextInv, ContextKept, Context

LEMMA StepContext ==
    ASSUME ContextInv, Step PROVE ContextInv'
<1>1. guest' = guest /\ cur' = cur /\ saved' = saved  BY DEF Step, kernelVars
<1>2. G' = G  BY <1>1 DEF G
<1>3. UnitStep  BY ExecuteUnit DEF Step
<1>4. shadow' = [shadow EXCEPT ![cur] = IF Context' # Context THEN Context' ELSE shadow[cur]]
  BY DEF Step
<1>5. cur \in DOMAIN shadow /\ DOMAIN shadow = G.processes  BY DEF ContextInv
<1>6. /\ shadow'[cur] = IF Context' # Context THEN Context' ELSE shadow[cur]
      /\ \A p \in G.processes : p # cur => shadow'[p] = shadow[p]
      /\ DOMAIN shadow' = G.processes
  BY <1>4, <1>5
<1>7. Context' = <<Context'[1], Context'[2]>>  BY DEF Context
<1>8. \A p \in G.processes : shadow'[p] = <<shadow'[p][1], shadow'[p][2]>>
  BY <1>6, <1>7 DEF ContextInv
<1>9. CASE UNCHANGED fpVars
  <2>1. Context' = Context /\ fs' = fs  BY <1>9 DEF fpVars, Context
  <2>2. shadow'[cur] = shadow[cur]  BY <1>6, <2>1
  <2> QED  BY <1>1, <1>2, <1>6, <1>8, <2>1, <2>2 DEF ContextInv, ContextKept
<1>10. CASE fs # Off /\ fs' = Dirty
  <2>1. Context = shadow[cur]  BY <1>10 DEF ContextInv, ContextKept
  <2>2. shadow'[cur] = Context'  BY <1>6, <2>1
  <2> QED  BY <1>1, <1>2, <1>6, <1>8, <1>10, <2>2 DEF ContextInv, ContextKept
<1> QED  BY <1>3, <1>9, <1>10 DEF UnitStep

LEMMA NextContext == ContextInv /\ [Next]_vars => ContextInv'
<1> SUFFICES ASSUME ContextInv, [Next]_vars PROVE ContextInv'  OBVIOUS
<1>1. CASE Step  BY <1>1, StepContext
<1>2. CASE Fetch
  <2>1. UNCHANGED <<guest, fregs, fcsr, fs, cur, saved, shadow>>
    BY <1>2 DEF Fetch, fpVars, kernelVars
  <2>2. G' = G /\ Context' = Context  BY <2>1 DEF G, Context
  <2> QED  BY <2>1, <2>2 DEF ContextInv, ContextKept
<1>3. CASE Switch
  <2>1. PICK p \in G.processes \ {cur} :
          /\ cur' = p
          /\ saved' = IF fs = Dirty THEN [saved EXCEPT ![cur] = Context] ELSE saved
          /\ fs' = Off
    BY <1>3 DEF Switch
  <2>2. guest' = guest /\ fregs' = fregs /\ fcsr' = fcsr /\ shadow' = shadow
    BY <1>3 DEF Switch
  <2>3. G' = G  BY <2>2 DEF G
  <2>4. fs' # Dirty  BY <2>1 DEF Off, Dirty
  <2>5. fs = Dirty => Context = shadow[cur]  BY DEF ContextInv, ContextKept, Off, Dirty
  <2>6. DOMAIN saved' = G.processes /\ \A q \in G.processes : saved'[q] = shadow[q]
    <3>1. CASE fs = Dirty
      BY <2>1, <2>5, <3>1 DEF ContextInv
    <3>2. CASE fs # Dirty  BY <2>1, <3>2 DEF ContextInv
    <3> QED  BY <3>1, <3>2
  <2> QED  BY <2>1, <2>2, <2>3, <2>4, <2>6 DEF ContextInv, ContextKept
<1>4. CASE FirstUse
  <2>1. UNCHANGED <<guest, cur, saved, shadow>> /\ fs' = Clean /\ fs = Off
    BY <1>4 DEF FirstUse, kernelVars
  <2>2. G' = G  BY <2>1 DEF G
  <2>3. saved[cur] = shadow[cur] /\ shadow[cur] = <<shadow[cur][1], shadow[cur][2]>>
    BY <2>1 DEF ContextInv, Off, Dirty
  <2>4. Context' = shadow[cur]  BY <1>4, <2>3 DEF FirstUse, Context
  <2>5. \A p \in G.processes : saved[p] = shadow[p]
    BY <2>1 DEF ContextInv, Off, Dirty
  <2> QED  BY <2>1, <2>2, <2>4, <2>5 DEF ContextInv, ContextKept
<1>5. CASE UNCHANGED vars
  <2>1. UNCHANGED <<guest, fregs, fcsr, fs, cur, saved, shadow>>  BY <1>5 DEF vars
  <2>2. G' = G /\ Context' = Context  BY <2>1 DEF G, Context
  <2> QED  BY <2>1, <2>2 DEF ContextInv, ContextKept
<1> QED  BY <1>1, <1>2, <1>3, <1>4, <1>5 DEF Next

\* Whatever the processes execute and however they are switched, a process
\* whose unit is on finds the context its own instructions left: mstatus.FS
\* never says clean of a context that changed (cpu.rs set_fflags, fw).
THEOREM LazySwitchingSafe == Spec => []ContextKept
<1>1. ContextInv => ContextKept  BY DEF ContextInv
<1> QED  BY <1>1, InitContext, NextContext, PTL DEF Spec

-----------------------------------------------------------------------------
(* The counter *)

\* Numbers a multiple of K apart leave the same remainder.
LEMMA SameRemainder ==
    ASSUME NEW K \in Nat \ {0}, NEW a \in Int, NEW b \in Int, NEW q \in Int, a = b + K * q
    PROVE  a % K = b % K
<1> DEFINE s == a \div K
           t == b \div K
           x == a % K
           y == b % K
           d == s - t - q
<1>1. s \in Int /\ x \in 0 .. K - 1 /\ a = K * s + x  OBVIOUS
<1>2. t \in Int /\ y \in 0 .. K - 1 /\ b = K * t + y  OBVIOUS
<1> HIDE DEF s, t, x, y
<1>3. d \in Int  BY <1>1, <1>2
<1>4. K * d = y - x
  <2>1. K * s + x = K * t + y + K * q  BY <1>1, <1>2
  <2>2. K * d = K * s - K * t - K * q  BY <1>1, <1>2
  <2>3. K * s \in Int /\ K * t \in Int /\ K * q \in Int  BY <1>1, <1>2
  <2> HIDE DEF d
  <2> QED  BY <1>1, <1>2, <2>1, <2>2, <2>3
<1> HIDE DEF d
<1>5. CASE d >= 1
  <2>1. K * d >= K  BY <1>3, <1>5
  <2> QED  BY <1>1, <1>2, <1>4, <2>1
<1>6. CASE d <= -1
  <2>1. K * d <= -K  BY <1>3, <1>6
  <2> QED  BY <1>1, <1>2, <1>4, <2>1
<1>7. CASE d = 0
  <2>1. x = y  BY <1>1, <1>2, <1>4, <1>7
  <2> QED  BY <2>1 DEF x, y
<1> QED  BY <1>3, <1>5, <1>6, <1>7

LEMMA Multiple ==
    ASSUME NEW K \in Nat \ {0}, NEW a \in Int, NEW q \in Int, a = K * q
    PROVE  a % K = 0
<1> DEFINE o == 0
           x == K * q
<1>1. x \in Int /\ a = o + x /\ o \in Int  OBVIOUS
<1> HIDE DEF o
<1>2. a % K = o % K  BY <1>1, SameRemainder DEF x
<1>3. 0 % K = 0  OBVIOUS
<1> QED  BY <1>2, <1>3 DEF o

\* The counter and what it should hold fit a wide register.
CounterInv ==
    /\ guest \in DOMAIN Guests
    /\ minstret \in 0 .. 2^Wide - 1 /\ counted \in 0 .. 2^Wide - 1
    /\ CountsRetired

\* What a step may do to the counter: nothing, count one, or be written.
CounterStep ==
    \/ UNCHANGED <<minstret, counted>>
    \/ Count
    \/ \E i \in G.insts : i.kind = "INSTRET" /\ ~ (i.csr = "minstreth" /\ xb = Wide) /\ InstretWrite(i)

LEMMA OpFpCounter ==
    ASSUME NEW i, OpFp(i) PROVE UNCHANGED <<minstret, counted>> \/ Count
<1>1. CASE Illegal(i)  BY <1>1 DEF Illegal, Trapped
<1>2. ASSUME execute_op_fp(i) PROVE UNCHANGED <<minstret, counted>> \/ Count
  <2>1. ASSUME NEW a, NEW b, NEW v, IntegerResult(i, a, b, v) PROVE Count
    BY <2>1 DEF IntegerResult
  <2>2. ASSUME NEW a, NEW b, NEW c, NEW r, FpResult(i, a, b, c, r) PROVE Count
    BY <2>2 DEF FpResult
  <2>3. ASSUME NEW a, NEW b, NEW v, NEW r, FpToInteger(i, a, b, v, r) PROVE Count
    BY <2>3 DEF FpToInteger
  <2>4. ASSUME NEW a, NEW b, NEW v, FpMove(i, a, b, v) PROVE Count
    BY <2>4 DEF FpMove
  <2> QED  BY <1>1, <1>2, <2>1, <2>2, <2>3, <2>4 DEF execute_op_fp
<1> QED  BY <1>1, <1>2 DEF OpFp

LEMMA ExecuteCounter ==
    ASSUME NEW i \in G.insts, execute(i) PROVE CounterStep
<1> DEFINE Once == UNCHANGED <<minstret, counted>> \/ Count
<1>1. Trapped => Once  BY DEF Trapped
<1>2. ASSUME NEW a, NEW b, NEW v, IntegerResult(i, a, b, v) PROVE Once
  BY <1>2 DEF IntegerResult
<1>3. Op(i) => Once  BY <1>1, <1>2 DEF Op, Illegal
<1>4. OpImm(i) => Once  BY <1>1, <1>2 DEF OpImm, Illegal
<1>5. Branch(i) \/ AmoOp(i) => Once  BY <1>1 DEF Branch, AmoOp, Illegal
<1>6. OpFp(i) => Once  BY OpFpCounter
<1>7. Fused(i) => Once  BY <1>1 DEF Fused, Illegal, FpResult
<1>8. LoadFp(i) => Once  BY <1>1 DEF LoadFp, Illegal, FpMove
<1>9. FpCsr(i) => Once  BY <1>1 DEF FpCsr, Illegal
<1>10. CASE i.kind = "INSTRET" /\ CsrInstret(i)
  BY <1>1, <1>10 DEF CsrInstret, Illegal, CounterStep
<1>11. Once => CounterStep  BY DEF CounterStep
<1> HIDE DEF Once
<1> QED
  BY <1>3, <1>4, <1>5, <1>6, <1>7, <1>8, <1>9, <1>10, <1>11 DEF execute

LEMMA WideInWord == Word \in Nat /\ Wide \in Nat /\ 0 .. Wide \subseteq 0 .. Word
BY AluAssumption, FpuAssumption, FormatAssumption

\* The laws of powers, up to the unit's word and up to a register.
LEMMA WordPowerType == ASSUME NEW j \in 0 .. Word PROVE 2^j \in Nat \ {0}
BY PowerAssumption

LEMMA WordPowerSum ==
    ASSUME NEW j \in 0 .. Word, NEW k \in 0 .. Word, NEW n \in 0 .. Word, n = j + k
    PROVE  2^n = 2^j * 2^k
BY PowerAssumption

LEMMA WordPowerNext ==
    ASSUME NEW j \in 0 .. Word, j < Word
    PROVE  j + 1 \in 0 .. Word /\ 2^(j + 1) = 2 * 2^j
<1>1. 1 \in 0 .. Word /\ j + 1 \in 0 .. Word /\ j + 1 = 1 + j  BY WideInWord
<1>2. 2^(j + 1) = 2^1 * 2^j  BY <1>1, WordPowerSum
<1> QED  BY <1>1, <1>2, PowerAssumption

LEMMA PowerType == ASSUME NEW j \in 0 .. Wide PROVE 2^j \in Nat \ {0}
BY WideInWord, WordPowerType

LEMMA PowerSum ==
    ASSUME NEW j \in 0 .. Wide, NEW k \in 0 .. Wide, NEW n \in 0 .. Wide, n = j + k
    PROVE  2^n = 2^j * 2^k
<1>1. j \in 0 .. Word /\ k \in 0 .. Word /\ n \in 0 .. Word  BY WideInWord
<1> QED  BY <1>1, WordPowerSum

LEMMA PowerNext ==
    ASSUME NEW j \in 0 .. Wide, j < Wide
    PROVE  j + 1 \in 0 .. Wide /\ 2^(j + 1) = 2 * 2^j
<1>1. j \in 0 .. Word /\ j < Word /\ j + 1 \in 0 .. Wide  BY FormatAssumption, WideInWord
<1> QED  BY <1>1, WordPowerNext

LEMMA Powers ==
    /\ 2^Narrow \in Nat \ {0} /\ 2^Wide \in Nat \ {0}
    /\ 2^Wide = 2^Narrow * (2^Wide \div 2^Narrow)
<1> DEFINE d == Wide - Narrow
           K == 2^Narrow
           W == 2^Wide
           J == 2^d
<1>1. Narrow \in 0 .. Wide /\ Wide \in 0 .. Wide /\ d \in 0 .. Wide /\ Wide = Narrow + d
  BY AluAssumption
<1>2. K \in Nat \ {0} /\ W \in Nat \ {0} /\ J \in Nat \ {0}  BY <1>1, PowerType
<1>3. W = K * J  BY <1>1, PowerSum
<1> HIDE DEF K, W, J
<1>4. W \div K = J  BY <1>2, <1>3
<1>5. W = K * (W \div K)  BY <1>3, <1>4
<1> QED  BY <1>2, <1>5 DEF K, W

\* Reducing to the wide width first does not change the low bits.
LEMMA LowOfWide ==
    ASSUME NEW x \in Nat PROVE trunc(x % 2^Wide, Narrow) = trunc(x, Narrow)
<1> DEFINE K == 2^Narrow
           W == 2^Wide
           J == W \div K
<1>1. K \in Nat \ {0} /\ W \in Nat \ {0} /\ W = K * J  BY Powers
<1>2. J \in Int  BY <1>1
<1> HIDE DEF J
<1> HIDE DEF K, W
<1> DEFINE y == x % W
           q == x \div W
<1>3. y \in Int /\ q \in Int /\ x = W * q + y  BY <1>1
<1> HIDE DEF y, q
<1>4. W * q = K * (J * q)
  <2>1. (K * J) * q = K * (J * q)  BY <1>1, <1>2, <1>3
  <2> QED  BY <1>1, <2>1
<1>5. J * q \in Int  BY <1>2, <1>3
<1>6. x = y + K * (J * q)
  <2> DEFINE p == J * q
  <2>1. p \in Int /\ W * q = K * p  BY <1>4, <1>5
  <2>2. K * p \in Int  BY <1>1, <2>1
  <2> HIDE DEF p
  <2>3. x = y + K * p  BY <1>1, <1>3, <2>1, <2>2
  <2> QED  BY <2>3 DEF p
<1>7. x % K = y % K
  <2> DEFINE p == J * q
  <2>1. x \in Int /\ p \in Int /\ x = y + K * p  BY <1>5, <1>6
  <2> HIDE DEF p
  <2>2. K \in Nat \ {0} /\ y \in Int  BY <1>1, <1>3
  <2> QED  BY <2>1, <2>2, SameRemainder, Zenon
<1> QED  BY <1>7 DEF trunc, K, W, y

\* Counting from the low half alone keeps the low half right.
LEMMA LowCounts ==
    ASSUME NEW m \in Nat, NEW c \in Nat, trunc(m, Narrow) = trunc(c, Narrow)
    PROVE  trunc((trunc(m, Narrow) + 1) % 2^Wide, Narrow) = trunc((c + 1) % 2^Wide, Narrow)
<1> DEFINE K == 2^Narrow
           r == c % K
           q == c \div K
<1>1. K \in Nat \ {0}  BY Powers
<1> HIDE DEF K
<1>2. r \in Int /\ r >= 0 /\ q \in Int /\ c = K * q + r  BY <1>1
<1>3. trunc(m, Narrow) = r  BY DEF trunc, K
<1> HIDE DEF r, q
<1>4. K * q \in Int  BY <1>1, <1>2
<1>5. c + 1 = (r + 1) + K * q  BY <1>2, <1>4
<1>6. (c + 1) % K = (r + 1) % K
  <2>1. c + 1 \in Int /\ r + 1 \in Int  BY <1>2
  <2> QED  BY <1>1, <1>2, <1>5, <2>1, SameRemainder, Zenon
<1>7. trunc(c + 1, Narrow) = trunc(r + 1, Narrow)  BY <1>6 DEF trunc, K
<1>8. r + 1 \in Nat /\ c + 1 \in Nat  BY <1>2
<1> QED  BY <1>3, <1>7, <1>8, LowOfWide

LEMMA CountKeeps ==
    ASSUME CounterInv, Count, guest' = guest PROVE CounterInv'
<1>1. G' = G /\ xb' = xb  BY DEF G, xb
<1>2. 2^Wide \in Nat \ {0} /\ 2^Narrow \in Nat \ {0}  BY Powers
<1>3. minstret \in Nat /\ counted \in Nat /\ minstret < 2^Wide  BY <1>2 DEF CounterInv
<1>4. xb \in {Narrow, Wide}  BY CounterAssumption DEF CounterInv, G, xb
<1>5. minstret' = (trunc(minstret, xb) + 1) % 2^Wide /\ counted' = (counted + 1) % 2^Wide
  BY DEF Count, NextInstret
<1>6. trunc(minstret, xb) \in Nat
  <2>1. CASE xb = Narrow  BY <1>2, <1>3, <2>1 DEF trunc
  <2>2. CASE xb = Wide  BY <1>2, <1>3, <2>2 DEF trunc
  <2> QED  BY <1>4, <2>1, <2>2
<1>7. minstret' \in 0 .. 2^Wide - 1 /\ counted' \in 0 .. 2^Wide - 1
  BY <1>2, <1>3, <1>5, <1>6
<1>8. CountsRetired'
  <2>1. CASE xb = Wide
    <3>1. minstret = counted  BY <2>1 DEF CounterInv, CountsRetired
    <3>2. trunc(minstret, Wide) = minstret  BY <1>2, <1>3 DEF trunc
    <3>3. minstret' = counted'  BY <1>5, <2>1, <3>1, <3>2
    <3> QED  BY <1>1, <2>1, <3>3 DEF CountsRetired
  <2>2. CASE xb # Wide
    <3>1. xb = Narrow  BY <1>4, <2>2
    <3>2. trunc(minstret, Narrow) = trunc(counted, Narrow)
      BY <2>2 DEF CounterInv, CountsRetired
    <3>3. trunc((trunc(minstret, Narrow) + 1) % 2^Wide, Narrow) = trunc((counted + 1) % 2^Wide, Narrow)
      BY <1>3, <3>2, LowCounts
    <3>4. trunc(minstret', Narrow) = trunc(counted', Narrow)  BY <1>5, <3>1, <3>3
    <3> QED  BY <1>1, <2>2, <3>4 DEF CountsRetired
  <2> QED  BY <2>1, <2>2
<1> QED  BY <1>7, <1>8 DEF CounterInv

LEMMA WriteKeeps ==
    ASSUME CounterInv, guest' = guest, NEW i \in G.insts, i.kind = "INSTRET",
           ~ (i.csr = "minstreth" /\ xb = Wide), InstretWrite(i)
    PROVE  CounterInv'
<1>1. G' = G /\ xb' = xb  BY DEF G, xb
<1>2. 2^Wide \in Nat \ {0} /\ 2^Narrow \in Nat \ {0}  BY Powers
<1>3. minstret \in Nat /\ counted \in Nat  BY <1>2 DEF CounterInv
<1>4. /\ xb \in {Narrow, Wide} /\ i.csr \in {"minstret", "minstreth"}
      /\ i.src \in 0 .. 2^xb - 1
  BY CounterAssumption DEF CounterInv, G, xb
<1>5. 2^Narrow <= 2^Wide
  <2> DEFINE K == 2^Narrow
             W == 2^Wide
             J == W \div K
  <2>1. K \in Nat \ {0} /\ W \in Nat \ {0} /\ W = K * J  BY Powers
  <2>2. J \in Int  BY <2>1
  <2> HIDE DEF J
  <2> SUFFICES K <= W  OBVIOUS
  <2> HIDE DEF K, W
  <2>3. CASE J <= 0
    <3>1. K * J <= 0  BY <2>1, <2>2, <2>3
    <3> QED  BY <2>1, <3>1
  <2>4. CASE J >= 1
    <3>1. K * J = K + K * (J - 1)  BY <2>1, <2>2
    <3>2. K * (J - 1) \in Int /\ K * (J - 1) >= 0  BY <2>1, <2>2, <2>4
    <3>3. K + K * (J - 1) >= K  BY <2>1, <3>2
    <3> QED  BY <2>1, <3>1, <3>3
  <2> QED  BY <2>2, <2>3, <2>4
<1>6. i.src \in 0 .. 2^Wide - 1
  <2>1. CASE xb = Narrow  BY <1>2, <1>4, <1>5, <2>1
  <2>2. CASE xb = Wide  BY <1>4, <2>2
  <2> QED  BY <1>4, <2>1, <2>2
<1>7. CASE i.csr = "minstreth"
  <2>1. xb = Narrow /\ xb # Wide  BY <1>4, <1>7
  <2>2. trunc(minstret, Narrow) = trunc(counted, Narrow)
    BY <2>1 DEF CounterInv, CountsRetired
  <2>3. minstret' = counted' /\ minstret' = (i.src * 2^Narrow + trunc(minstret, Narrow)) % 2^Wide
    BY <1>7, <2>2 DEF InstretWrite
  <2>4. i.src * 2^Narrow \in Nat /\ trunc(minstret, Narrow) \in Nat
    BY <1>2, <1>3, <1>6 DEF trunc
  <2>5. minstret' \in 0 .. 2^Wide - 1  BY <1>2, <2>3, <2>4
  <2> QED  BY <1>1, <2>3, <2>5 DEF CounterInv, CountsRetired
<1>8. CASE i.csr # "minstreth"
  <2>1. minstret' = i.src /\ counted' = i.src  BY <1>8 DEF InstretWrite
  <2> QED  BY <1>1, <1>6, <2>1 DEF CounterInv, CountsRetired
<1> QED  BY <1>7, <1>8

LEMMA NextCounter == CounterInv /\ [Next]_vars => CounterInv'
<1> SUFFICES ASSUME CounterInv, [Next]_vars PROVE CounterInv'  OBVIOUS
<1>1. guest' = guest  BY DEF Next, Fetch, Step, Switch, FirstUse, vars
<1>2. CASE UNCHANGED <<minstret, counted>>
  <2>1. xb' = xb  BY <1>1 DEF G, xb
  <2> QED  BY <1>1, <1>2, <2>1 DEF CounterInv, CountsRetired
<1>3. CASE Step
  <2>1. CounterStep  BY <1>3, ExecuteCounter DEF Step
  <2>2. CASE Count  BY <1>1, <2>2, CountKeeps
  <2>3. CASE \E i \in G.insts : i.kind = "INSTRET" /\ ~ (i.csr = "minstreth" /\ xb = Wide)
                                 /\ InstretWrite(i)
    BY <1>1, <2>3, WriteKeeps
  <2> QED  BY <1>2, <2>1, <2>2, <2>3 DEF CounterStep
<1>4. CASE Fetch \/ Switch \/ FirstUse \/ UNCHANGED vars
  BY <1>2, <1>4 DEF Fetch, Switch, FirstUse, vars
<1> QED  BY <1>3, <1>4 DEF Next

\* On every hart and for every program, the counter holds the instructions
\* that retired since it was written, all of its bits on RV64 and the low half
\* on RV32: the step that writes it does not count, and reading the counter
\* through a narrow register to increment it loses nothing of the low half
\* (cpu.rs, the end of step).
THEOREM CounterExact == Spec => []CountsRetired
<1>1. Init => CounterInv
  BY CounterAssumption DEF Init, CounterInv, CountsRetired, G
<1>2. CounterInv => CountsRetired  BY DEF CounterInv
<1> QED  BY <1>1, <1>2, NextCounter, PTL DEF Spec

-----------------------------------------------------------------------------
(* Narrowing and extending, at either width *)

Widths == {Narrow, Wide}

LEMMA WidthPowers ==
    ASSUME NEW w \in Widths
    PROVE  /\ 2^(w - 1) \in Nat /\ 2^(w - 1) >= 2
           /\ 2^w \in Nat \ {0} /\ 2^w = 2 * 2^(w - 1)
           /\ \E J \in Int : 2^Wide = 2^w * J
<1> DEFINE H == 2^(w - 1)
           M == 2^w
<1> DEFINE F == 2^(w - 2)
<1>1. H \in Nat \ {0, 1} /\ M = 2 * H
  <2>1. w \in Nat /\ w - 2 \in 0 .. Wide /\ w - 1 \in 0 .. Wide /\ w - 2 < Wide
        /\ w - 1 < Wide /\ (w - 2) + 1 = w - 1 /\ (w - 1) + 1 = w
    BY AluAssumption DEF Widths
  <2>2. F \in Nat \ {0}  BY <2>1, PowerType
  <2>3. H = 2 * F  BY <2>1, PowerNext
  <2>4. M = 2 * H  BY <2>1, PowerNext
  <2> HIDE DEF H, M, F
  <2> QED  BY <2>2, <2>3, <2>4
<1> HIDE DEF H, M, F
<1>2. H \in Nat /\ H >= 2 /\ M \in Nat \ {0}  BY <1>1
<1>3. \E J \in Int : 2^Wide = 2^w * J
  <2>1. CASE w = Narrow
    <3> DEFINE J == 2^Wide \div 2^Narrow
    <3>1. J \in Int  BY Powers
    <3>2. 2^Wide = 2^w * J  BY <2>1, Powers
    <3> HIDE DEF J
    <3> QED  BY <3>1, <3>2
  <2>2. CASE w = Wide
    <3>1. 2^Wide = 2^Wide * 1  BY Powers
    <3> QED  BY <2>2, <3>1
  <2> QED  BY <2>1, <2>2 DEF Widths
<1> QED  BY <1>1, <1>2, <1>3 DEF H, M

LEMMA TruncRange ==
    ASSUME NEW w \in Widths, NEW x \in Int
    PROVE  /\ trunc(x, w) \in 0 .. 2^w - 1
           /\ \E q \in Int : x = trunc(x, w) + 2^w * q
<1> DEFINE M == 2^w
           q == x \div M
           r == x % M
<1>1. M \in Nat \ {0}  BY WidthPowers
<1>2. trunc(x, w) = r  BY DEF trunc
<1> HIDE DEF M
<1>3. r \in 0 .. M - 1  BY <1>1
<1>4. q \in Int /\ x = M * q + r  BY <1>1
<1> HIDE DEF q, r
<1>5. M * q \in Int  BY <1>1, <1>4
<1>6. x = r + M * q  BY <1>3, <1>4, <1>5
<1> QED  BY <1>2, <1>3, <1>4, <1>6 DEF M

LEMMA TruncSame ==
    ASSUME NEW w \in Widths, NEW x \in Int, NEW y \in Int, NEW q \in Int, x = y + 2^w * q
    PROVE  trunc(x, w) = trunc(y, w)
<1> DEFINE M == 2^w
<1>1. M \in Nat \ {0}  BY WidthPowers
<1>2. x = y + M * q  OBVIOUS
<1> HIDE DEF M
<1>3. x % M = y % M  BY <1>1, <1>2, SameRemainder, Zenon
<1> QED  BY <1>3 DEF trunc, M

LEMMA TruncFits ==
    ASSUME NEW w \in Widths, NEW x \in 0 .. 2^w - 1 PROVE trunc(x, w) = x
<1> DEFINE M == 2^w
<1>1. M \in Nat \ {0} /\ x \in 0 .. M - 1  BY WidthPowers
<1> HIDE DEF M
<1>2. x % M = x  BY <1>1
<1> QED  BY <1>2 DEF trunc, M

LEMMA SignedRange ==
    ASSUME NEW w \in Widths, NEW x \in Int
    PROVE  /\ Signed(x, w) \in - 2^(w - 1) .. 2^(w - 1) - 1
           /\ \E q \in Int : Signed(x, w) = trunc(x, w) + 2^w * q
<1> DEFINE M == 2^w
           H == 2^(w - 1)
           t == trunc(x, w)
<1>1. M \in Nat /\ H \in Nat /\ M = 2 * H /\ H >= 2  BY WidthPowers
<1>2. t \in 0 .. M - 1  BY TruncRange
<1>3. Signed(x, w) = IF t >= H THEN t - M ELSE t  BY DEF Signed
<1> HIDE DEF M, H, t
<1>4. Signed(x, w) \in - H .. H - 1  BY <1>1, <1>2, <1>3
<1>5. \E q \in Int : Signed(x, w) = t + M * q
  <2>1. CASE t >= H
    <3>1. Signed(x, w) = t + M * (-1)  BY <1>1, <1>2, <1>3, <2>1
    <3> QED  BY <3>1
  <2>2. CASE ~ (t >= H)
    <3>1. Signed(x, w) = t + M * 0  BY <1>1, <1>2, <1>3, <2>2
    <3> QED  BY <3>1
  <2> QED  BY <2>1, <2>2
<1> QED  BY <1>4, <1>5 DEF M, H, t

LEMMA SignedFits ==
    ASSUME NEW w \in Widths, NEW x \in - 2^(w - 1) .. 2^(w - 1) - 1 PROVE Signed(x, w) = x
<1> DEFINE M == 2^w
           H == 2^(w - 1)
           t == trunc(x, w)
<1>1. M \in Nat /\ H \in Nat /\ M = 2 * H /\ H >= 2  BY WidthPowers
<1>2. x \in Int /\ - H <= x /\ x < H  BY <1>1
<1>3. Signed(x, w) = IF t >= H THEN t - M ELSE t  BY DEF Signed
<1>4. CASE x >= 0
  <2>1. x \in 0 .. 2^w - 1  BY <1>1, <1>2, <1>4
  <2>2. t = x  BY <2>1, TruncFits
  <2> HIDE DEF M, H, t
  <2> QED  BY <1>1, <1>2, <1>3, <1>4, <2>2
<1>5. CASE x < 0
  <2>1. x + M \in 0 .. M - 1 /\ x + M \in Int
    <3> HIDE DEF M, H, t
    <3> QED  BY <1>1, <1>2, <1>5
  <2>2. trunc(x + M, w) = x + M  BY <2>1, TruncFits
  <2>3. x + M = x + M * 1
    <3> HIDE DEF M
    <3> QED  BY <1>1
  <2>4. trunc(x + M, w) = t
    BY <1>2, <2>1, <2>3, TruncSame
  <2> HIDE DEF M, H, t
  <2>5. t = x + M  BY <2>2, <2>4
  <2> QED  BY <1>1, <1>2, <1>3, <1>5, <2>5
<1> QED  BY <1>2, <1>4, <1>5

\* Extending a result to the register changes none of its low bits.
LEMMA SextKeeps ==
    ASSUME NEW w \in Widths, NEW x \in Int
    PROVE  /\ sext(x, w) \in Int
           /\ trunc(sext(x, w), w) = trunc(x, w)
           /\ Signed(sext(x, w), w) = Signed(x, w)
<1> DEFINE M == 2^w
           W == 2^Wide
           s == Signed(x, w)
           e == s % W
           p == s \div W
<1>1. M \in Nat \ {0} /\ W \in Nat \ {0}  BY WidthPowers, Powers
<1>2. PICK J \in Int : W = M * J  BY WidthPowers
<1>3. s \in Int /\ \E q \in Int : s = trunc(x, w) + M * q
  <2>1. 2^(w - 1) \in Nat  BY WidthPowers
  <2> QED  BY <2>1, SignedRange
<1>4. PICK q \in Int : s = trunc(x, w) + M * q  BY <1>3
<1>5. trunc(x, w) \in Int  BY <1>1, TruncRange
<1>6. PICK k \in Int : x = trunc(x, w) + M * k  BY TruncRange
<1>7. sext(x, w) = e  BY DEF sext
<1> HIDE DEF M, W, s
<1>8. e \in Int /\ p \in Int /\ s = W * p + e  BY <1>1, <1>3
<1> HIDE DEF e, p
<1> DEFINE t == trunc(x, w)
           a == J * p
<1>9. a \in Int /\ W * p = M * a
  <2>1. a \in Int  BY <1>2, <1>8
  <2>2. (M * J) * p = M * (J * p)  BY <1>1, <1>2, <1>8
  <2> QED  BY <1>2, <2>1, <2>2
<1> HIDE DEF t, a
<1>10. t \in Int /\ s = t + M * q /\ x = t + M * k  BY <1>4, <1>5, <1>6 DEF t
<1> DEFINE b == q - a - k
<1>11. b \in Int /\ e = x + M * b
  <2>1. M * b = M * q - M * a - M * k  BY <1>1, <1>9
  <2>2. M * q \in Int /\ M * a \in Int /\ M * k \in Int  BY <1>1, <1>9
  <2>3. b \in Int  BY <1>9
  <2> HIDE DEF b
  <2> QED  BY <1>8, <1>9, <1>10, <2>1, <2>2, <2>3
<1> HIDE DEF b
<1>12. trunc(e, w) = trunc(x, w)  BY <1>8, <1>11, TruncSame, Zenon DEF M
<1>13. Signed(e, w) = Signed(x, w)  BY <1>12 DEF Signed
<1> QED  BY <1>7, <1>8, <1>12, <1>13

-----------------------------------------------------------------------------
(* Multiplication and division *)

\* A product's quotient by M, and the remainder of anything congruent to it.
LEMMA HighAndLow ==
    ASSUME NEW w \in Widths, NEW P \in Int, NEW U \in Int, NEW k \in Int, P = U + 2^w * k
    PROVE  P \div 2^w \in Int /\ (P \div 2^w) * 2^w + trunc(U, w) = P
<1> DEFINE M == 2^w
           q == P \div M
           r == P % M
<1>1. M \in Nat \ {0}  BY WidthPowers
<1>2. trunc(P, w) = trunc(U, w)  BY TruncSame, Zenon
<1>3. trunc(P, w) = r  BY DEF trunc
<1> HIDE DEF M
<1>4. q \in Int /\ r \in Int /\ P = M * q + r  BY <1>1
<1> HIDE DEF q, r
<1>5. q * M = M * q /\ M * q \in Int  BY <1>1, <1>4
<1>6. q * M + r = P  BY <1>4, <1>5
<1> QED  BY <1>2, <1>3, <1>4, <1>6 DEF M, q

\* The product of a signed operand and any operand has a signed upper half.
LEMMA SignedHigh ==
    ASSUME NEW H \in Nat, H >= 2, NEW x \in - H .. H - 1, NEW y \in - H .. 2 * H - 1
    PROVE  (x * y) \div (2 * H) \in - H .. H - 1
<1> DEFINE P == x * y
           M == 2 * H
           q == P \div M
           r == P % M
<1>1. P \in Int /\ - (H * M) <= P /\ P < H * M
  <2>1. P \in Int /\ H * M \in Int  OBVIOUS
  <2>2. CASE x >= 0 /\ y >= 0
    <3>1. x * y <= x * M /\ x * M < H * M /\ x * y >= 0  BY <2>2
    <3> QED  BY <2>1, <3>1
  <2>3. CASE x < 0 /\ y >= 0
    <3>1. (- x) * y <= (- x) * M /\ (- x) * M <= H * M /\ (- x) * y >= 0  BY <2>3
    <3>2. (- x) * y = - P  OBVIOUS
    <3>3. H * M > 0  OBVIOUS
    <3> QED  BY <2>1, <3>1, <3>2, <3>3
  <2>4. CASE x >= 0 /\ y < 0
    <3>1. x * (- y) <= x * M /\ x * M < H * M /\ x * (- y) >= 0  BY <2>4
    <3>2. x * (- y) = - P  OBVIOUS
    <3> QED  BY <2>1, <3>1, <3>2
  <2>5. CASE x < 0 /\ y < 0
    <3>1. (- x) * (- y) <= (- x) * H /\ (- x) * H <= H * H /\ (- x) * (- y) >= 0  BY <2>5
    <3>2. (- x) * (- y) = P  OBVIOUS
    <3>3. H * H < H * M  OBVIOUS
    <3> QED  BY <2>1, <3>1, <3>2, <3>3
  <2> QED  BY <2>2, <2>3, <2>4, <2>5
<1>2. M \in Nat \ {0}  OBVIOUS
<1> SUFFICES q \in - H .. H - 1  OBVIOUS
<1> HIDE DEF P, M
<1>3. q \in Int /\ r \in 0 .. M - 1 /\ P = M * q + r  BY <1>1, <1>2
<1> HIDE DEF q, r
<1>4. H * M = M * H  BY <1>2
<1>5. CASE q >= H
  <2>1. M * q >= M * H  BY <1>2, <1>3, <1>5
  <2>2. M * q \in Int /\ M * H \in Int  BY <1>2, <1>3
  <2> QED  BY <1>1, <1>2, <1>3, <1>4, <2>1, <2>2
<1>6. CASE q <= - H - 1
  <2>1. M * q <= M * (- H - 1)  BY <1>2, <1>3, <1>6
  <2>2. M * (- H - 1) = - (M * H) - M  BY <1>2
  <2>3. M * q \in Int /\ M * H \in Int  BY <1>2, <1>3
  <2> QED  BY <1>1, <1>2, <1>3, <1>4, <2>1, <2>2, <2>3
<1> QED  BY <1>3, <1>5, <1>6

\* That of two unsigned operands has an unsigned one.
LEMMA UnsignedHigh ==
    ASSUME NEW M \in Nat \ {0}, NEW x \in 0 .. M - 1, NEW y \in 0 .. M - 1
    PROVE  (x * y) \div M \in 0 .. M - 1
<1> DEFINE P == x * y
           q == P \div M
           r == P % M
<1>1. P \in Int /\ 0 <= P /\ P < M * M
  <2>1. x * y <= x * M /\ x * M < M * M /\ x * y >= 0  OBVIOUS
  <2>2. P \in Int /\ x * M \in Int /\ M * M \in Int  OBVIOUS
  <2> QED  BY <2>1, <2>2
<1> SUFFICES q \in 0 .. M - 1  OBVIOUS
<1> HIDE DEF P
<1>3. q \in Int /\ r \in 0 .. M - 1 /\ P = M * q + r  BY <1>1
<1> HIDE DEF q, r
<1>5. CASE q >= M
  <2>1. M * q >= M * M  BY <1>3, <1>5
  <2>2. M * q \in Int /\ M * M \in Int  BY <1>3
  <2> QED  BY <1>1, <1>3, <2>1, <2>2
<1>6. CASE q <= - 1
  <2>1. M * q <= - M  BY <1>3, <1>6
  <2> QED  BY <1>1, <1>3, <2>1
<1> QED  BY <1>3, <1>5, <1>6

\* Division towards zero: the remainder is small and has the dividend's sign.
LEMMA TruncatedDivides ==
    ASSUME NEW n \in Int, NEW d \in Int, d # 0
    PROVE  /\ Truncated(n, d) \in Int /\ Remainder(n, d) \in Int
           /\ n = d * Truncated(n, d) + Remainder(n, d)
           /\ Abs(Remainder(n, d)) < Abs(d)
           /\ Remainder(n, d) # 0 => (Remainder(n, d) < 0) = (n < 0)
<1> DEFINE a == Abs(n)
           b == Abs(d)
           q == a \div b
           r == a % b
           t == Truncated(n, d)
<1>1. a \in Nat /\ b \in Nat \ {0}  BY DEF Abs
<1>2. t = IF (n < 0) = (d < 0) THEN q ELSE - q  BY DEF Truncated
<1>3. n = (IF n < 0 THEN - a ELSE a) /\ d = (IF d < 0 THEN - b ELSE b)  BY DEF Abs
<1> HIDE DEF a, b
<1>4. q \in Int /\ r \in 0 .. b - 1 /\ a = b * q + r  BY <1>1
<1> HIDE DEF q, r, t
<1>5. t \in Int  BY <1>2, <1>4
<1>6. d * t = IF n < 0 THEN - (b * q) ELSE b * q
  <2>1. CASE n < 0 /\ d < 0
    <3>1. d = - b /\ t = q  BY <1>2, <1>3, <2>1
    <3>2. (- b) * q = - (b * q)  BY <1>1, <1>4
    <3> QED  BY <2>1, <3>1, <3>2
  <2>2. CASE n < 0 /\ ~ (d < 0)
    <3>1. d = b /\ t = - q  BY <1>2, <1>3, <2>2
    <3>2. b * (- q) = - (b * q)  BY <1>1, <1>4
    <3> QED  BY <2>2, <3>1, <3>2
  <2>3. CASE ~ (n < 0) /\ d < 0
    <3>1. d = - b /\ t = - q  BY <1>2, <1>3, <2>3
    <3>2. (- b) * (- q) = b * q  BY <1>1, <1>4
    <3> QED  BY <2>3, <3>1, <3>2
  <2>4. CASE ~ (n < 0) /\ ~ (d < 0)
    <3>1. d = b /\ t = q  BY <1>2, <1>3, <2>4
    <3> QED  BY <2>4, <3>1
  <2> QED  BY <2>1, <2>2, <2>3, <2>4
<1> DEFINE p == d * t
           m == b * q
<1>7. p \in Int /\ m \in Int  BY <1>1, <1>4, <1>5
<1>8. p = (IF n < 0 THEN - m ELSE m) /\ a = m + r  BY <1>4, <1>6
<1>9. Remainder(n, d) = n - p  BY DEF Remainder, t
<1> HIDE DEF p, m
<1>10. n - p = IF n < 0 THEN - r ELSE r  BY <1>1, <1>3, <1>4, <1>7, <1>8
<1>11. n = p + Remainder(n, d) /\ Remainder(n, d) \in Int  BY <1>7, <1>9
<1>12. Abs(Remainder(n, d)) = r  BY <1>4, <1>9, <1>10 DEF Abs
<1>13. Remainder(n, d) # 0 => (Remainder(n, d) < 0) = (n < 0)
  <2>1. CASE n < 0  BY <1>4, <1>9, <1>10, <2>1
  <2>2. CASE ~ (n < 0)  BY <1>4, <1>9, <1>10, <2>2
  <2> QED  BY <2>1, <2>2
<1>14. r < b  BY <1>1, <1>4
<1> QED  BY <1>5, <1>11, <1>12, <1>13, <1>14 DEF p, t, b

\* What DivisionAndHalves asks of one result v of op.
Divides(op, a, b, v, w) ==
    LET low == alu("ADD", muldiv("MUL", a, b, w), 0, w)
        sa == Signed(a, w)
        sb == Signed(b, w)
        ua == trunc(a, w)
        ub == trunc(b, w)
    IN  /\ op = "MULH" => Signed(v, w) * 2^w + trunc(low, w) = sa * sb
        /\ op = "MULHSU" => Signed(v, w) * 2^w + trunc(low, w) = sa * ub
        /\ op = "MULHU" => trunc(v, w) * 2^w + trunc(low, w) = ua * ub
        /\ op = "REM" /\ sb # 0 =>
             /\ (sb * Signed(muldiv("DIV", a, b, w), w) + Signed(v, w) - sa) % 2^w = 0
             /\ Abs(Signed(v, w)) < Abs(sb)
             /\ Signed(v, w) # 0 => (Signed(v, w) < 0) = (sa < 0)
        /\ op = "REMU" /\ ub # 0 =>
             /\ ub * trunc(muldiv("DIVU", a, b, w), w) + trunc(v, w) = ua
             /\ trunc(v, w) < ub
        /\ op \in {"REM", "REMU"} /\ ub = 0 => trunc(v, w) = ua
        /\ op \in {"DIV", "DIVU"} /\ ub = 0 => trunc(v, w) = 2^w - 1

\* The operands as numbers.
LEMMA Operands ==
    ASSUME NEW w \in Widths, NEW a \in Int
    PROVE  /\ Signed(a, w) \in Int /\ Signed(a, w) \in - 2^(w - 1) .. 2^(w - 1) - 1
           /\ trunc(a, w) \in Nat /\ trunc(a, w) \in 0 .. 2^w - 1
           /\ \E q \in Int : Signed(a, w) = trunc(a, w) + 2^w * q
           /\ Signed(a, w) = 0 <=> trunc(a, w) = 0
<1> DEFINE M == 2^w
           H == 2^(w - 1)
           t == trunc(a, w)
           s == Signed(a, w)
<1>1. M \in Nat /\ H \in Nat /\ M = 2 * H /\ H >= 2  BY WidthPowers
<1>2. t \in 0 .. M - 1  BY TruncRange
<1>3. s \in - H .. H - 1 /\ \E q \in Int : s = t + M * q  BY SignedRange
<1>4. s = IF t >= H THEN t - M ELSE t  BY DEF Signed
<1> HIDE DEF M, H, t, s
<1>5. s \in Int /\ t \in Nat  BY <1>1, <1>2, <1>3
<1>6. s = 0 <=> t = 0  BY <1>1, <1>2, <1>4
<1> QED  BY <1>2, <1>3, <1>5, <1>6 DEF M, H, t, s

\* What reading a result back gives: of its value, the low bits.
LEMMA ReadBack ==
    ASSUME NEW w \in Widths, NEW a, NEW b, NEW op, NEW m \in Int,
           MulDivValue(op, Signed(a, w), Signed(b, w), trunc(a, w), trunc(b, w), w) = m
    PROVE  /\ trunc(muldiv(op, a, b, w), w) = trunc(m, w)
           /\ Signed(muldiv(op, a, b, w), w) = Signed(m, w)
           /\ muldiv(op, a, b, w) \in Int
BY SextKeeps DEF muldiv

LEMMA LowHalf ==
    ASSUME NEW w \in Widths, NEW a \in Int, NEW b \in Int
    PROVE  trunc(alu("ADD", muldiv("MUL", a, b, w), 0, w), w) = trunc(trunc(a, w) * trunc(b, w), w)
<1> DEFINE U == trunc(a, w) * trunc(b, w)
           x == muldiv("MUL", a, b, w)
<1>1. U \in Int  BY Operands
<1>2. MulDivValue("MUL", Signed(a, w), Signed(b, w), trunc(a, w), trunc(b, w), w) = U
  BY DEF MulDivValue
<1> HIDE DEF U
<1>3. x \in Int /\ trunc(x, w) = trunc(U, w)  BY <1>1, <1>2, ReadBack
<1> HIDE DEF x
<1>4. alu("ADD", x, 0, w) = sext(x + 0, w)  BY DEF alu, AluValue
<1>5. x + 0 = x  BY <1>3
<1>6. trunc(alu("ADD", x, 0, w), w) = trunc(x, w)  BY <1>3, <1>4, <1>5, SextKeeps
<1> QED  BY <1>3, <1>6 DEF x, U

LEMMA HighHalves ==
    ASSUME NEW w \in Widths, NEW a \in Int, NEW b \in Int, NEW op \in {"MULH", "MULHSU", "MULHU"}
    PROVE  Divides(op, a, b, muldiv(op, a, b, w), w)
<1> DEFINE M == 2^w
           H == 2^(w - 1)
           sa == Signed(a, w)
           sb == Signed(b, w)
           ua == trunc(a, w)
           ub == trunc(b, w)
           U == ua * ub
           P == FullProduct(op, sa, sb, ua, ub)
           h == P \div M
           v == muldiv(op, a, b, w)
           low == trunc(alu("ADD", muldiv("MUL", a, b, w), 0, w), w)
<1>1. M \in Nat \ {0} /\ H \in Nat /\ H >= 2 /\ M = 2 * H  BY WidthPowers
<1>2. sa \in Int /\ sb \in Int /\ ua \in Int /\ ub \in Int  BY Operands
<1>3. sa \in - H .. H - 1 /\ sb \in - H .. H - 1 /\ ua \in 0 .. M - 1 /\ ub \in 0 .. M - 1
  BY Operands
<1>4. \E q \in Int : sa = ua + M * q  BY Operands
<1>5. \E q \in Int : sb = ub + M * q  BY Operands
<1>6. low = trunc(U, w)  BY LowHalf
<1>7. MulDivValue(op, sa, sb, ua, ub, w) = h  BY DEF MulDivValue
<1>8. P = CASE op = "MULH" -> sa * sb [] op = "MULHSU" -> sa * ub [] op = "MULHU" -> ua * ub
  BY DEF FullProduct
<1> HIDE DEF sa, sb, ua, ub, P, low
<1>9. P \in Int /\ U \in Int  BY <1>2, <1>8
<1>10. \E k \in Int : P = U + M * k
  <2> HIDE DEF M, H
  <2>1. PICK q \in Int : sa = ua + M * q  BY <1>4
  <2>2. PICK p \in Int : sb = ub + M * p  BY <1>5
  <2>3. CASE op = "MULHU"
    <3>1. P = U + M * 0  BY <1>1, <1>8, <1>9, <2>3
    <3> QED  BY <3>1
  <2>4. CASE op = "MULHSU"
    <3>1. P = (ua + M * q) * ub  BY <1>8, <2>1, <2>4
    <3>2. (ua + M * q) * ub = U + M * (q * ub)  BY <1>1, <1>2
    <3>3. q * ub \in Int  BY <1>2
    <3> QED  BY <3>1, <3>2, <3>3
  <2>5. CASE op = "MULH"
    <3>1. P = (ua + M * q) * (ub + M * p)  BY <1>8, <2>1, <2>2, <2>5
    <3>2. (ua + M * q) * (ub + M * p) = U + M * (q * ub + ua * p + q * (M * p))  BY <1>1, <1>2
    <3>3. q * ub + ua * p + q * (M * p) \in Int  BY <1>1, <1>2
    <3> QED  BY <3>1, <3>2, <3>3
  <2> QED  BY <2>3, <2>4, <2>5
<1>11. h \in Int /\ h * M + low = P
  <2>1. PICK k \in Int : P = U + M * k  BY <1>10
  <2> HIDE DEF U
  <2> QED  BY <1>6, <1>9, <2>1, HighAndLow
<1>12. trunc(v, w) = trunc(h, w) /\ Signed(v, w) = Signed(h, w)
  <2> HIDE DEF h
  <2> QED  BY <1>7, <1>11, ReadBack DEF sa, sb, ua, ub
<1>13. CASE op \in {"MULH", "MULHSU"}
  <2>1. h \in - H .. H - 1
    <3>1. ub \in - H .. 2 * H - 1 /\ sb \in - H .. 2 * H - 1
      <4> HIDE DEF M, H
      <4> QED  BY <1>1, <1>2, <1>3
    <3>2. (sa * sb) \div (2 * H) \in - H .. H - 1 /\ (sa * ub) \div (2 * H) \in - H .. H - 1
      <4> HIDE DEF H
      <4> QED  BY <1>1, <1>3, <3>1, SignedHigh
    <3> QED  BY <1>1, <1>8, <1>13, <3>2
  <2> HIDE DEF h
  <2>2. Signed(h, w) = h  BY <2>1, SignedFits
  <2>3. Signed(v, w) * M + low = P  BY <1>11, <1>12, <2>2
  <2> QED  BY <1>8, <1>13, <2>3 DEF Divides, low, sa, sb, ua, ub
<1>14. CASE op = "MULHU"
  <2>1. h \in 0 .. M - 1
    <3> HIDE DEF M
    <3> QED  BY <1>1, <1>3, <1>8, <1>14, UnsignedHigh
  <2> HIDE DEF h
  <2>2. trunc(h, w) = h  BY <2>1, TruncFits
  <2>3. trunc(v, w) * M + low = P  BY <1>11, <1>12, <2>2
  <2> QED  BY <1>8, <1>14, <2>3 DEF Divides, low, sa, sb, ua, ub
<1> QED  BY <1>13, <1>14

\* All ones of the register are all ones of either width.
LEMMA AllOnes ==
    ASSUME NEW w \in Widths PROVE trunc(2^Wide - 1, w) = 2^w - 1
<1> DEFINE M == 2^w
           W == 2^Wide
<1>1. M \in Nat \ {0} /\ W \in Nat \ {0}  BY WidthPowers, Powers
<1>2. PICK J \in Int : W = M * J  BY WidthPowers
<1>3. trunc(M - 1, w) = M - 1
  <2>1. M - 1 \in 0 .. 2^w - 1
    <3>1. M - 1 \in 0 .. M - 1
      <4> HIDE DEF M
      <4> QED  BY <1>1
    <3> QED  BY <3>1
  <2> QED  BY <2>1, TruncFits
<1>4. W - 1 = (M - 1) + M * (J - 1) /\ W - 1 \in Int /\ M - 1 \in Int /\ J - 1 \in Int
  <2> HIDE DEF M, W
  <2>1. M * (J - 1) = M * J - M /\ M * J \in Int  BY <1>1
  <2> QED  BY <1>1, <1>2, <2>1
<1> DEFINE x == W - 1
           y == M - 1
           j == J - 1
<1>5. x \in Int /\ y \in Int /\ j \in Int /\ x = y + 2^w * j  BY <1>4
<1> HIDE DEF x, y, j
<1>6. trunc(x, w) = trunc(y, w)  BY <1>5, TruncSame, Zenon
<1> QED  BY <1>3, <1>6 DEF x, y

LEMMA UnsignedDivision ==
    ASSUME NEW w \in Widths, NEW a \in Int, NEW b \in Int, NEW op \in {"DIVU", "REMU"}
    PROVE  Divides(op, a, b, muldiv(op, a, b, w), w)
<1> DEFINE M == 2^w
           ua == trunc(a, w)
           ub == trunc(b, w)
           v == muldiv(op, a, b, w)
           q == ua \div ub
           r == ua % ub
<1>1. M \in Nat \ {0}  BY WidthPowers
<1>2. ua \in 0 .. M - 1 /\ ub \in 0 .. M - 1 /\ ua \in Nat /\ ub \in Nat  BY Operands
<1>3. ASSUME ub # 0
      PROVE  /\ q \in 0 .. M - 1 /\ r \in 0 .. M - 1 /\ r < ub /\ ua = ub * q + r
  <2> HIDE DEF M, ua, ub
  <2>1. q \in Int /\ r \in 0 .. ub - 1 /\ ua = ub * q + r  BY <1>2, <1>3
  <2> HIDE DEF q, r
  <2>2. q >= 0
    <3>1. CASE q <= -1
      <4>1. ub * q <= - ub  BY <1>2, <1>3, <2>1, <3>1
      <4> QED  BY <1>2, <2>1, <4>1
    <3> QED  BY <2>1, <3>1
  <2>3. ub * q >= q  BY <1>2, <1>3, <2>1, <2>2
  <2>4. ub * q \in Int  BY <1>2, <2>1
  <2> QED  BY <1>1, <1>2, <2>1, <2>2, <2>3, <2>4
<1>4. CASE op = "REMU" /\ ub # 0
  <2>1. MulDivValue("REMU", Signed(a, w), Signed(b, w), ua, ub, w) = r
    BY <1>4 DEF MulDivValue
  <2>2. MulDivValue("DIVU", Signed(a, w), Signed(b, w), ua, ub, w) = q
    BY <1>4 DEF MulDivValue
  <2>3. q \in 0 .. M - 1 /\ r \in 0 .. M - 1 /\ r < ub /\ ua = ub * q + r  BY <1>3, <1>4
  <2> HIDE DEF q, r
  <2>4. q \in Int /\ r \in Int
    <3> HIDE DEF M
    <3> QED  BY <1>1, <2>3
  <2>5. trunc(v, w) = r /\ trunc(muldiv("DIVU", a, b, w), w) = q
    BY <1>4, <2>1, <2>2, <2>3, <2>4, ReadBack, TruncFits
  <2> HIDE DEF ua, ub, v
  <2>6. ub * trunc(muldiv("DIVU", a, b, w), w) + trunc(v, w) = ua /\ trunc(v, w) < ub
    BY <2>3, <2>5
  <2> QED  BY <1>4, <2>6 DEF Divides, ua, ub, v
<1>5. CASE op = "REMU" /\ ub = 0
  <2>1. MulDivValue("REMU", Signed(a, w), Signed(b, w), ua, ub, w) = ua
    BY <1>5 DEF MulDivValue
  <2>2. trunc(v, w) = ua  BY <1>2, <1>5, <2>1, ReadBack, TruncFits
  <2> QED  BY <1>5, <2>2 DEF Divides
<1>6. CASE op = "DIVU"
  <2>1. CASE ub # 0  BY <1>6, <2>1 DEF Divides
  <2>2. CASE ub = 0
    <3>1. MulDivValue("DIVU", Signed(a, w), Signed(b, w), ua, ub, w) = 2^Wide - 1
      BY <2>2 DEF MulDivValue
    <3>2. trunc(v, w) = trunc(2^Wide - 1, w)  BY <1>6, <3>1, Powers, ReadBack
    <3>3. trunc(2^Wide - 1, w) = M - 1  BY AllOnes
    <3> QED  BY <1>6, <2>2, <3>2, <3>3 DEF Divides
  <2> QED  BY <2>1, <2>2
<1> QED  BY <1>4, <1>5, <1>6

LEMMA SignedDivision ==
    ASSUME NEW w \in Widths, NEW a \in Int, NEW b \in Int, NEW op \in {"DIV", "REM"}
    PROVE  Divides(op, a, b, muldiv(op, a, b, w), w)
<1> DEFINE M == 2^w
           H == 2^(w - 1)
           sa == Signed(a, w)
           sb == Signed(b, w)
           ua == trunc(a, w)
           ub == trunc(b, w)
           v == muldiv(op, a, b, w)
           d == muldiv("DIV", a, b, w)
           t == Truncated(sa, sb)
           r == Remainder(sa, sb)
<1>1. M \in Nat \ {0} /\ H \in Nat /\ H >= 2 /\ M = 2 * H  BY WidthPowers
<1>2. /\ sa \in Int /\ sb \in Int /\ ua \in Nat
      /\ sa \in - H .. H - 1 /\ sb \in - H .. H - 1 /\ ua \in 0 .. M - 1
      /\ sb = 0 <=> ub = 0
  BY Operands
<1>3. CASE op = "REM" /\ sb # 0
  <2>1. MulDivValue("REM", sa, sb, ua, ub, w) = r  BY <1>3 DEF MulDivValue
  <2>2. MulDivValue("DIV", sa, sb, ua, ub, w) = t  BY <1>3 DEF MulDivValue
  <2>3. /\ t \in Int /\ r \in Int /\ sa = sb * t + r
        /\ Abs(r) < Abs(sb) /\ (r # 0 => (r < 0) = (sa < 0))
    BY <1>2, <1>3, TruncatedDivides
  <2> HIDE DEF t, r
  <2>4. r \in - H .. H - 1
    <3> HIDE DEF H, sa, sb
    <3>1. CASE r = 0  BY <1>1, <3>1
    <3>2. CASE r > 0  BY <1>1, <1>2, <2>3, <3>2 DEF Abs
    <3>3. CASE r < 0  BY <1>1, <1>2, <2>3, <3>3 DEF Abs
    <3> QED  BY <2>3, <3>1, <3>2, <3>3
  <2>5. Signed(v, w) = r  BY <1>3, <2>1, <2>3, <2>4, ReadBack, SignedFits
  <2>6. Signed(d, w) = Signed(t, w)  BY <2>2, <2>3, ReadBack
  <2>7. \E k \in Int : Signed(t, w) = t + M * k
    <3>1. PICK i \in Int : Signed(t, w) = trunc(t, w) + M * i  BY <2>3, SignedRange
    <3>2. PICK j \in Int : t = trunc(t, w) + M * j  BY <2>3, TruncRange
    <3>3. trunc(t, w) \in Int  BY <2>3, Operands
    <3> HIDE DEF M
    <3>4. M * (i - j) = M * i - M * j /\ M * i \in Int /\ M * j \in Int  BY <1>1
    <3>5. Signed(t, w) = t + M * (i - j)  BY <2>3, <3>1, <3>2, <3>3, <3>4
    <3> QED  BY <3>5
  <2>8. PICK k \in Int : Signed(t, w) = t + M * k  BY <2>7
  <2> HIDE DEF sa, sb, v, d
  <2>9. (sb * Signed(d, w) + Signed(v, w) - sa) % M = 0
    <3> HIDE DEF M
    <3> DEFINE z == sb * Signed(d, w) + Signed(v, w) - sa
               y == sb * k
    <3>1. z = sb * (t + M * k) + r - (sb * t + r)  BY <2>3, <2>5, <2>6, <2>8
    <3>2. sb * (t + M * k) = sb * t + M * (sb * k)  BY <1>1, <1>2, <2>3
    <3>3. y \in Int /\ sb * t \in Int  BY <1>2, <2>3
    <3>4. M * y \in Int  BY <1>1, <3>3
    <3> HIDE DEF y
    <3>5. z = sb * t + M * y + r - (sb * t + r)  BY <3>1, <3>2 DEF y
    <3> HIDE DEF z
    <3>6. z = M * y /\ z \in Int  BY <2>3, <3>3, <3>4, <3>5
    <3>7. z % M = 0  BY <1>1, <3>3, <3>6, Multiple, Zenon
    <3> QED  BY <3>7 DEF z
  <2>10. Abs(Signed(v, w)) < Abs(sb)  BY <2>3, <2>5
  <2>11. Signed(v, w) # 0 => (Signed(v, w) < 0) = (sa < 0)  BY <2>3, <2>5
  <2>12. ub # 0  BY <1>2, <1>3
  <2> QED  BY <1>3, <2>9, <2>10, <2>11, <2>12 DEF Divides, sa, sb, v, d
<1>4. CASE op = "REM" /\ sb = 0
  <2>1. MulDivValue("REM", sa, sb, ua, ub, w) = sa  BY <1>4 DEF MulDivValue
  <2>2. trunc(v, w) = trunc(sa, w)  BY <1>2, <1>4, <2>1, ReadBack
  <2>3. PICK q \in Int : sa = ua + M * q  BY Operands
  <2>4. trunc(sa, w) = trunc(ua, w)
    <3>1. sa \in Int /\ ua \in Int /\ sa = ua + 2^w * q  BY <1>2, <2>3
    <3> HIDE DEF sa, ua
    <3> QED  BY <3>1, TruncSame, Zenon
  <2>5. trunc(v, w) = ua  BY <1>2, <2>2, <2>4, TruncFits
  <2> QED  BY <1>4, <2>5 DEF Divides
<1>5. CASE op = "DIV"
  <2>1. CASE ub # 0  BY <1>5, <2>1 DEF Divides
  <2>2. CASE ub = 0
    <3>1. MulDivValue("DIV", sa, sb, ua, ub, w) = 2^Wide - 1
      BY <1>2, <2>2 DEF MulDivValue
    <3>2. trunc(v, w) = trunc(2^Wide - 1, w)  BY <1>5, <3>1, Powers, ReadBack
    <3>3. trunc(2^Wide - 1, w) = M - 1  BY AllOnes
    <3> QED  BY <1>5, <2>2, <3>2, <3>3 DEF Divides
  <2> QED  BY <2>1, <2>2
<1> QED  BY <1>3, <1>4, <1>5

-----------------------------------------------------------------------------
(* Orders *)

LEMMA SextBit ==
    ASSUME NEW w \in Widths PROVE sext(0, w) = 0 /\ sext(1, w) = 1
<1> DEFINE H == 2^(w - 1)
           W == 2^Wide
           V == 2^(Wide - 1)
<1>1. H \in Nat /\ H >= 2  BY WidthPowers
<1>2. V \in Nat /\ V >= 2 /\ W = 2 * V  BY WidthPowers DEF Widths
<1> HIDE DEF V
<1>3. 0 \in - H .. H - 1 /\ 1 \in - H .. H - 1
  <2> HIDE DEF H
  <2> QED  BY <1>1
<1>4. Signed(0, w) = 0 /\ Signed(1, w) = 1  BY <1>3, SignedFits
<1>5. 0 % W = 0 /\ 1 % W = 1
  <2> HIDE DEF W
  <2> QED  BY <1>2
<1> QED  BY <1>4, <1>5 DEF sext

\* The set-if-less instructions say 1 or 0.
LEMMA SetIfLess ==
    ASSUME NEW w \in Widths, NEW a, NEW b
    PROVE  /\ alu("SLT", a, b, w) = IF Signed(a, w) < Signed(b, w) THEN 1 ELSE 0
           /\ alu("SLTU", a, b, w) = IF trunc(a, w) < trunc(b, w) THEN 1 ELSE 0
<1> DEFINE s == and(b, w - 1)
<1>1. alu("SLT", a, b, w) = sext(AluValue("SLT", a, b, s, w), w)  BY DEF alu
<1>2. alu("SLTU", a, b, w) = sext(AluValue("SLTU", a, b, s, w), w)  BY DEF alu
<1> HIDE DEF s
<1>3. AluValue("SLT", a, b, s, w) = IF Signed(a, w) < Signed(b, w) THEN 1 ELSE 0
  BY DEF AluValue
<1>4. AluValue("SLTU", a, b, s, w) = IF trunc(a, w) < trunc(b, w) THEN 1 ELSE 0
  BY DEF AluValue
<1> QED  BY <1>1, <1>2, <1>3, <1>4, SextBit

\* What OrdersAgree asks of one result v of op.
Ordered(op, a, b, v, w) ==
    LET slt == alu("SLT", a, b, w) = 1
        sltu == alu("SLTU", a, b, w) = 1
        Least(less) == trunc(IF less THEN a ELSE b, w)
        Greatest(less) == trunc(IF less THEN b ELSE a, w)
    IN  /\ op = "BLT" => (v = 1) = slt
        /\ op = "BGE" => (v = 1) = ~ slt
        /\ op = "BLTU" => (v = 1) = sltu
        /\ op = "BGEU" => (v = 1) = ~ sltu
        /\ op = "BEQ" => (v = 1) = (~ sltu /\ alu("SLTU", b, a, w) = 0)
        /\ op = "BNE" => (v = 1) = (sltu \/ alu("SLTU", b, a, w) = 1)
        /\ op = "AMOMIN" => v = Least(slt)
        /\ op = "AMOMAX" => v = Greatest(slt)
        /\ op = "AMOMINU" => v = Least(sltu)
        /\ op = "AMOMAXU" => v = Greatest(sltu)

LEMMA BranchOrdered ==
    ASSUME NEW w \in Widths, NEW a \in 0 .. 2^w - 1, NEW b \in 0 .. 2^w - 1, NEW op \in BranchOps
    PROVE  Ordered(op, a, b, IF taken(op, a, b, w) THEN 1 ELSE 0, w)
<1> DEFINE sa == Signed(a, w)
           sb == Signed(b, w)
           v == IF taken(op, a, b, w) THEN 1 ELSE 0
<1>1. 2^w \in Nat  BY WidthPowers
<1>2. a \in Int /\ b \in Int  BY <1>1
<1>3. sa \in Int /\ sb \in Int  BY <1>2, Operands
<1>4. trunc(a, w) = a /\ trunc(b, w) = b  BY TruncFits
<1>5. /\ alu("SLT", a, b, w) = (IF sa < sb THEN 1 ELSE 0)
      /\ alu("SLTU", a, b, w) = (IF a < b THEN 1 ELSE 0)
      /\ alu("SLTU", b, a, w) = (IF b < a THEN 1 ELSE 0)
  BY <1>4, SetIfLess
<1>6. v = 1 <=> taken(op, a, b, w)  OBVIOUS
<1> HIDE DEF v
<1>7. CASE op \in {"BLT", "BGE"}
  <2>1. /\ op = "BLT" => (taken(op, a, b, w) <=> sa < sb)
        /\ op = "BGE" => (taken(op, a, b, w) <=> sa >= sb)
    BY <1>7 DEF taken
  <2> HIDE DEF sa, sb
  <2>2. op = "BLT" => (v = 1 <=> sa < sb)  BY <1>6, <2>1
  <2>3. op = "BGE" => (v = 1 <=> ~ (sa < sb))  BY <1>3, <1>6, <2>1
  <2> QED  BY <1>5, <1>7, <2>2, <2>3 DEF Ordered, v
<1>8. CASE op \in {"BLTU", "BGEU"}
  <2>1. op = "BLTU" => (v = 1 <=> a < b)  BY <1>6, <1>8 DEF taken
  <2>2. op = "BGEU" => (v = 1 <=> ~ (a < b))  BY <1>2, <1>6, <1>8 DEF taken
  <2> QED  BY <1>5, <1>8, <2>1, <2>2 DEF Ordered, v
<1>9. CASE op \in {"BEQ", "BNE"}
  <2>1. op = "BEQ" => (v = 1 <=> ~ (a < b) /\ ~ (b < a))  BY <1>2, <1>6, <1>9 DEF taken
  <2>2. op = "BNE" => (v = 1 <=> a < b \/ b < a)  BY <1>2, <1>6, <1>9 DEF taken
  <2> QED  BY <1>5, <1>9, <2>1, <2>2 DEF Ordered, v
<1> QED  BY <1>7, <1>8, <1>9 DEF BranchOps

LEMMA AmoOrdered ==
    ASSUME NEW w \in Widths, NEW a \in Int, NEW b \in Int, NEW op \in AmoOps
    PROVE  Ordered(op, a, b, amo(op, a, b, w), w)
<1> DEFINE x == sext(a, w)
           v == amo(op, a, b, w)
           less == Below(op, x, b, w)
<1>1. x \in Int /\ trunc(x, w) = trunc(a, w) /\ Signed(x, w) = Signed(a, w)  BY SextKeeps
<1>2. v = trunc(AmoValue(op, x, b, w), w)  BY DEF amo
<1>3. less <=> IF op \in {"AMOMIN", "AMOMAX"} THEN Signed(a, w) < Signed(b, w)
               ELSE trunc(a, w) < trunc(b, w)
  BY <1>1 DEF Below
<1> HIDE DEF x, v, less
<1>4. CASE op \in {"AMOMIN", "AMOMINU"}
  <2>1. AmoValue(op, x, b, w) = IF less THEN x ELSE b  BY <1>4 DEF AmoValue, less
  <2>2. v = trunc(IF less THEN a ELSE b, w)  BY <1>1, <1>2, <2>1
  <2> QED  BY <1>3, <1>4, <2>2, SetIfLess DEF Ordered, v
<1>5. CASE op \in {"AMOMAX", "AMOMAXU"}
  <2>1. AmoValue(op, x, b, w) = IF less THEN b ELSE x  BY <1>5 DEF AmoValue, less
  <2>2. v = trunc(IF less THEN b ELSE a, w)  BY <1>1, <1>2, <2>1
  <2> QED  BY <1>3, <1>5, <2>2, SetIfLess DEF Ordered, v
<1>6. CASE op \notin {"AMOMIN", "AMOMINU", "AMOMAX", "AMOMAXU"}
  BY <1>6 DEF Ordered, AmoOps
<1> QED  BY <1>4, <1>5, <1>6

-----------------------------------------------------------------------------
(* The instructions that compute these *)

LEMMA DividesIs ==
    DivisionAndHalves <=>
        (last.inst.kind = "OP" =>
            Divides(last.inst.op, last.a, last.b, last.v, Width(last.inst)))
BY DEF DivisionAndHalves, Divides

LEMMA OrderedIs ==
    OrdersAgree <=>
        ("op" \in DOMAIN last.inst =>
            Ordered(last.inst.op, last.a, last.b, last.v,
                    IF last.inst.kind = "AMO" THEN Width(last.inst) ELSE xb))
BY DEF OrdersAgree, Ordered, Newest

\* A step leaves its own instruction in the trace, or none if it trapped; an
\* untraced guest's leaves what was there.
LEMMA ExecuteTraces ==
    ASSUME NEW i, execute(i)
    PROVE  last' = [inst |-> NoInst] \/ IF G.traced THEN last'.inst = i ELSE last' = last
<1> DEFINE Goal == last' = [inst |-> NoInst] \/ IF G.traced THEN last'.inst = i ELSE last' = last
<1> SUFFICES Goal  OBVIOUS
<1>0. ASSUME NEW a, NEW b, NEW c, NEW v, NEW flags, Trace(i, a, b, c, v, flags) PROVE Goal
  BY <1>0 DEF Trace
<1>1. Trapped => Goal  BY DEF Trapped
<1> HIDE DEF Goal
<1>2. ASSUME NEW a, NEW b, NEW v, IntegerResult(i, a, b, v) PROVE Goal
  BY <1>0, <1>2 DEF IntegerResult
<1>3. ASSUME NEW a, NEW b, NEW c, NEW r, FpResult(i, a, b, c, r) PROVE Goal
  BY <1>0, <1>3 DEF FpResult
<1>4. ASSUME NEW a, NEW b, NEW v, NEW r, FpToInteger(i, a, b, v, r) PROVE Goal
  BY <1>0, <1>4 DEF FpToInteger
<1>5. ASSUME NEW a, NEW b, NEW v, FpMove(i, a, b, v) PROVE Goal
  BY <1>0, <1>5 DEF FpMove
<1>6. CASE Op(i)  BY <1>1, <1>2, <1>6 DEF Op, Illegal
<1>7. CASE OpImm(i)  BY <1>1, <1>2, <1>7 DEF OpImm, Illegal
<1>8. CASE Branch(i) \/ AmoOp(i)  BY <1>0, <1>1, <1>8 DEF Branch, AmoOp, Illegal
<1>9. CASE OpFp(i)
  BY <1>1, <1>2, <1>3, <1>4, <1>5, <1>9 DEF OpFp, execute_op_fp, Illegal
<1>10. CASE Fused(i)  BY <1>1, <1>3, <1>10 DEF Fused, Illegal
<1>11. CASE LoadFp(i)  BY <1>1, <1>5, <1>11 DEF LoadFp, Illegal
<1>12. CASE FpCsr(i)  BY <1>0, <1>1, <1>12 DEF FpCsr, Illegal
<1>13. CASE CsrInstret(i)  BY <1>0, <1>1, <1>13 DEF CsrInstret, InstretWrite, Illegal
<1> QED
  BY <1>6, <1>7, <1>8, <1>9, <1>10, <1>11, <1>12, <1>13 DEF execute

\* The facts of the hart a step computes with.
LEMMA HartFacts ==
    ASSUME TypeOK, NEW i \in G.insts
    PROVE  /\ xb \in Widths /\ Width(i) \in Widths
           /\ \A r \in 1 .. 2 : regs[r] \in 0 .. 2^xb - 1 /\ regs[r] \in Int
           /\ i.kind \in {"OP", "BRANCH"} => i.rs1 \in 1 .. 2 /\ i.rs2 \in 1 .. 2
           /\ i.kind = "AMO" => i.rs2 \in 1 .. 2 /\ i.old \in Int
           /\ i.kind = "BRANCH" => i.op \in BranchOps
           /\ "op" \in DOMAIN i /\ i.op \in BranchOps \cup AmoOps => i.kind \in {"BRANCH", "AMO"}
<1>1. guest \in DOMAIN Guests  BY DEF TypeOK
<1>2. xb \in Widths  BY <1>1, CounterAssumption DEF xb, G, Widths
<1>3. Width(i) \in Widths  BY <1>2 DEF Width, Widths
<1>4. 2^xb \in Nat  BY <1>2, WidthPowers
<1>5. \A r \in 1 .. 2 : regs[r] \in 0 .. 2^xb - 1 /\ regs[r] \in Int  BY <1>4 DEF TypeOK
<1>6. /\ i.kind \in {"OP", "BRANCH"} => i.rs1 \in 1 .. 2 /\ i.rs2 \in 1 .. 2
      /\ i.kind = "AMO" => i.rs2 \in 1 .. 2 /\ i.old \in Nat
      /\ i.kind = "BRANCH" => i.op \in BranchOps
      /\ "op" \in DOMAIN i /\ i.op \in BranchOps \cup AmoOps => i.kind \in {"BRANCH", "AMO"}
  BY <1>1, DecodeAssumption DEF G
<1> QED  BY <1>2, <1>3, <1>5, <1>6

LEMMA StepDivides ==
    ASSUME TypeOK, DivisionAndHalves, guest' = guest, NEW i \in G.insts, execute(i)
    PROVE  DivisionAndHalves'
<1> DEFINE Goal == last'.inst.kind = "OP" =>
                     Divides(last'.inst.op, last'.a, last'.b, last'.v, Width(last'.inst))
<1>1. xb' = xb  BY DEF xb, G
<1>2. SUFFICES Goal
  <2>1. Width(last.inst)' = Width(last'.inst)  BY <1>1 DEF Width
  <2> QED  BY <2>1 DEF DivisionAndHalves, Divides
<1>3. CASE last' = last  BY <1>3, DividesIs
<1>4. CASE last' = [inst |-> NoInst]  BY <1>4 DEF NoInst
<1>5. CASE last'.inst = i /\ last' # last
  <2>1. CASE i.kind # "OP"  BY <1>5, <2>1
  <2>2. CASE i.kind = "OP"
    <3>1. Op(i)  BY <2>2 DEF execute
    <3>2. CASE Trapped  BY <1>4, <3>2 DEF Trapped
    <3>3. ASSUME i.op \in MulDivOps,
                 IntegerResult(i, regs[i.rs1], regs[i.rs2],
                               muldiv(i.op, regs[i.rs1], regs[i.rs2], Width(i)))
          PROVE  Goal
      <4> DEFINE a == regs[i.rs1]
                 b == regs[i.rs2]
                 v == muldiv(i.op, a, b, Width(i))
      <4>1. last'.inst = i /\ last'.a = a /\ last'.b = b /\ last'.v = v
        BY <1>5, <3>3 DEF IntegerResult, Trace
      <4>2. a \in Int /\ b \in Int /\ Width(i) \in Widths  BY <2>2, HartFacts
      <4> HIDE DEF a, b
      <4>3. Divides(i.op, a, b, v, Width(i))
        <5>1. CASE i.op \in {"MULH", "MULHSU", "MULHU"}  BY <4>2, <5>1, HighHalves
        <5>2. CASE i.op \in {"DIVU", "REMU"}  BY <4>2, <5>2, UnsignedDivision
        <5>3. CASE i.op \in {"DIV", "REM"}  BY <4>2, <5>3, SignedDivision
        <5>4. CASE i.op = "MUL"  BY <5>4 DEF Divides
        <5> QED  BY <3>3, <5>1, <5>2, <5>3, <5>4 DEF MulDivOps
      <4> QED  BY <4>1, <4>3
    <3>4. CASE i.op \in AluOps
      <4>1. \A a, b, v, w : Divides(i.op, a, b, v, w)  BY <3>4 DEF AluOps, Divides
      <4> QED  BY <1>5, <4>1
    <3> QED  BY <3>1, <3>2, <3>3, <3>4 DEF Op, Illegal
  <2> QED  BY <2>1, <2>2
<1> QED  BY <1>3, <1>4, <1>5, ExecuteTraces

LEMMA StepOrdered ==
    ASSUME TypeOK, OrdersAgree, guest' = guest, NEW i \in G.insts, execute(i)
    PROVE  OrdersAgree'
<1> DEFINE Goal == "op" \in DOMAIN last'.inst =>
                     Ordered(last'.inst.op, last'.a, last'.b, last'.v,
                             IF last'.inst.kind = "AMO" THEN Width(last'.inst) ELSE xb)
<1>1. xb' = xb  BY DEF xb, G
<1>2. SUFFICES Goal
  <2>1. Width(last.inst)' = Width(last'.inst)  BY <1>1 DEF Width
  <2> QED  BY <1>1, <2>1 DEF OrdersAgree, Ordered, Newest
<1>3. CASE last' = last  BY <1>3, OrderedIs
<1>4. CASE last' = [inst |-> NoInst]
  <2>1. last'.inst = [kind |-> "none"]  BY <1>4 DEF NoInst
  <2>2. "op" \notin DOMAIN [kind |-> "none"]  OBVIOUS
  <2> QED  BY <2>1, <2>2
<1>5. CASE last'.inst = i /\ last' # last
  <2>1. CASE i.op \notin BranchOps \cup AmoOps
    <3>1. \A a, b, v, w : Ordered(i.op, a, b, v, w)
      BY <2>1 DEF Ordered, BranchOps, AmoOps
    <3> QED  BY <1>5, <3>1
  <2>2. CASE i.kind = "BRANCH"
    <3> DEFINE a == regs[i.rs1]
               b == regs[i.rs2]
               v == IF taken(i.op, a, b, xb) THEN 1 ELSE 0
    <3>1. last'.inst = i /\ last'.a = a /\ last'.b = b /\ last'.v = v
      BY <1>5, <2>2 DEF execute, Branch, Trace
    <3>2. a \in 0 .. 2^xb - 1 /\ b \in 0 .. 2^xb - 1 /\ xb \in Widths /\ i.op \in BranchOps
      BY <2>2, HartFacts
    <3> HIDE DEF a, b
    <3>3. Ordered(i.op, a, b, v, xb)  BY <3>2, BranchOrdered
    <3> QED  BY <2>2, <3>1, <3>3
  <2>3. CASE i.kind = "AMO"
    <3>1. AmoOp(i)  BY <2>3 DEF execute
    <3>2. CASE Trapped  BY <1>4, <3>2 DEF Trapped
    <3>3. CASE i.op \in AmoOps /\ Trace(i, i.old, regs[i.rs2], 0,
                                        amo(i.op, i.old, regs[i.rs2], Width(i)), {})
      <4> DEFINE a == i.old
                 b == regs[i.rs2]
                 v == amo(i.op, a, b, Width(i))
      <4>1. last'.inst = i /\ last'.a = a /\ last'.b = b /\ last'.v = v
        BY <1>5, <3>3 DEF Trace
      <4>2. a \in Int /\ b \in Int /\ Width(i) \in Widths  BY <2>3, HartFacts
      <4> HIDE DEF a, b
      <4>3. Ordered(i.op, a, b, v, Width(i))  BY <3>3, <4>2, AmoOrdered
      <4> QED  BY <2>3, <4>1, <4>3
    <3> QED  BY <3>1, <3>2, <3>3 DEF AmoOp, Illegal
  <2>4. CASE "op" \notin DOMAIN i  BY <1>5, <2>4
  <2> QED  BY <2>1, <2>2, <2>3, <2>4, HartFacts
<1> QED  BY <1>3, <1>4, <1>5, ExecuteTraces

\* A step that is no instruction leaves the trace, or puts a fetch there.
LEMMA NextTraces ==
    ASSUME TypeOK, DivisionAndHalves, OrdersAgree, [Next]_vars
    PROVE  DivisionAndHalves' /\ OrdersAgree'
<1>1. guest' = guest  BY DEF Next, Fetch, Step, Switch, FirstUse, vars
<1>2. xb' = xb  BY <1>1 DEF xb, G
<1>3. CASE Step  BY <1>1, <1>3, StepDivides, StepOrdered DEF Step
<1>4. CASE UNCHANGED last
  <2>1. Width(last.inst)' = Width(last.inst)  BY <1>2, <1>4 DEF Width
  <2>2. DivisionAndHalves'  BY <1>4, <2>1, DividesIs DEF DivisionAndHalves, Divides
  <2>3. OrdersAgree'  BY <1>2, <1>4, <2>1, OrderedIs DEF OrdersAgree, Ordered, Newest
  <2> QED  BY <2>2, <2>3
<1>5. CASE Fetch
  <2>1. PICK i \in G.halfwords :
          last' = [inst |-> [kind |-> "C", half |-> i], word |-> decompress(i, xb = Wide)]
    BY <1>5 DEF Fetch
  <2>2. last'.inst.kind = "C" /\ "op" \notin DOMAIN last'.inst  BY <2>1
  <2> QED  BY <2>2 DEF DivisionAndHalves, OrdersAgree, Newest
<1> QED  BY <1>3, <1>4, <1>5 DEF Next, Switch, FirstUse, vars

LEMMA InitTraces == Init => DivisionAndHalves /\ OrdersAgree
<1> SUFFICES ASSUME Init PROVE DivisionAndHalves /\ OrdersAgree  OBVIOUS
<1>1. last.inst = [kind |-> "none"]  BY DEF Init, NoInst
<1>2. last.inst.kind = "none" /\ "op" \notin DOMAIN last.inst  BY <1>1
<1> QED  BY <1>2 DEF DivisionAndHalves, OrdersAgree, Newest

-----------------------------------------------------------------------------
(* The bits of a register *)

\* Every nonempty set of naturals has a least element.
LEMMA LeastNatural ==
    ASSUME NEW T \in SUBSET Nat, T # {}
    PROVE  \E x \in T : \A y \in T : x <= y
<1> DEFINE R == OpToRel(<, Nat)
<1>1. PICK x \in T : \A y \in T : ~ (<<y, x>> \in R)
  BY WFMin, NatLessThanWellFounded
<1>2. ASSUME NEW y \in T PROVE x <= y
  <2>1. ~ (y < x)  BY <1>1 DEF OpToRel
  <2> QED  BY <2>1
<1> QED  BY <1>2

\* Counting from 0 to n stays in a set that each count keeps.
LEMMA Counting ==
    ASSUME NEW n \in Nat, NEW T, 0 \in T, \A k \in 0 .. n - 1 : k \in T => k + 1 \in T
    PROVE  \A k \in 0 .. n : k \in T
<1> DEFINE wrong == {k \in 0 .. n : k \notin T}
<1>1. SUFFICES ASSUME wrong # {} PROVE FALSE  OBVIOUS
<1>2. wrong \in SUBSET Nat  OBVIOUS
<1>3. PICK k \in wrong : \A j \in wrong : k <= j  BY <1>1, <1>2, LeastNatural
<1>4. k \in 0 .. n /\ k \notin T /\ k # 0  BY <1>3
<1>5. k - 1 \in 0 .. n - 1 /\ k - 1 \in 0 .. n /\ ~ (k <= k - 1) /\ (k - 1) + 1 = k  BY <1>4
<1>6. k - 1 \in T  BY <1>3, <1>5
<1> QED  BY <1>4, <1>5, <1>6

\* The partial sums of a number whose bits are ks.
Term(ks, k) == IF k \in ks THEN 2^k ELSE 0
Sums(g, ks) ==
    /\ g \in [0 .. Wide -> Nat] /\ g[0] = 0
    /\ \A k \in 0 .. Wide - 1 : g[k + 1] = g[k] + Term(ks, k)

LEMMA TermType == ASSUME NEW ks, NEW k \in 0 .. Wide PROVE Term(ks, k) \in Nat
<1> DEFINE P == 2^k
<1>1. P \in Nat  BY PowerType
<1> HIDE DEF P
<1>2. Term(ks, k) = IF k \in ks THEN P ELSE 0  BY DEF Term, P
<1> QED  BY <1>1, <1>2

LEMMA NumberIs ==
    ASSUME NEW ks PROVE \E g : Sums(g, ks) /\ Number(ks) = g[Wide]
<1> DEFINE Body(g, k) == IF k = 0 THEN 0 ELSE g[k - 1] + Term(ks, k - 1)
           IsSum(g, n) == g = [k \in 0 .. n |-> Body(g, k)]
           T == {n \in 0 .. Wide : \E g : IsSum(g, n)}
           sum == CHOOSE g : IsSum(g, Wide)
<1>0. Wide \in Nat  BY AluAssumption
<1>1. Number(ks) = sum[Wide]  BY DEF Number, Term
<1>2. 0 \in T
  <2> DEFINE g == [k \in 0 .. 0 |-> 0]
  <2>1. \A k \in 0 .. 0 : Body(g, k) = 0  OBVIOUS
  <2>2. IsSum(g, 0)  BY <2>1
  <2> HIDE DEF g, IsSum
  <2>3. 0 \in 0 .. Wide  BY <1>0
  <2> QED  BY <2>2, <2>3
<1>3. ASSUME NEW n \in 0 .. Wide - 1, n \in T PROVE n + 1 \in T
  <2>1. PICK g : IsSum(g, n)  BY <1>3
  <2> DEFINE h == [k \in 0 .. n + 1 |-> IF k = n + 1 THEN g[n] + Term(ks, n) ELSE g[k]]
  <2>2. n \in Nat /\ n + 1 \in 0 .. Wide  BY <1>0
  <2>3. ASSUME NEW k \in 0 .. n + 1 PROVE h[k] = Body(h, k)
    <3>1. CASE k = n + 1
      <4>1. k # 0 /\ k - 1 = n /\ n \in 0 .. n + 1 /\ n # n + 1  BY <2>2, <3>1
      <4>2. h[k] = g[n] + Term(ks, n) /\ h[k - 1] = g[n]  BY <2>3, <3>1, <4>1
      <4> HIDE DEF h
      <4> QED  BY <4>1, <4>2
    <3>2. CASE k # n + 1
      <4>1. k \in 0 .. n  BY <2>2, <3>2
      <4>2. g[k] = Body(g, k)
        <5> HIDE DEF Body
        <5> QED  BY <2>1, <4>1
      <4>3. h[k] = g[k]  BY <3>2
      <4>4. k # 0 => k - 1 \in 0 .. n + 1 /\ k - 1 # n + 1  BY <2>2, <4>1
      <4>5. k # 0 => h[k - 1] = g[k - 1]  BY <4>4
      <4> HIDE DEF h
      <4> QED  BY <4>2, <4>3, <4>5
    <3> QED  BY <3>1, <3>2
  <2>4. h = [k \in 0 .. n + 1 |-> h[k]]  OBVIOUS
  <2> HIDE DEF h, Body
  <2>5. IsSum(h, n + 1)  BY <2>3, <2>4
  <2> QED  BY <2>2, <2>5
<1> HIDE DEF IsSum
<1>4. \A n \in 0 .. Wide : n \in T
  <2> HIDE DEF T
  <2> QED  BY <1>0, <1>2, <1>3, Counting
<1>5. IsSum(sum, Wide)  BY <1>0, <1>4
<1> HIDE DEF sum, T
<1>6. /\ sum[0] = 0 /\ DOMAIN sum = 0 .. Wide /\ sum = [k \in 0 .. Wide |-> sum[k]]
      /\ \A k \in 0 .. Wide - 1 : sum[k + 1] = sum[k] + Term(ks, k)
  <2>1. \A k \in 0 .. Wide : sum[k] = Body(sum, k)
    <3> HIDE DEF Body
    <3> QED  BY <1>5 DEF IsSum
  <2>2. DOMAIN sum = 0 .. Wide /\ sum = [k \in 0 .. Wide |-> sum[k]]
    <3> HIDE DEF Body
    <3> QED  BY <1>5 DEF IsSum
  <2>3. ASSUME NEW k \in 0 .. Wide - 1 PROVE sum[k + 1] = sum[k] + Term(ks, k)
    <3>1. k + 1 \in 0 .. Wide /\ k + 1 # 0 /\ (k + 1) - 1 = k  BY <1>0
    <3> QED  BY <2>1, <3>1
  <2>4. sum[0] = 0  BY <1>0, <2>1
  <2> HIDE DEF Body
  <2> QED  BY <2>2, <2>3, <2>4
<1>7. \A k \in 0 .. Wide : sum[k] \in Nat
  <2> DEFINE Typed == {k \in 0 .. Wide : sum[k] \in Nat}
  <2>1. 0 \in Typed  BY <1>0, <1>6
  <2>2. ASSUME NEW k \in 0 .. Wide - 1, k \in Typed PROVE k + 1 \in Typed
    <3>1. k \in 0 .. Wide /\ k + 1 \in 0 .. Wide  BY <1>0
    <3>2. Term(ks, k) \in Nat  BY <3>1, TermType
    <3>3. sum[k + 1] = sum[k] + Term(ks, k) /\ sum[k] \in Nat  BY <1>6, <2>2
    <3>4. sum[k + 1] \in Nat  BY <3>2, <3>3
    <3> QED  BY <3>1, <3>4
  <2> HIDE DEF Typed
  <2>3. \A k \in 0 .. Wide : k \in Typed  BY <1>0, <2>1, <2>2, Counting
  <2> QED  BY <2>3 DEF Typed
<1> QED  BY <1>1, <1>6, <1>7 DEF Sums

\* Numbers with the same bits below Narrow are equal below Narrow.
LEMMA SumsAlike ==
    ASSUME NEW ks, NEW ls, NEW g, NEW h, Sums(g, ks), Sums(h, ls),
           \A k \in 0 .. Narrow - 1 : k \in ks <=> k \in ls
    PROVE  g[Narrow] = h[Narrow]
<1> DEFINE T == {k \in 0 .. Narrow : g[k] = h[k]}
<1>0. Narrow \in Nat /\ Wide \in Nat /\ Narrow < Wide  BY AluAssumption
<1>1. 0 \in T  BY <1>0 DEF Sums
<1>2. ASSUME NEW k \in 0 .. Narrow - 1, k \in T PROVE k + 1 \in T
  <2>1. k \in 0 .. Wide - 1 /\ k + 1 \in 0 .. Narrow  BY <1>0
  <2>2. g[k + 1] = g[k] + Term(ks, k) /\ h[k + 1] = h[k] + Term(ls, k)  BY <2>1 DEF Sums
  <2>3. Term(ks, k) = Term(ls, k)  BY <1>2 DEF Term
  <2> QED  BY <1>2, <2>1, <2>2, <2>3
<1> HIDE DEF T
<1>3. \A k \in 0 .. Narrow : k \in T  BY <1>0, <1>1, <1>2, Counting
<1> QED  BY <1>0, <1>3 DEF T

\* What the bits from Narrow on add is a multiple of 2^Narrow.
LEMMA SumsAbove ==
    ASSUME NEW ks, NEW g, Sums(g, ks)
    PROVE  \E q \in Nat : g[Wide] = g[Narrow] + 2^Narrow * q
<1> DEFINE M == 2^Narrow
           n == Wide - Narrow
           T == {d \in 0 .. n : \E q \in Nat : g[Narrow + d] = g[Narrow] + M * q}
<1>0. Narrow \in Nat /\ Wide \in Nat /\ n \in Nat /\ Narrow + n = Wide /\ Narrow \in 0 .. Wide
  BY AluAssumption
<1>1. M \in Nat \ {0}  BY Powers
<1>2. \A k \in 0 .. Wide : g[k] \in Nat  BY DEF Sums
<1>3. 0 \in T
  <2> HIDE DEF M, n
  <2>1. g[Narrow + 0] = g[Narrow] + M * 0  BY <1>0, <1>1, <1>2
  <2>2. \E q \in Nat : g[Narrow + 0] = g[Narrow] + M * q  BY <2>1
  <2> QED  BY <1>0, <2>2
<1>4. ASSUME NEW d \in 0 .. n - 1, d \in T PROVE d + 1 \in T
  <2> DEFINE P == 2^d
             x == g[Narrow + d]
             t == Term(ks, Narrow + d)
  <2>1. Narrow + d \in 0 .. Wide - 1 /\ Narrow + d \in 0 .. Wide /\ d \in 0 .. Wide
        /\ d + 1 \in 0 .. n /\ (Narrow + d) + 1 = Narrow + (d + 1)
    BY <1>0
  <2>2. g[Narrow + (d + 1)] = x + t  BY <2>1 DEF Sums
  <2>3. 2^(Narrow + d) = M * P /\ P \in Nat  BY <1>0, <2>1, PowerSum, PowerType
  <2>4. t = M * P \/ t = M * 0
    <3>1. t = 2^(Narrow + d) \/ t = 0  BY DEF Term
    <3> HIDE DEF t, M, P
    <3> QED  BY <1>1, <2>3, <3>1
  <2>5. PICK q \in Nat : x = g[Narrow] + M * q  BY <1>4
  <2>6. g[Narrow] \in Nat  BY <1>0, <1>2
  <2> DEFINE y == g[Narrow + (d + 1)]
             z == g[Narrow]
  <2>7. \E r \in Nat : y = z + M * r
    <3>0. y = x + t /\ x = z + M * q /\ z \in Nat  BY <2>2, <2>5, <2>6
    <3> HIDE DEF x, y, z, t, M, P, n
    <3>1. CASE t = M * P
      <4>1. M * (q + P) = M * q + M * P /\ q + P \in Nat  BY <1>1, <2>3
      <4>2. M * q \in Nat /\ M * P \in Nat  BY <1>1, <2>3
      <4>3. y = z + M * (q + P)  BY <3>0, <3>1, <4>1, <4>2
      <4> QED  BY <4>1, <4>3
    <3>2. CASE t = M * 0
      <4>1. y = z + M * q  BY <1>1, <3>0, <3>2
      <4> QED  BY <4>1
    <3> QED  BY <2>4, <3>1, <3>2
  <2> QED  BY <2>1, <2>7
<1>5. \A d \in 0 .. n : d \in T
  <2> HIDE DEF T, n
  <2> QED  BY <1>0, <1>3, <1>4, Counting
<1>6. n \in T
  <2> HIDE DEF T, n
  <2> QED  BY <1>0, <1>5
<1> QED  BY <1>0, <1>6

LEMMA NumberAlike ==
    ASSUME NEW ks, NEW ls, \A k \in 0 .. Narrow - 1 : k \in ks <=> k \in ls
    PROVE  /\ Number(ks) \in Int /\ Number(ls) \in Int
           /\ trunc(Number(ks), Narrow) = trunc(Number(ls), Narrow)
<1> DEFINE M == 2^Narrow
<1>0. Narrow \in 0 .. Wide /\ Wide \in 0 .. Wide /\ Narrow \in Widths
  BY AluAssumption DEF Widths
<1>1. PICK g : Sums(g, ks) /\ Number(ks) = g[Wide]  BY NumberIs
<1>2. PICK h : Sums(h, ls) /\ Number(ls) = h[Wide]  BY NumberIs
<1>3. g[Narrow] = h[Narrow]  BY <1>1, <1>2, SumsAlike
<1>4. PICK q \in Nat : g[Wide] = g[Narrow] + 2^Narrow * q  BY <1>1, SumsAbove
<1>5. PICK r \in Nat : h[Wide] = h[Narrow] + 2^Narrow * r  BY <1>2, SumsAbove
<1>6. g[Wide] \in Int /\ h[Wide] \in Int /\ g[Narrow] \in Int /\ h[Narrow] \in Int
  BY <1>0, <1>1, <1>2 DEF Sums
<1>7. trunc(g[Wide], Narrow) = trunc(g[Narrow], Narrow)
  <2>1. q \in Int  OBVIOUS
  <2> QED  BY <1>0, <1>4, <1>6, <2>1, TruncSame, Zenon
<1>8. trunc(h[Wide], Narrow) = trunc(h[Narrow], Narrow)
  <2>1. r \in Int  OBVIOUS
  <2> QED  BY <1>0, <1>5, <1>6, <2>1, TruncSame, Zenon
<1> QED  BY <1>1, <1>2, <1>3, <1>6, <1>7, <1>8

LEMMA NumberGrows ==
    ASSUME NEW ls, NEW ks \in SUBSET ls PROVE Number(ks) \in Nat /\ Number(ks) <= Number(ls)
<1>0. Wide \in Nat  BY AluAssumption
<1>1. PICK g : Sums(g, ks) /\ Number(ks) = g[Wide]  BY NumberIs
<1>2. PICK h : Sums(h, ls) /\ Number(ls) = h[Wide]  BY NumberIs
<1> DEFINE T == {k \in 0 .. Wide : g[k] <= h[k]}
<1>3. 0 \in T  BY <1>0, <1>1, <1>2 DEF Sums
<1>4. ASSUME NEW k \in 0 .. Wide - 1, k \in T PROVE k + 1 \in T
  <2> DEFINE s == Term(ks, k)
             t == Term(ls, k)
  <2>1. k \in 0 .. Wide /\ k + 1 \in 0 .. Wide  BY <1>0
  <2>2. s \in Nat /\ t \in Nat  BY <2>1, TermType
  <2>3. s = t \/ s = 0  BY DEF Term
  <2>4. g[k + 1] = g[k] + s /\ h[k + 1] = h[k] + t  BY <1>1, <1>2 DEF Sums
  <2>5. g[k] \in Nat /\ h[k] \in Nat /\ g[k] <= h[k]  BY <1>1, <1>2, <1>4, <2>1 DEF Sums
  <2> HIDE DEF s, t
  <2>6. g[k + 1] <= h[k + 1]  BY <2>2, <2>3, <2>4, <2>5
  <2> QED  BY <2>1, <2>6
<1>5. \A k \in 0 .. Wide : k \in T
  <2> HIDE DEF T
  <2> QED  BY <1>0, <1>3, <1>4, Counting
<1>6. g[Wide] <= h[Wide] /\ g[Wide] \in Nat  BY <1>0, <1>1, <1>5 DEF Sums
<1> QED  BY <1>1, <1>2, <1>6

\* A number below 2^Wide is the number of its bits.
LEMMA NumberOfBits ==
    ASSUME NEW n \in Nat, n < 2^Wide PROVE Number(Bits(n)) = n
<1>0. Wide \in Nat  BY AluAssumption
<1>1. PICK g : Sums(g, Bits(n)) /\ Number(Bits(n)) = g[Wide]  BY NumberIs
<1> DEFINE T == {k \in 0 .. Wide : g[k] = n % 2^k}
<1>2. 0 \in T
  <2>1. n % 1 = 0  OBVIOUS
  <2> QED  BY <1>0, <1>1, <2>1, PowerAssumption DEF Sums
<1>3. ASSUME NEW k \in 0 .. Wide - 1, k \in T PROVE k + 1 \in T
  <2> DEFINE P == 2^k
             q == n \div P
             t == Term(Bits(n), k)
             R == 2^(k + 1)
  <2>1. k \in 0 .. Wide /\ k < Wide  BY <1>0
  <2>2. P \in Nat \ {0} /\ R = 2 * P /\ k + 1 \in 0 .. Wide  BY <2>1, PowerType, PowerNext
  <2>3. t = IF q % 2 = 1 THEN P ELSE 0  BY DEF Term, Bits
  <2>4. g[k + 1] = g[k] + t /\ g[k] = n % P  BY <1>1, <1>3 DEF Sums
  <2>5. n % R = (n % P) + t
    <3>0. SUFFICES n % (2 * P) = (n % P) + t
      <4> HIDE DEF P, R, q, t
      <4> QED  BY <2>2
    <3> DEFINE r == n % P
    <3>1. q \in Nat /\ r \in 0 .. P - 1 /\ n = P * q + r
      <4> HIDE DEF P
      <4> QED  BY <2>2
    <3> HIDE DEF P, q, r, t
    <3>2. CASE q % 2 = 1
      <4>1. PICK m \in Nat : q = 2 * m + 1  BY <3>1, <3>2
      <4>2. n = (2 * P) * m + (P + r)  BY <2>2, <3>1, <4>1
      <4>3. P + r \in 0 .. 2 * P - 1  BY <2>2, <3>1
      <4>4. n % (2 * P) = P + r
        <5> DEFINE Q == 2 * P
                   s == P + r
        <5>1. Q \in Nat \ {0} /\ s \in 0 .. Q - 1 /\ n = Q * m + s  BY <2>2, <4>2, <4>3
        <5> HIDE DEF Q, s
        <5>2. n % Q = s  BY <5>1
        <5> QED  BY <5>2 DEF Q, s
      <4> QED  BY <2>2, <2>3, <3>1, <3>2, <4>4 DEF r
    <3>3. CASE q % 2 # 1
      <4>1. PICK m \in Nat : q = 2 * m  BY <3>1, <3>3
      <4>2. n = (2 * P) * m + r  BY <2>2, <3>1, <4>1
      <4>3. r \in 0 .. 2 * P - 1  BY <2>2, <3>1
      <4>4. n % (2 * P) = r  BY <2>2, <4>2, <4>3
      <4> QED  BY <2>2, <2>3, <3>1, <3>3, <4>4 DEF r
    <3> QED  BY <3>2, <3>3
  <2> QED  BY <2>2, <2>4, <2>5
<1>4. \A k \in 0 .. Wide : k \in T
  <2> HIDE DEF T
  <2> QED  BY <1>0, <1>2, <1>3, Counting
<1>5. g[Wide] = n % 2^Wide  BY <1>0, <1>4
<1> DEFINE W == 2^Wide
<1>6. W \in Nat \ {0} /\ n < W /\ g[Wide] = n % W  BY <1>5, Powers
<1> HIDE DEF W
<1>7. n % W = n  BY <1>6
<1> QED  BY <1>1, <1>6, <1>7

LEMMA PowerExceeds == \A k \in 0 .. Wide : k < 2^k
<1> DEFINE T == {k \in 0 .. Wide : k < 2^k}
<1>0. Wide \in Nat  BY AluAssumption
<1>1. 0 \in T  BY <1>0, PowerAssumption
<1>2. ASSUME NEW k \in 0 .. Wide - 1, k \in T PROVE k + 1 \in T
  <2> DEFINE P == 2^k
             R == 2^(k + 1)
  <2>1. k \in 0 .. Wide /\ k < Wide  BY <1>0
  <2>2. P \in Nat /\ R = 2 * P /\ k + 1 \in 0 .. Wide /\ k < P
    BY <1>2, <2>1, PowerType, PowerNext
  <2>3. k + 1 < R
    <3> HIDE DEF P, R
    <3> QED  BY <2>1, <2>2
  <2> QED  BY <2>2, <2>3
<1> HIDE DEF T
<1>3. \A k \in 0 .. Wide : k \in T  BY <1>0, <1>1, <1>2, Counting
<1> QED  BY <1>3 DEF T

\* Truncating keeps the bits below Narrow and clears the others.
LEMMA BitsBelow ==
    ASSUME NEW a \in Nat, NEW k \in 0 .. Narrow - 1
    PROVE  k \in Bits(a) <=> k \in Bits(trunc(a, Narrow))
<1> DEFINE M == 2^Narrow
           P == 2^k
           d == Narrow - 1 - k
           J == 2^d
           H == 2^(Narrow - 1)
           r == a % M
           q == a \div M
<1>0. /\ Narrow \in Nat /\ Wide \in Nat /\ Narrow < Wide /\ k \in 0 .. Wide /\ d \in 0 .. Wide
      /\ k \in 0 .. Wide - 1 /\ Narrow - 1 \in 0 .. Wide /\ Narrow - 1 = k + d
      /\ Narrow - 1 < Wide /\ (Narrow - 1) + 1 = Narrow
  BY AluAssumption
<1>1. P \in Nat \ {0} /\ J \in Nat \ {0} /\ H = P * J /\ M = 2 * H
  BY <1>0, PowerType, PowerSum, PowerNext
<1>2. M \in Nat \ {0}  BY Powers
<1>3. trunc(a, Narrow) = r  BY DEF trunc
<1> SUFFICES (a \div P) % 2 = 1 <=> (r \div P) % 2 = 1  BY <1>0, <1>3 DEF Bits
<1> HIDE DEF M, P, J, H
<1>4. r \in Nat /\ q \in Nat /\ a = M * q + r  BY <1>2
<1> HIDE DEF r, q
<1> DEFINE x == J * q
           y == r \div P
           z == r % P
<1>5. x \in Nat  BY <1>1, <1>4
<1>6. y \in Nat /\ z \in 0 .. P - 1 /\ r = P * y + z  BY <1>1, <1>4
<1>7. M * q = P * (2 * x)
  <2>1. M = (2 * P) * J  BY <1>1
  <2>2. M * q = ((2 * P) * J) * q  BY <2>1
  <2>3. ((2 * P) * J) * q = (2 * P) * (J * q)  BY <1>1, <1>4
  <2>4. (2 * P) * x = P * (2 * x)
    <3> HIDE DEF x
    <3> QED  BY <1>1, <1>5
  <2> QED  BY <2>2, <2>3, <2>4
<1> HIDE DEF x, y, z
<1>8. P * (2 * x + y) = P * (2 * x) + P * y  BY <1>1, <1>5, <1>6
<1>9. P * (2 * x) \in Nat /\ P * y \in Nat  BY <1>1, <1>5, <1>6
<1>10. a = P * (2 * x + y) + z  BY <1>4, <1>6, <1>7, <1>8, <1>9
<1>11. a \div P = 2 * x + y  BY <1>1, <1>5, <1>6, <1>10
<1>12. (2 * x + y) % 2 = y % 2  BY <1>5, <1>6
<1> QED  BY <1>11, <1>12 DEF y

LEMMA BitsOfLow ==
    ASSUME NEW n \in Nat, n < 2^Narrow PROVE Bits(n) \subseteq 0 .. Narrow - 1
<1>0. Bits(n) \subseteq 0 .. Wide - 1  BY DEF Bits
<1> SUFFICES ASSUME NEW k \in Bits(n), ~ (k < Narrow) PROVE FALSE
  BY <1>0, AluAssumption
<1> DEFINE M == 2^Narrow
           P == 2^k
           d == k - Narrow
           J == 2^d
<1>1. /\ k \in 0 .. Wide /\ d \in 0 .. Wide /\ Narrow \in 0 .. Wide /\ k = Narrow + d
      /\ (n \div P) % 2 = 1
  BY AluAssumption DEF Bits
<1>2. M \in Nat \ {0} /\ J \in Nat \ {0} /\ P \in Nat \ {0} /\ P = M * J /\ n < M
  BY <1>1, PowerType, PowerSum
<1> HIDE DEF M, P, J
<1>3. P >= M  BY <1>2
<1>4. n \div P = 0  BY <1>2, <1>3
<1> QED  BY <1>1, <1>4

-----------------------------------------------------------------------------
(* The narrow forms *)

LEMMA NarrowIsWidth == Narrow \in Widths /\ Wide \in Widths
BY DEF Widths

\* A narrow shift amount comes from the low bits, and is one.
LEMMA ShiftAmount ==
    ASSUME NEW b \in Nat
    PROVE  /\ and(trunc(b, Narrow), Narrow - 1) = and(b, Narrow - 1)
           /\ and(b, Narrow - 1) \in 0 .. Wide
<1> DEFINE n == Narrow - 1
           t == trunc(b, Narrow)
           M == 2^Narrow
           W == 2^Wide
<1>0. n \in Nat /\ n < Narrow /\ Narrow \in Nat /\ Narrow < Wide /\ Wide \in Nat  BY AluAssumption
<1>1. M \in Nat /\ W \in Nat /\ Narrow < M /\ Wide < W  BY <1>0, Powers, PowerExceeds
<1>2. n < 2^Narrow /\ n < 2^Wide
  <2> HIDE DEF M, W, n
  <2>1. n < M /\ n < W  BY <1>0, <1>1
  <2> QED  BY <2>1 DEF M, W
<1>3. Bits(n) \subseteq 0 .. Narrow - 1  BY <1>0, <1>2, BitsOfLow
<1>4. Number(Bits(n)) = n  BY <1>0, <1>2, NumberOfBits
<1> HIDE DEF n, t
<1>5. Bits(t) \cap Bits(n) = Bits(b) \cap Bits(n)  BY <1>3, BitsBelow DEF t
<1>6. Number(Bits(b) \cap Bits(n)) \in Nat /\ Number(Bits(b) \cap Bits(n)) <= n
  BY <1>4, NumberGrows
<1>7. and(t, n) = and(b, n) /\ and(b, n) \in Nat /\ and(b, n) <= n
  BY <1>5, <1>6 DEF and
<1> HIDE DEF M, W
<1> QED  BY <1>0, <1>7 DEF n, t

\* Extension only sees the low bits, and extending twice is extending once.
LEMMA SextLow ==
    ASSUME NEW x \in Int, NEW y \in Int, trunc(x, Narrow) = trunc(y, Narrow)
    PROVE  sext(x, Narrow) = sext(sext(y, Narrow) % 2^Narrow, Narrow)
<1> DEFINE s == sext(y, Narrow)
           t == trunc(y, Narrow)
<1>1. trunc(s, Narrow) = t  BY NarrowIsWidth, SextKeeps
<1>2. s % 2^Narrow = t  BY <1>1 DEF trunc
<1>3. trunc(t, Narrow) = t  BY NarrowIsWidth, TruncRange, TruncFits
<1> HIDE DEF s, t
<1>4. Signed(x, Narrow) = Signed(t, Narrow)  BY <1>3 DEF Signed, t
<1>5. sext(x, Narrow) = sext(t, Narrow)  BY <1>4 DEF sext
<1> QED  BY <1>2, <1>5 DEF s

LEMMA LowSums ==
    ASSUME NEW a \in Int, NEW b \in Int, NEW c \in Int
    PROVE  LET ta == trunc(a, Narrow)
               tb == trunc(b, Narrow)
           IN  /\ ta \in Int /\ tb \in Int
               /\ trunc(a + b, Narrow) = trunc(ta + tb, Narrow)
               /\ trunc(a - b, Narrow) = trunc(ta - tb, Narrow)
               /\ trunc(a * c, Narrow) = trunc(ta * c, Narrow)
<1> DEFINE M == 2^Narrow
           ta == trunc(a, Narrow)
           tb == trunc(b, Narrow)
<1>0. M \in Nat \ {0}  BY Powers
<1>1. ta \in 0 .. M - 1 /\ tb \in 0 .. M - 1  BY NarrowIsWidth, TruncRange
<1>2. PICK q \in Int : a = ta + M * q  BY NarrowIsWidth, TruncRange
<1>3. PICK r \in Int : b = tb + M * r  BY NarrowIsWidth, TruncRange
<1>4. ASSUME NEW x \in Int, NEW y \in Int, NEW z \in Int, x = y + M * z
      PROVE  trunc(x, Narrow) = trunc(y, Narrow)
  BY <1>4, NarrowIsWidth, TruncSame
<1> HIDE DEF M, ta, tb
<1>5. ta \in Int /\ tb \in Int  BY <1>0, <1>1
<1>6. M * q \in Int /\ M * r \in Int  BY <1>0
<1>7. trunc(a + b, Narrow) = trunc(ta + tb, Narrow)
  <2>1. M * (q + r) = M * q + M * r  BY <1>0
  <2>2. a + b = (ta + tb) + M * (q + r)  BY <1>2, <1>3, <1>5, <1>6, <2>1
  <2>3. a + b \in Int /\ ta + tb \in Int /\ q + r \in Int  BY <1>5
  <2> QED  BY <1>4, <2>2, <2>3, Zenon
<1>8. trunc(a - b, Narrow) = trunc(ta - tb, Narrow)
  <2>1. M * (q - r) = M * q - M * r  BY <1>0
  <2>2. a - b = (ta - tb) + M * (q - r)  BY <1>2, <1>3, <1>5, <1>6, <2>1
  <2>3. a - b \in Int /\ ta - tb \in Int /\ q - r \in Int  BY <1>5
  <2> QED  BY <1>4, <2>2, <2>3, Zenon
<1>9. trunc(a * c, Narrow) = trunc(ta * c, Narrow)
  <2>1. (M * q) * c = M * (q * c)  BY <1>0
  <2>2. (ta + M * q) * c = ta * c + (M * q) * c  BY <1>5, <1>6
  <2>3. a * c = ta * c + M * (q * c)  BY <1>2, <2>1, <2>2
  <2>4. a * c \in Int /\ ta * c \in Int /\ q * c \in Int  BY <1>5
  <2> QED  BY <1>4, <2>3, <2>4, Zenon
<1> QED  BY <1>5, <1>7, <1>8, <1>9 DEF ta, tb

LEMMA LowTwice ==
    ASSUME NEW a \in Int
    PROVE  LET ta == trunc(a, Narrow)
           IN  ta \in Nat /\ trunc(ta, Narrow) = ta /\ Signed(ta, Narrow) = Signed(a, Narrow)
<1> DEFINE M == 2^Narrow
           ta == trunc(a, Narrow)
<1>1. M \in Nat /\ ta \in 0 .. M - 1  BY NarrowIsWidth, TruncRange, Powers
<1>2. trunc(ta, Narrow) = ta  BY <1>1, NarrowIsWidth, TruncFits
<1>3. ta \in Nat
  <2> HIDE DEF M, ta
  <2> QED  BY <1>1
<1>4. Signed(ta, Narrow) = Signed(a, Narrow)  BY <1>2 DEF Signed
<1> QED  BY <1>2, <1>3, <1>4

\* The low bits of an operation's value come from the low bits of its operands.
LEMMA AluLow ==
    ASSUME NEW op \in AluOps, NEW a \in Nat, NEW b \in Nat, NEW s \in 0 .. Wide
    PROVE  LET x == AluValue(op, a, b, s, Narrow)
               y == AluValue(op, trunc(a, Narrow), trunc(b, Narrow), s, Narrow)
           IN  x \in Int /\ y \in Int /\ trunc(x, Narrow) = trunc(y, Narrow)
<1> DEFINE ta == trunc(a, Narrow)
           tb == trunc(b, Narrow)
           x == AluValue(op, a, b, s, Narrow)
           y == AluValue(op, ta, tb, s, Narrow)
           P == 2^s
           Goal == x \in Int /\ y \in Int /\ trunc(x, Narrow) = trunc(y, Narrow)
<1> SUFFICES Goal  OBVIOUS
<1>0. a \in Int /\ b \in Int  OBVIOUS
<1>1. P \in Nat \ {0}  BY PowerType
<1>2. /\ ta \in Nat /\ trunc(ta, Narrow) = ta /\ Signed(ta, Narrow) = Signed(a, Narrow)
      /\ tb \in Nat /\ trunc(tb, Narrow) = tb /\ Signed(tb, Narrow) = Signed(b, Narrow)
  BY <1>0, LowTwice
<1>3. P \in Int  BY <1>1
<1>4. /\ trunc(a + b, Narrow) = trunc(ta + tb, Narrow)
      /\ trunc(a - b, Narrow) = trunc(ta - tb, Narrow)
      /\ trunc(a * P, Narrow) = trunc(ta * P, Narrow)
  BY <1>0, <1>3, LowSums
<1>5. \A k \in 0 .. Narrow - 1 : (k \in Bits(a) <=> k \in Bits(ta)) /\ (k \in Bits(b) <=> k \in Bits(tb))
  BY BitsBelow
<1>6. Signed(a, Narrow) \in Int  BY <1>0, NarrowIsWidth, Operands
<1> HIDE DEF ta, tb, P
<1>7. CASE op = "ADD"
  <2>1. x = a + b /\ y = ta + tb  BY <1>7 DEF AluValue
  <2> QED  BY <1>0, <1>2, <1>4, <2>1
<1>8. CASE op = "SUB"
  <2>1. x = a - b /\ y = ta - tb  BY <1>8 DEF AluValue
  <2> QED  BY <1>0, <1>2, <1>4, <2>1
<1>9. CASE op = "SLL"
  <2>1. x = a * P /\ y = ta * P  BY <1>9 DEF AluValue, P
  <2>2. a * P \in Int /\ ta * P \in Int  BY <1>0, <1>2, <1>3
  <2> QED  BY <1>4, <2>1, <2>2
<1>10. CASE op \in {"SLT", "SLTU"}
  <2>1. x \in {0, 1} /\ y = x
    <3>1. CASE op = "SLT"
      <4>1. /\ x = IF Signed(a, Narrow) < Signed(b, Narrow) THEN 1 ELSE 0
            /\ y = IF Signed(ta, Narrow) < Signed(tb, Narrow) THEN 1 ELSE 0
        BY <3>1 DEF AluValue
      <4> QED  BY <1>2, <4>1
    <3>2. CASE op = "SLTU"
      <4>1. /\ x = IF ta < tb THEN 1 ELSE 0
            /\ y = IF trunc(ta, Narrow) < trunc(tb, Narrow) THEN 1 ELSE 0
        BY <3>2 DEF AluValue, ta, tb
      <4> QED  BY <1>2, <4>1
    <3> QED  BY <1>10, <3>1, <3>2
  <2> HIDE DEF x, y
  <2> QED  BY <2>1
<1>11. CASE op \in {"SRL", "SRA"}
  <2>1. CASE op = "SRL"
    <3>1. x = ta \div P /\ y = trunc(ta, Narrow) \div P  BY <2>1 DEF AluValue, ShiftRight, P, ta
    <3>2. ta \div P \in Int  BY <1>1, <1>2
    <3> HIDE DEF x, y
    <3> QED  BY <1>2, <3>1, <3>2
  <2>2. CASE op = "SRA"
    <3>1. x = Signed(a, Narrow) \div P /\ y = Signed(ta, Narrow) \div P
      BY <2>2 DEF AluValue, P
    <3> DEFINE sa == Signed(a, Narrow)
    <3>2. sa \div P \in Int
      <4>1. sa \in Int  BY <1>6
      <4> HIDE DEF sa
      <4> QED  BY <1>1, <4>1
    <3> HIDE DEF x, y
    <3> QED  BY <1>2, <3>1, <3>2
  <2> QED  BY <1>11, <2>1, <2>2
<1>12. CASE op = "AND"
  <2>1. x = Number(Bits(a) \cap Bits(b)) /\ y = Number(Bits(ta) \cap Bits(tb))
    BY <1>12 DEF AluValue, and
  <2>2. \A k \in 0 .. Narrow - 1 :
          k \in Bits(a) \cap Bits(b) <=> k \in Bits(ta) \cap Bits(tb)
    BY <1>5
  <2> HIDE DEF x, y
  <2> QED  BY <2>1, <2>2, NumberAlike
<1>13. CASE op = "OR"
  <2>1. x = Number(Bits(a) \cup Bits(b)) /\ y = Number(Bits(ta) \cup Bits(tb))
    BY <1>13 DEF AluValue, or
  <2>2. \A k \in 0 .. Narrow - 1 :
          k \in Bits(a) \cup Bits(b) <=> k \in Bits(ta) \cup Bits(tb)
    BY <1>5
  <2> HIDE DEF x, y
  <2> QED  BY <2>1, <2>2, NumberAlike
<1>14. CASE op = "XOR"
  <2> DEFINE X == (Bits(a) \cup Bits(b)) \ (Bits(a) \cap Bits(b))
             Y == (Bits(ta) \cup Bits(tb)) \ (Bits(ta) \cap Bits(tb))
  <2>1. x = Number(X) /\ y = Number(Y)
    BY <1>14 DEF AluValue, xor
  <2>2. \A k \in 0 .. Narrow - 1 : k \in X <=> k \in Y
    BY <1>5
  <2> HIDE DEF x, y, X, Y
  <2> QED  BY <2>1, <2>2, NumberAlike
<1> QED
  BY <1>7, <1>8, <1>9, <1>10, <1>11, <1>12, <1>13, <1>14 DEF AluOps

LEMMA AluNarrow ==
    ASSUME NEW op \in AluOps, NEW a \in Nat, NEW b \in Nat
    PROVE  alu(op, a, b, Narrow)
             = sext(alu(op, trunc(a, Narrow), trunc(b, Narrow), Narrow) % 2^Narrow, Narrow)
<1> DEFINE s == and(b, Narrow - 1)
           ta == trunc(a, Narrow)
           tb == trunc(b, Narrow)
           x == AluValue(op, a, b, s, Narrow)
           y == AluValue(op, ta, tb, s, Narrow)
<1>1. s \in 0 .. Wide /\ and(tb, Narrow - 1) = s  BY ShiftAmount
<1>2. alu(op, a, b, Narrow) = sext(x, Narrow)  BY DEF alu
<1>3. alu(op, ta, tb, Narrow) = sext(y, Narrow)  BY <1>1 DEF alu
<1> HIDE DEF s
<1>4. x \in Int /\ y \in Int /\ trunc(x, Narrow) = trunc(y, Narrow)  BY <1>1, AluLow
<1> HIDE DEF x, y, ta, tb
<1>5. sext(x, Narrow) = sext(sext(y, Narrow) % 2^Narrow, Narrow)  BY <1>4, SextLow
<1> QED  BY <1>2, <1>3, <1>5 DEF ta, tb

\* The value of a multiplication or division is a number, by zero too.
LEMMA MulDivInt ==
    ASSUME NEW w \in Widths, NEW op \in MulDivOps, NEW a \in Int, NEW b \in Int
    PROVE  MulDivValue(op, Signed(a, w), Signed(b, w), trunc(a, w), trunc(b, w), w) \in Int
<1> DEFINE ta == trunc(a, w)
           tb == trunc(b, w)
           sa == Signed(a, w)
           sb == Signed(b, w)
           v == MulDivValue(op, sa, sb, ta, tb, w)
           M == 2^w
           W == 2^Wide
<1>1. ta \in Nat /\ tb \in Nat /\ sa \in Int /\ sb \in Int  BY Operands
<1>2. M \in Nat \ {0} /\ W \in Nat \ {0}  BY Powers, WidthPowers
<1> SUFFICES v \in Int  OBVIOUS
<1>4. v = CASE op = "MUL" -> ta * tb
            [] op \in {"MULH", "MULHSU", "MULHU"} -> FullProduct(op, sa, sb, ta, tb) \div M
            [] op = "DIV" -> IF sb = 0 THEN W - 1 ELSE Truncated(sa, sb)
            [] op = "DIVU" -> IF tb = 0 THEN W - 1 ELSE ta \div tb
            [] op = "REM" -> IF sb = 0 THEN sa ELSE Remainder(sa, sb)
            [] op = "REMU" -> IF tb = 0 THEN ta ELSE ta % tb
  BY DEF MulDivValue
<1> HIDE DEF ta, tb, sa, sb, v, M, W
<1>5. sb # 0 => Truncated(sa, sb) \in Int
  <2>1. Abs(sa) \in Nat /\ (sb # 0 => Abs(sb) \in Nat \ {0})  BY <1>1 DEF Abs
  <2> QED  BY <2>1 DEF Truncated
<1>6. sb # 0 => Remainder(sa, sb) \in Int  BY <1>1, <1>5 DEF Remainder
<1>7. CASE op = "MUL"  BY <1>1, <1>4, <1>7
<1>8. CASE op \in {"MULH", "MULHSU", "MULHU"}
  <2> DEFINE p == FullProduct(op, sa, sb, ta, tb)
  <2>1. p \in Int  BY <1>1, <1>8 DEF FullProduct
  <2>2. v = p \div M  BY <1>4, <1>8
  <2> HIDE DEF p
  <2> QED  BY <1>2, <2>1, <2>2
<1>9. CASE op = "DIV"  BY <1>2, <1>4, <1>5, <1>9
<1>10. CASE op = "DIVU"
  <2>1. v = IF tb = 0 THEN W - 1 ELSE ta \div tb  BY <1>4, <1>10
  <2> QED  BY <1>1, <1>2, <2>1
<1>11. CASE op = "REM"
  <2>1. v = IF sb = 0 THEN sa ELSE Remainder(sa, sb)  BY <1>4, <1>11
  <2> QED  BY <1>1, <1>6, <2>1
<1>12. CASE op = "REMU"
  <2>1. v = IF tb = 0 THEN ta ELSE ta % tb  BY <1>4, <1>12
  <2> QED  BY <1>1, <2>1
<1> QED  BY <1>7, <1>8, <1>9, <1>10, <1>11, <1>12 DEF MulDivOps

\* The M extension only looks at narrowed operands to begin with.
LEMMA MulDivNarrow ==
    ASSUME NEW op \in MulDivOps, NEW a \in Nat, NEW b \in Nat
    PROVE  muldiv(op, a, b, Narrow)
             = sext(muldiv(op, trunc(a, Narrow), trunc(b, Narrow), Narrow) % 2^Narrow, Narrow)
<1> DEFINE ta == trunc(a, Narrow)
           tb == trunc(b, Narrow)
           sa == Signed(a, Narrow)
           sb == Signed(b, Narrow)
           v == MulDivValue(op, sa, sb, ta, tb, Narrow)
<1>0. a \in Int /\ b \in Int  OBVIOUS
<1>1. /\ ta \in Nat /\ trunc(ta, Narrow) = ta /\ Signed(ta, Narrow) = sa
      /\ tb \in Nat /\ trunc(tb, Narrow) = tb /\ Signed(tb, Narrow) = sb
  BY <1>0, LowTwice
<1>3. muldiv(op, a, b, Narrow) = sext(v, Narrow)  BY DEF muldiv
<1>4. muldiv(op, ta, tb, Narrow) = sext(v, Narrow)  BY <1>1 DEF muldiv
<1>5. v \in Int  BY <1>0, NarrowIsWidth, MulDivInt
<1> HIDE DEF v
<1>6. sext(v, Narrow) = sext(sext(v, Narrow) % 2^Narrow, Narrow)  BY <1>5, SextLow
<1> QED  BY <1>3, <1>4, <1>6

\* What NarrowIsRv32 asks of one result.
Lowered(op, a, b, v) ==
    v = IF op \in AluOps
        THEN sext(alu(op, trunc(a, Narrow), trunc(b, Narrow), Narrow) % 2^Narrow, Narrow)
        ELSE sext(muldiv(op, trunc(a, Narrow), trunc(b, Narrow), Narrow) % 2^Narrow, Narrow)

LEMMA LoweredIs ==
    NarrowIsRv32 <=> (last.inst.kind \in {"OP", "OP-IMM"} /\ last.inst.narrow =>
                        Lowered(last.inst.op, last.a, last.b, last.v))
BY DEF NarrowIsRv32, Lowered

LEMMA StepNarrow ==
    ASSUME TypeOK, NarrowIsRv32, guest' = guest, NEW i \in G.insts, execute(i)
    PROVE  NarrowIsRv32'
<1> DEFINE Goal == last'.inst.kind \in {"OP", "OP-IMM"} /\ last'.inst.narrow =>
                     Lowered(last'.inst.op, last'.a, last'.b, last'.v)
<1>1. SUFFICES Goal  BY DEF NarrowIsRv32, Lowered
<1>2. CASE last' = last  BY <1>2, LoweredIs
<1>3. CASE last' = [inst |-> NoInst]  BY <1>3 DEF NoInst
<1>4. CASE last'.inst = i /\ last' # last
  <2>1. CASE ~ (i.kind \in {"OP", "OP-IMM"} /\ i.narrow)  BY <1>4, <2>1
  <2>2. CASE i.kind \in {"OP", "OP-IMM"} /\ i.narrow
    <3>1. Width(i) = Narrow  BY <2>2 DEF Width
    <3>2. CASE Trapped  BY <1>3, <3>2 DEF Trapped
    <3>3. \A r \in 1 .. 2 : regs[r] \in Nat
      <4>1. \A r \in 1 .. 2 : regs[r] \in 0 .. 2^xb - 1 /\ xb \in Widths  BY HartFacts
      <4> DEFINE M == 2^xb
      <4>2. M \in Nat  BY <4>1, WidthPowers
      <4> HIDE DEF M
      <4>3. \A r \in 1 .. 2 : regs[r] \in 0 .. M - 1  BY <4>1 DEF M
      <4> QED  BY <4>2, <4>3
    <3>4. ASSUME NEW a \in Nat, NEW b \in Nat, i.op \in AluOps,
                 IntegerResult(i, a, b, alu(i.op, a, b, Width(i)))
          PROVE  Goal
      <4>1. last'.inst = i /\ last'.a = a /\ last'.b = b /\ last'.v = alu(i.op, a, b, Narrow)
        BY <1>4, <3>1, <3>4 DEF IntegerResult, Trace
      <4>2. Lowered(i.op, a, b, alu(i.op, a, b, Narrow))  BY <3>4, AluNarrow DEF Lowered
      <4> QED  BY <4>1, <4>2
    <3>5. ASSUME NEW a \in Nat, NEW b \in Nat, i.op \in MulDivOps,
                 IntegerResult(i, a, b, muldiv(i.op, a, b, Width(i)))
          PROVE  Goal
      <4>1. last'.inst = i /\ last'.a = a /\ last'.b = b /\ last'.v = muldiv(i.op, a, b, Narrow)
        BY <1>4, <3>1, <3>5 DEF IntegerResult, Trace
      <4>2. i.op \notin AluOps  BY <3>5 DEF AluOps, MulDivOps
      <4>3. Lowered(i.op, a, b, muldiv(i.op, a, b, Narrow))
        BY <3>5, <4>2, MulDivNarrow DEF Lowered
      <4> QED  BY <4>1, <4>3
    <3> HIDE DEF Goal
    <3>6. CASE i.kind = "OP"
      <4>1. Op(i)  BY <3>6 DEF execute
      <4>2. regs[i.rs1] \in Nat /\ regs[i.rs2] \in Nat  BY <3>3, <3>6, HartFacts
      <4> QED  BY <3>2, <3>4, <3>5, <4>1, <4>2 DEF Op, Illegal
    <3>7. CASE i.kind = "OP-IMM"
      <4>1. OpImm(i)  BY <3>7 DEF execute
      <4>2. i.rs1 \in 1 .. 2 /\ i.imm \in Int
        BY <3>7, DecodeAssumption DEF G, TypeOK
      <4>3. i.imm % 2^Wide \in Nat
        <5> DEFINE W == 2^Wide
        <5>1. W \in Nat \ {0}  BY Powers
        <5> HIDE DEF W
        <5>2. i.imm % W \in Nat  BY <4>2, <5>1
        <5> QED  BY <5>2 DEF W
      <4>4. regs[i.rs1] \in Nat  BY <3>3, <4>2
      <4> QED  BY <3>2, <3>4, <4>1, <4>3, <4>4 DEF OpImm, Illegal
    <3> QED  BY <2>2, <3>6, <3>7
  <2> QED  BY <2>1, <2>2
<1> QED  BY <1>2, <1>3, <1>4, ExecuteTraces

LEMMA NextNarrow ==
    ASSUME TypeOK, NarrowIsRv32, [Next]_vars PROVE NarrowIsRv32'
<1>1. guest' = guest  BY DEF Next, Fetch, Step, Switch, FirstUse, vars
<1>2. CASE Step  BY <1>1, <1>2, StepNarrow DEF Step
<1>3. CASE UNCHANGED last  BY <1>3, LoweredIs DEF NarrowIsRv32, Lowered
<1>4. CASE Fetch
  <2>1. last'.inst.kind = "C"  BY <1>4 DEF Fetch
  <2> QED  BY <2>1 DEF NarrowIsRv32
<1> QED  BY <1>2, <1>3, <1>4 DEF Next, Switch, FirstUse, vars

-----------------------------------------------------------------------------
(* Every floating-point result is a pattern of its format *)

Formats == {S, D}
Patterns(f) == 0 .. 2^f.bits - 1
IsResult(f, r) == r.v \in Patterns(f) /\ r.flags \subseteq FLAGS

LEMMA FormatFacts ==
    ASSUME NEW f \in Formats
    PROVE  /\ f.sig \in Nat /\ f.bits \in Nat /\ f.sig >= 2 /\ f.bits >= f.sig + 3
           /\ f.bits <= Word /\ 2 * f.sig + 8 <= Word /\ f.sig + 4 <= Word \div 2
           /\ f.bits \in Widths
<1>1. f.bits \in Widths  BY FormatAssumption DEF Formats, S, D, Widths
<1>2. f.bits <= Word  BY <1>1, AluAssumption, FpuAssumption, FormatAssumption DEF Widths
<1>3. /\ f.sig \in Nat /\ f.bits \in Nat /\ f.sig >= 2 /\ f.bits >= f.sig + 3
      /\ f.sig + 4 <= Word \div 2 /\ Word \in Nat
  BY FpuAssumption DEF Formats
<1>4. 2 * (Word \div 2) <= Word /\ Word \div 2 \in Nat  BY <1>3
<1> QED  BY <1>1, <1>2, <1>3, <1>4

\* The powers a format is made of.
LEMMA FormatPowers ==
    ASSUME NEW f \in Formats
    PROVE  /\ 2^f.sig \in Nat \ {0} /\ 2^(f.sig - 1) \in Nat \ {0}
           /\ 2^f.sig = 2 * 2^(f.sig - 1) /\ 2^(f.sig + 1) = 2 * 2^f.sig
           /\ 2^exp_bits(f) \in Nat /\ 2^exp_bits(f) >= 4
           /\ bias(f) \in Nat
           /\ 2^(f.bits - 1) \in Nat \ {0}
           /\ 2^(f.bits - 1) = 2^exp_bits(f) * 2^f.sig
           /\ 2^f.bits = 2 * 2^(f.bits - 1)
<1> DEFINE s == f.sig
           n == f.bits
           x == n - s - 1
<1>0. s \in Nat /\ n \in Nat /\ s >= 2 /\ n >= s + 3 /\ n <= Word /\ Word \in Nat  BY FormatFacts, WideInWord
<1> HIDE DEF s, n
<1>1. /\ s \in 0 .. Word /\ s < Word /\ s - 1 \in 0 .. Word /\ s - 1 < Word /\ (s - 1) + 1 = s
      /\ n - 1 \in 0 .. Word /\ n - 1 < Word /\ (n - 1) + 1 = n /\ n - 1 = x + s
      /\ x \in 0 .. Word /\ x - 1 \in 0 .. Word /\ x - 1 < Word /\ (x - 1) + 1 = x
      /\ x - 2 \in 0 .. Word /\ x - 2 < Word /\ (x - 2) + 1 = x - 1
  BY <1>0
<1>2. exp_bits(f) = x  BY DEF exp_bits, s, n
<1> HIDE DEF x
<1> DEFINE Q == 2^(s - 1)
           A == 2^s
           X2 == 2^(x - 2)
           X1 == 2^(x - 1)
           E == 2^x
           K == 2^(n - 1)
<1>3. Q \in Nat \ {0} /\ A \in Nat \ {0} /\ K \in Nat \ {0} /\ X2 \in Nat \ {0}
  BY <1>1, WordPowerType
<1>4. A = 2 * Q  BY <1>1, WordPowerNext
<1>5. 2^(s + 1) = 2 * A  BY <1>1, WordPowerNext
<1>6. X1 = 2 * X2  BY <1>1, WordPowerNext
<1>7. E = 2 * X1  BY <1>1, WordPowerNext
<1>8. K = E * A  BY <1>1, WordPowerSum
<1>9. 2^n = 2 * K  BY <1>1, WordPowerNext
<1>10. bias(f) = X1 - 1  BY <1>2 DEF bias
<1>11. bias(f) \in Nat /\ E \in Nat /\ E >= 4
  <2> HIDE DEF X1, X2, E
  <2> QED  BY <1>3, <1>6, <1>7, <1>10
<1> QED  BY <1>2, <1>3, <1>4, <1>5, <1>8, <1>9, <1>11 DEF s, n

\* The patterns that stand for no finite number, and the largest that does.
LEMMA SpecialPatterns ==
    ASSUME NEW f \in Formats, NEW neg
    PROVE  /\ zero(f, neg) \in Patterns(f) /\ inf(f, neg) \in Patterns(f)
           /\ nan(f) \in Patterns(f) /\ max_finite(f, neg) \in Patterns(f)
           /\ zero(f, neg) \in {0, sign_mask(f)}
           /\ max_field(f) \in Nat
<1> DEFINE Q == 2^(f.sig - 1)
           A == 2^f.sig
           E == 2^exp_bits(f)
           K == 2^(f.bits - 1)
           N == 2^f.bits
<1>1. Q \in Nat \ {0} /\ A = 2 * Q /\ E \in Nat /\ E >= 4 /\ K = E * A /\ N = 2 * K
      /\ A \in Nat \ {0} /\ K \in Nat \ {0}
  BY FormatPowers
<1>2. /\ sign_mask(f) = K /\ quiet_bit(f) = Q /\ max_field(f) = E - 1
      /\ \A b : zero(f, b) = IF b THEN K ELSE 0
      /\ \A b : inf(f, b) = (E - 1) * A + zero(f, b)
      /\ nan(f) = inf(f, FALSE) + Q
      /\ max_finite(f, neg) = inf(f, neg) - 1
  BY DEF sign_mask, quiet_bit, max_field, zero, inf, nan, max_finite
<1>3. Patterns(f) = 0 .. N - 1  BY DEF Patterns
<1> HIDE DEF Q, A, E, K, N
<1> DEFINE I == (E - 1) * A
<1>4. I = K - A
  <2>1. (E - 1) * A = E * A - A  BY <1>1
  <2> QED  BY <1>1, <2>1
<1>5. K >= 4 * A  BY <1>1
<1> HIDE DEF I
<1>6. inf(f, neg) = I + zero(f, neg) /\ inf(f, FALSE) = I + 0  BY <1>2 DEF I
<1>7. I \in Nat /\ I >= 1 /\ I + Q < K  BY <1>1, <1>4, <1>5
<1>8. zero(f, neg) \in {0, K}  BY <1>2
<1>9. inf(f, neg) \in {I, I + K}  BY <1>6, <1>7, <1>8, <1>1
<1>10. zero(f, neg) \in 0 .. N - 1  BY <1>1, <1>8
<1>11. inf(f, neg) \in 0 .. N - 1 /\ inf(f, neg) - 1 \in 0 .. N - 1  BY <1>1, <1>7, <1>9
<1>12. nan(f) = I + Q
  <2>1. nan(f) = (I + 0) + Q  BY <1>2, <1>6, Zenon
  <2> QED  BY <1>1, <1>7, <2>1
<1>13. nan(f) \in 0 .. N - 1  BY <1>1, <1>7, <1>12
<1>14. max_field(f) \in Nat  BY <1>1, <1>2
<1> QED  BY <1>2, <1>3, <1>8, <1>10, <1>11, <1>13, <1>14

\* A sign over any field and fraction of the format.
LEMMA SignedPattern ==
    ASSUME NEW f \in Formats, NEW neg, NEW x \in 0 .. 2^(f.bits - 1) - 1
    PROVE  zero(f, neg) + x \in Patterns(f)
<1> DEFINE K == 2^(f.bits - 1)
           N == 2^f.bits
<1>1. K \in Nat \ {0} /\ N = 2 * K  BY FormatPowers
<1>2. zero(f, neg) \in {0, K}  BY SpecialPatterns DEF sign_mask
<1>3. x \in 0 .. K - 1  OBVIOUS
<1> HIDE DEF K, N
<1>4. zero(f, neg) + x \in 0 .. N - 1  BY <1>1, <1>2, <1>3
<1> QED  BY <1>4 DEF Patterns, N

LEMMA EncodeResult ==
    ASSUME NEW f \in Formats, NEW sign, NEW rm, NEW inexact, NEW q \in Int, NEW field \in Nat
    PROVE  IsResult(f, Encode(f, sign, rm, inexact, q, field))
<1> DEFINE A == 2^f.sig
           E == 2^exp_bits(f)
           K == 2^(f.bits - 1)
           r == Encode(f, sign, rm, inexact, q, field)
<1>1. A \in Nat \ {0} /\ E \in Nat /\ K = E * A /\ K \in Nat  BY FormatPowers
<1>2. CASE field >= max_field(f)
  <2>1. r = Overflow(f, sign, rm)  BY <1>2 DEF Encode
  <2>2. r.v \in {inf(f, sign), max_finite(f, sign)} /\ r.flags = {"OF", "NX"}
    BY <2>1 DEF Overflow
  <2> HIDE DEF r
  <2> QED  BY <2>2, SpecialPatterns DEF IsResult, FLAGS, r
<1>3. CASE ~ (field >= max_field(f))
  <2> DEFINE x == field * A + (q % A)
  <2>1. r.v = zero(f, sign) + field * A + (q % A)  BY <1>3 DEF Encode
  <2>2. r.flags \subseteq {"NX", "UF"}  BY <1>3 DEF Encode
  <2>3. max_field(f) = E - 1  BY DEF max_field
  <2>4. zero(f, sign) \in {0, K}  BY SpecialPatterns DEF sign_mask
  <2> HIDE DEF A, E, K, r
  <2>5. field + 1 <= E - 1  BY <1>1, <1>3, <2>3
  <2>6. q % A \in 0 .. A - 1  BY <1>1
  <2>7. (field + 1) * A <= (E - 1) * A  BY <1>1, <2>5
  <2>8. (field + 1) * A = field * A + A /\ (E - 1) * A = K - A  BY <1>1
  <2>9. field * A \in Nat  BY <1>1
  <2>10. x \in 0 .. K - 1  BY <1>1, <2>6, <2>7, <2>8, <2>9
  <2>11. r.v = zero(f, sign) + x  BY <1>1, <2>1, <2>4, <2>6, <2>9
  <2> HIDE DEF x
  <2>12. r.v \in Patterns(f)  BY <2>10, <2>11, SignedPattern DEF K
  <2> QED  BY <2>2, <2>12 DEF IsResult, FLAGS, r
<1> QED  BY <1>2, <1>3

LEMMA PackResult ==
    ASSUME NEW f \in Formats, NEW sign, NEW rm, NEW inexact, NEW q \in Int, NEW e \in Int,
           e >= min_e(f)
    PROVE  IsResult(f, Pack(f, sign, rm, inexact, q, e))
<1> DEFINE field == IF q >= 2^f.sig THEN e + f.sig + bias(f) ELSE 0
<1>1. CASE q = 0
  <2>1. Pack(f, sign, rm, inexact, q, e) = [v |-> zero(f, sign), flags |-> {"NX", "UF"}]
    BY <1>1 DEF Pack
  <2> QED  BY <2>1, SpecialPatterns DEF IsResult, FLAGS
<1>2. CASE q # 0
  <2>1. f.sig \in Nat /\ bias(f) \in Nat /\ min_e(f) = 1 - bias(f) - f.sig
    BY FormatFacts, FormatPowers DEF min_e
  <2>2. field \in Nat
    <3>1. e + f.sig + bias(f) \in Nat  BY <2>1
    <3> QED  BY <3>1
  <2>3. Pack(f, sign, rm, inexact, q, e) = Encode(f, sign, rm, inexact, q, field)
    BY <1>2 DEF Pack
  <2> HIDE DEF field
  <2> QED  BY <2>2, <2>3, EncodeResult
<1> QED  BY <1>1, <1>2

LEMMA CarryResult ==
    ASSUME NEW f \in Formats, NEW sign, NEW rm, NEW inexact, NEW q \in Int, NEW e \in Int,
           e >= min_e(f)
    PROVE  IsResult(f, Carry(f, sign, rm, inexact, q, e))
<1>1. min_e(f) \in Int  BY FormatFacts, FormatPowers DEF min_e
<1>2. e + 1 \in Int /\ e + 1 >= min_e(f) /\ q \div 2 \in Int  BY <1>1
<1> QED  BY <1>2, PackResult DEF Carry

\* A word's bit length, as leading_zeros gives it.
LEMMA BitLength ==
    ASSUME NEW m \in Nat, m < 2^Word
    PROVE  /\ bit_len(m) \in 0 .. Word /\ m < 2^bit_len(m)
           /\ m > 0 => bit_len(m) > 0 /\ m >= 2^(bit_len(m) - 1)
<1> DEFINE Enough == {n \in 0 .. Word : m < 2^n}
           P(n) == m < 2^n /\ (n > 0 => m >= 2^(n - 1))
<1>0. Word \in Nat  BY WideInWord
<1>1. Word \in Enough  BY <1>0
<1>2. Enough \in SUBSET Nat  OBVIOUS
<1> HIDE DEF Enough
<1>3. PICK n \in Enough : \A k \in Enough : n <= k  BY <1>1, <1>2, LeastNatural
<1>4. n \in 0 .. Word /\ m < 2^n  BY <1>3 DEF Enough
<1>5. n > 0 => m >= 2^(n - 1)
  <2> SUFFICES ASSUME n > 0 PROVE m >= 2^(n - 1)  OBVIOUS
  <2>1. n - 1 \in 0 .. Word /\ ~ (n <= n - 1)  BY <1>0, <1>4
  <2>2. n - 1 \notin Enough  BY <1>3, <2>1
  <2>3. ~ (m < 2^(n - 1))  BY <2>1, <2>2 DEF Enough
  <2> DEFINE H == 2^(n - 1)
  <2>4. H \in Nat /\ ~ (m < H)  BY <2>1, <2>3, WordPowerType
  <2> HIDE DEF H
  <2>5. m >= H  BY <2>4
  <2> QED  BY <2>5 DEF H
<1>6. P(n)  BY <1>4, <1>5
<1>7. bit_len(m) = CHOOSE b \in 0 .. Word : P(b)  BY DEF bit_len
<1> HIDE DEF P
<1>8. bit_len(m) \in 0 .. Word /\ P(bit_len(m))  BY <1>4, <1>6, <1>7
<1>9. m > 0 => bit_len(m) > 0
  <2> SUFFICES ASSUME m > 0, ~ (bit_len(m) > 0) PROVE FALSE  OBVIOUS
  <2>1. bit_len(m) = 0  BY <1>8
  <2>2. m < 2^0  BY <1>8, <2>1 DEF P
  <2> QED  BY <2>2, PowerAssumption
<1> QED  BY <1>8, <1>9 DEF P

LEMMA MaxOfTwo ==
    ASSUME NEW a \in Int, NEW b \in Int
    PROVE  Max({a, b}) \in Int /\ Max({a, b}) >= a /\ Max({a, b}) >= b /\ Max({a, b}) \in {a, b}
<1>1. \E x \in {a, b} : \A y \in {a, b} : x >= y
  <2>1. CASE a >= b  BY <2>1
  <2>2. CASE ~ (a >= b)
    <3>1. b >= a /\ b >= b  BY <2>2
    <3> QED  BY <3>1
  <2> QED  BY <2>1, <2>2
<1>2. Max({a, b}) \in {a, b} /\ \A y \in {a, b} : Max({a, b}) >= y  BY <1>1 DEF Max
<1> HIDE DEF Max
<1> QED  BY <1>2

\* What Split leaves is a number when the shift is one of a word.
LEMMA SplitType ==
    ASSUME NEW m \in Nat, NEW d \in Int, - d <= Word
    PROVE  Split(m, d).q \in Nat
<1>0. Word \in Nat  BY WideInWord
<1>1. CASE d <= 0
  <2> DEFINE P == 2^(-d)
  <2>1. - d \in 0 .. Word  BY <1>0, <1>1
  <2>2. P \in Nat  BY <2>1, WordPowerType
  <2>3. Split(m, d).q = m * P  BY <1>1 DEF Split
  <2> HIDE DEF P
  <2> QED  BY <2>2, <2>3
<1>2. CASE ~ (d <= 0) /\ d >= Word  BY <1>2 DEF Split
<1>3. CASE ~ (d <= 0) /\ ~ (d >= Word)
  <2> DEFINE P == 2^d
  <2>1. d \in 0 .. Word  BY <1>0, <1>3
  <2>2. P \in Nat \ {0}  BY <2>1, WordPowerType
  <2>3. Split(m, d).q = m \div P  BY <1>3 DEF Split
  <2> HIDE DEF P
  <2> QED  BY <2>2, <2>3
<1> QED  BY <1>1, <1>2, <1>3

LEMMA QuotientType ==
    ASSUME NEW rm, NEW sign, NEW s, s.q \in Nat PROVE RoundedQuotient(rm, sign, s) \in Nat
<1>1. RoundedQuotient(rm, sign, s) \in {s.q + 0, s.q + 1}  BY DEF RoundedQuotient
<1> QED  BY <1>1

\* round_pack returns a pattern for every word it is given.
LEMMA RoundResult ==
    ASSUME NEW f \in Formats, NEW sign, NEW m \in Nat, m < 2^Word, NEW e \in Int, NEW rm
    PROVE  IsResult(f, round_pack(f, sign, m, e, rm))
<1> DEFINE lsb == Lsb(f, m, e)
           d == lsb - e
           s == Split(m, d)
           q == RoundedQuotient(rm, sign, s)
<1>1. CASE m = 0
  <2>1. round_pack(f, sign, m, e, rm) = [v |-> zero(f, sign), flags |-> {}]
    BY <1>1 DEF round_pack, Exact
  <2> QED  BY <2>1, SpecialPatterns DEF IsResult
<1>2. CASE m # 0
  <2> DEFINE b == bit_len(m)
             low == b - 1 + e - f.sig
  <2>1. b \in 0 .. Word /\ b > 0  BY <1>2, BitLength
  <2>2. f.sig \in Nat /\ f.sig <= Word /\ min_e(f) \in Int /\ Word \in Nat
    BY FormatFacts, FormatPowers, WideInWord DEF min_e
  <2> HIDE DEF b
  <2>3. low \in Int  BY <2>1, <2>2
  <2>4. lsb = Max({low, min_e(f)})  BY DEF Lsb, b
  <2> HIDE DEF lsb
  <2>5. lsb \in Int /\ lsb >= low /\ lsb >= min_e(f)  BY <2>2, <2>3, <2>4, MaxOfTwo
  <2>6. d \in Int /\ - d <= Word  BY <2>1, <2>2, <2>5
  <2> HIDE DEF d
  <2>7. s.q \in Nat  BY <2>6, SplitType
  <2> HIDE DEF s
  <2>8. q \in Nat  BY <2>7, QuotientType
  <2>9. round_pack(f, sign, m, e, rm) = Carry(f, sign, rm, Inexact(s), q, lsb)
    BY <1>2 DEF round_pack, RoundAt, s, d, lsb
  <2> HIDE DEF q
  <2>10. q \in Int  BY <2>8
  <2> QED  BY <2>5, <2>9, <2>10, CarryResult
<1> QED  BY <1>1, <1>2

Unpackings == [sign : BOOLEAN, cls : {"Num", "Zero", "Inf", "Snan", "Qnan"}, m : Nat, e : Int]

\* An operand whose significand has at most k bits, and at least one if it is
\* a number.
Operand(p, k) == p \in Unpackings /\ p.m < 2^k /\ (p.cls = "Num" => p.m > 0)

LEMMA MaskedType ==
    ASSUME NEW f \in Formats, NEW x \in Int
    PROVE  /\ Masked(f, x) \in Patterns(f)
           /\ Magnitude(f, x) \in 0 .. 2^(f.bits - 1) - 1
           /\ Masked(f, x) \in Nat /\ Magnitude(f, x) \in Nat
           /\ Negative(f, x) \in BOOLEAN
<1> DEFINE K == 2^(f.bits - 1)
           N == 2^f.bits
           y == x % N
<1>1. K \in Nat \ {0} /\ N = 2 * K  BY FormatPowers
<1>2. Masked(f, x) = y /\ Magnitude(f, x) = y % K  BY DEF Masked, Magnitude, sign_mask
<1> HIDE DEF K, N
<1>3. y \in 0 .. N - 1 /\ y \in Nat  BY <1>1
<1> HIDE DEF y
<1>4. y % K \in 0 .. K - 1 /\ y % K \in Nat  BY <1>1, <1>3
<1>5. Negative(f, x) \in BOOLEAN  BY DEF Negative
<1> QED  BY <1>2, <1>3, <1>4, <1>5 DEF Patterns, K, N

LEMMA SpecialOperand ==
    ASSUME NEW sign \in BOOLEAN, NEW cls \in {"Zero", "Inf", "Snan", "Qnan"}, NEW k \in 0 .. Word
    PROVE  Operand(Special(sign, cls), k)
<1> DEFINE P == 2^k
<1>1. P \in Nat \ {0}  BY WordPowerType
<1> HIDE DEF P
<1>2. 0 < P  BY <1>1
<1> QED  BY <1>2 DEF Operand, Special, Unpackings, P

LEMMA NumOperand ==
    ASSUME NEW sign \in BOOLEAN, NEW m \in Nat, NEW e \in Int, NEW k, m > 0, m < 2^k
    PROVE  Operand(Num(sign, m, e), k)
BY DEF Operand, Num, Unpackings

LEMMA UnpackOperand ==
    ASSUME NEW f \in Formats, NEW x \in Int
    PROVE  Operand(unpack(f, x), f.sig + 1)
<1> DEFINE s == f.sig
           A == 2^s
           B == 2^(s + 1)
           sign == Negative(f, x)
           field == Magnitude(f, x) \div A
           frac == Masked(f, x) % A
           p == unpack(f, x)
<1>0. s \in Nat /\ s + 1 \in 0 .. Word /\ s \in 0 .. Word /\ s <= Word
  BY FormatFacts, WideInWord
<1>1. A \in Nat \ {0} /\ B = 2 * A /\ bias(f) \in Nat  BY FormatPowers
<1>2. sign \in BOOLEAN /\ Magnitude(f, x) \in Nat /\ Masked(f, x) \in Nat  BY MaskedType
<1>3. p = Unpacked(f, sign, field, frac)  BY DEF unpack
<1> HIDE DEF A, B
<1>4. field \in Nat /\ frac \in 0 .. A - 1  BY <1>1, <1>2
<1>5. SUFFICES Operand(p, s + 1)  OBVIOUS
<1> HIDE DEF s, sign, field, frac
<1>6. CASE field = max_field(f)
  <2>1. PICK cls \in {"Zero", "Inf", "Snan", "Qnan"} : p = Special(sign, cls)
    BY <1>3, <1>6 DEF Unpacked
  <2> HIDE DEF p
  <2> QED  BY <1>0, <1>2, <2>1, SpecialOperand
<1>7. CASE field # max_field(f) /\ field > 0
  <2> DEFINE e == field - bias(f) - s
             m == A + frac
  <2>1. p = Num(sign, m, e)  BY <1>3, <1>7 DEF Unpacked, A, s
  <2>2. m \in Nat /\ m > 0 /\ m < B /\ e \in Int  BY <1>0, <1>1, <1>4
  <2> HIDE DEF p, m, e
  <2> QED  BY <1>2, <2>1, <2>2, NumOperand DEF B
<1>8. CASE field # max_field(f) /\ ~ (field > 0) /\ frac = 0
  <2>1. p = Special(sign, "Zero")  BY <1>3, <1>8 DEF Unpacked
  <2> HIDE DEF p
  <2> QED  BY <1>0, <1>2, <2>1, SpecialOperand
<1>9. CASE field # max_field(f) /\ ~ (field > 0) /\ frac # 0
  <2> DEFINE b == bit_len(frac)
             k == s + 1 - b
             C == 2^b
             H == 2^(b - 1)
             J == 2^k
             W == 2^Word
             e == min_e(f) - k
             m == frac * J
  <2>1. p = Num(sign, m, e)  BY <1>3, <1>9 DEF Unpacked, Subnormal, s
  <2>2. frac \in Nat /\ frac > 0 /\ frac < A  BY <1>1, <1>4, <1>9
  <2>3. frac < 2^Word
    <3> DEFINE R == 2^(Word - s)
    <3>1. Word - s \in 0 .. Word /\ Word = s + (Word - s) /\ Word \in 0 .. Word  BY <1>0, WideInWord
    <3>2. R \in Nat \ {0} /\ W = A * R  BY <1>0, <3>1, WordPowerType, WordPowerSum DEF A
    <3> HIDE DEF R, W
    <3>3. A <= W  BY <1>1, <3>2
    <3>4. frac < W  BY <1>1, <2>2, <3>2, <3>3
    <3> QED  BY <3>4 DEF W
  <2>4. b \in 0 .. Word /\ b > 0 /\ frac < C /\ frac >= H  BY <2>2, <2>3, BitLength
  <2> HIDE DEF b
  <2>5. b <= s
    <3> SUFFICES ASSUME ~ (b <= s) PROVE FALSE  OBVIOUS
    <3> DEFINE R == 2^(b - 1 - s)
    <3>1. b - 1 \in 0 .. Word /\ b - 1 - s \in 0 .. Word /\ b - 1 = s + (b - 1 - s)
      BY <1>0, <2>4, WideInWord
    <3>2. R \in Nat \ {0} /\ H = A * R  BY <1>0, <3>1, WordPowerType, WordPowerSum DEF A
    <3> HIDE DEF R, H
    <3>3. A <= H  BY <1>1, <3>2
    <3> QED  BY <1>1, <2>2, <2>4, <3>2, <3>3
  <2>6. k \in 0 .. Word /\ s + 1 = b + k /\ b \in 0 .. Word  BY <1>0, <2>4, <2>5, WideInWord
  <2>7. J \in Nat \ {0} /\ C \in Nat /\ B = C * J
    BY <1>0, <2>6, WordPowerType, WordPowerSum DEF B
  <2>8. e \in Int  BY <1>0, <1>1, <2>6, FormatFacts DEF min_e
  <2> HIDE DEF J, C, H, e, k
  <2>9. m \in Nat /\ m > 0  BY <2>2, <2>7
  <2>10. m < B
    <3>1. frac + 1 <= C  BY <2>2, <2>4, <2>7
    <3>2. (frac + 1) * J <= C * J  BY <2>2, <2>7, <3>1
    <3>3. (frac + 1) * J = m + J  BY <2>2, <2>7
    <3> HIDE DEF m
    <3> QED  BY <2>7, <2>9, <3>2, <3>3
  <2> HIDE DEF p, m
  <2> QED  BY <1>2, <2>1, <2>8, <2>9, <2>10, NumOperand DEF B
<1> QED  BY <1>6, <1>7, <1>8, <1>9

LEMMA FlipOperand ==
    ASSUME NEW p, NEW k, Operand(p, k), NEW negate
    PROVE  Operand(Flip(p, negate), k)
BY DEF Operand, Flip, Unpackings

LEMMA PowerMonotone ==
    ASSUME NEW j \in 0 .. Word, NEW k \in 0 .. Word, j <= k
    PROVE  2^j <= 2^k
<1> DEFINE d == k - j
           J == 2^j
           K == 2^k
           R == 2^d
<1>1. d \in 0 .. Word /\ k = j + d  BY WideInWord
<1>2. J \in Nat \ {0} /\ R \in Nat \ {0} /\ K = J * R  BY <1>1, WordPowerType, WordPowerSum
<1> HIDE DEF J, K, R
<1>3. J <= K  BY <1>2
<1> QED  BY <1>3 DEF J, K

\* Moving to a common exponent leaves room in the word for a sum.
LEMMA ScaleFits ==
    ASSUME NEW m \in Nat, m < 2^(Word - 2), NEW e \in Int, NEW base \in Int,
           e + bit_len(m) - base <= Word - 2
    PROVE  scale(m, e, base) \in Nat /\ scale(m, e, base) <= 2^(Word - 2)
<1> DEFINE U == 2^(Word - 2)
           W == 2^Word
           b == bit_len(m)
<1>0. Word \in Nat /\ Word >= 10
  <2>1. S.sig >= 2 /\ S.sig \in Nat /\ S.sig + 3 <= Word \div 2 /\ Word \in Nat
    BY FormatFacts, WideInWord DEF Formats
  <2> QED  BY <2>1
<1>1. Word - 2 \in 0 .. Word /\ Word \in 0 .. Word /\ Word - 2 <= Word  BY <1>0
<1>2. U \in Nat \ {0} /\ U <= W /\ m < U /\ W \in Nat  BY <1>1, WordPowerType, PowerMonotone
<1>3. m < 2^Word
  <2> HIDE DEF U, W
  <2>1. m < W  BY <1>2
  <2> QED  BY <2>1 DEF W
<1>4. b \in 0 .. Word /\ m < 2^b  BY <1>3, BitLength
<1>5. SUFFICES scale(m, e, base) \in Nat /\ scale(m, e, base) <= U  OBVIOUS
<1>6. CASE e >= base
  <2> DEFINE j == e - base
             J == 2^j
             B == 2^b
             R == 2^(b + j)
  <2>1. scale(m, e, base) = m * J  BY <1>6 DEF scale
  <2>2. e + b - base <= Word - 2  OBVIOUS
  <2> HIDE DEF b
  <2>3. j \in 0 .. Word /\ b + j \in 0 .. Word /\ b + j <= Word - 2  BY <1>0, <1>4, <1>6, <2>2
  <2>4. J \in Nat \ {0} /\ B \in Nat /\ R = B * J /\ R <= U /\ m < B
    BY <1>1, <1>4, <2>3, WordPowerType, WordPowerSum, PowerMonotone
  <2> HIDE DEF J, B, R, U, j
  <2>5. m * J <= B * J  BY <2>4
  <2>6. m * J \in Nat /\ B * J \in Nat  BY <2>4
  <2> QED  BY <1>2, <2>1, <2>4, <2>5, <2>6
<1>7. CASE ~ (e >= base) /\ base - e >= Word
  <2>1. scale(m, e, base) \in {0, 1}  BY <1>7 DEF scale, Sticky
  <2> HIDE DEF U
  <2> QED  BY <1>2, <2>1
<1>8. CASE ~ (e >= base) /\ ~ (base - e >= Word)
  <2> DEFINE j == base - e
             J == 2^j
             t == m \div J
  <2>1. scale(m, e, base) \in {t, t + 1}  BY <1>8 DEF scale, Sticky
  <2>2. j \in 0 .. Word  BY <1>0, <1>8
  <2>3. J \in Nat \ {0}  BY <2>2, WordPowerType
  <2> HIDE DEF J, U
  <2>4. t \in Nat /\ t <= m  BY <2>3
  <2> HIDE DEF t
  <2> QED  BY <1>2, <2>1, <2>4
<1> QED  BY <1>6, <1>7, <1>8

\* The sum of two operands is a word.
LEMMA AddRawFits ==
    ASSUME NEW p, NEW q, NEW k \in 0 .. Word, k <= Word - 2, Operand(p, k), Operand(q, k)
    PROVE  LET s == add_raw(p, q)
           IN  s.m \in Nat /\ s.m < 2^Word /\ s.e \in Int
<1> DEFINE U == 2^(Word - 2)
           U1 == 2^(Word - 1)
           W == 2^Word
           P == 2^k
           bp == bit_len(p.m)
           bq == bit_len(q.m)
           top == Max({p.e + bp, q.e + bq})
           base == Base(p, q)
           a == scale(p.m, p.e, base)
           b == scale(q.m, q.e, base)
           s == add_raw(p, q)
<1>0. Word \in Nat /\ Word - 2 \in 0 .. Word /\ Word \in 0 .. Word
      /\ Word - 1 \in 0 .. Word /\ Word - 2 < Word /\ Word - 1 < Word
      /\ (Word - 2) + 1 = Word - 1 /\ (Word - 1) + 1 = Word
  BY WideInWord
<1>1. U \in Nat \ {0} /\ U1 = 2 * U /\ W = 2 * U1 /\ P \in Nat /\ P <= U
  <2>1. U \in Nat \ {0} /\ P \in Nat /\ P <= U  BY <1>0, WordPowerType, PowerMonotone
  <2>2. U1 = 2 * U  BY <1>0, WordPowerNext
  <2>3. W = 2 * U1  BY <1>0, WordPowerNext
  <2> QED  BY <2>1, <2>2, <2>3
<1>2. /\ p.m \in Nat /\ p.e \in Int /\ p.m < P /\ p.sign \in BOOLEAN
      /\ q.m \in Nat /\ q.e \in Int /\ q.m < P /\ q.sign \in BOOLEAN
  BY DEF Operand, Unpackings
<1>3. p.m < 2^(Word - 2) /\ q.m < 2^(Word - 2) /\ p.m < 2^Word /\ q.m < 2^Word
  <2> HIDE DEF U, U1, W, P
  <2>1. p.m < U /\ q.m < U /\ p.m < W /\ q.m < W  BY <1>1, <1>2
  <2> QED  BY <2>1 DEF U, W
<1>4. bp \in 0 .. Word /\ bq \in 0 .. Word  BY <1>2, <1>3, BitLength
<1>5. base = top - (Word - 2)  BY DEF Base
<1>6. p.e + bp \in Int /\ q.e + bq \in Int  BY <1>2, <1>4
<1>7. top \in Int /\ top >= p.e + bp /\ top >= q.e + bq  BY <1>6, MaxOfTwo
<1> HIDE DEF top
<1>8. base \in Int /\ p.e + bp - base <= Word - 2 /\ q.e + bq - base <= Word - 2
  BY <1>0, <1>2, <1>4, <1>5, <1>7
<1> HIDE DEF base
<1>9. a \in Nat /\ a <= U /\ b \in Nat /\ b <= U  BY <1>2, <1>3, <1>8, ScaleFits
<1>10. s = SignedSum(p.sign, a, q.sign, b, base)  BY DEF add_raw, base
<1> HIDE DEF a, b, U, U1, W, s
<1>11. s.e = base  BY <1>10 DEF SignedSum, Num
<1>12. s.m = a + b \/ (a >= b /\ s.m = a - b) \/ (~ (a >= b) /\ s.m = b - a)
  BY <1>10 DEF SignedSum, Num
<1>13. s.m \in Nat /\ s.m < W  BY <1>1, <1>9, <1>12
<1> QED  BY <1>8, <1>11, <1>13 DEF s, W

LEMMA RoundSumResult ==
    ASSUME NEW f \in Formats, NEW s, s.m \in Nat, s.m < 2^Word, s.e \in Int, NEW rm
    PROVE  IsResult(f, RoundSum(f, s, rm))
<1>1. CASE s.m = 0
  <2>1. RoundSum(f, s, rm) = [v |-> zero(f, zero_sign(rm)), flags |-> {}]
    BY <1>1 DEF RoundSum, Exact
  <2> QED  BY <2>1, SpecialPatterns DEF IsResult
<1>2. CASE s.m # 0
  <2>1. RoundSum(f, s, rm) = round_pack(f, s.sign, s.m, s.e, rm)  BY <1>2 DEF RoundSum
  <2> QED  BY <2>1, RoundResult
<1> QED  BY <1>1, <1>2

LEMMA ExactResult ==
    ASSUME NEW f, NEW v \in Patterns(f) PROVE IsResult(f, Exact(v))
BY DEF IsResult, Exact

LEMMA SignResult ==
    ASSUME NEW f \in Formats, NEW sign, NEW x \in Int PROVE WithSign(f, sign, x) \in Patterns(f)
BY MaskedType, SignedPattern DEF WithSign

LEMMA NanResult ==
    ASSUME NEW f \in Formats, NEW operands
    PROVE  IsResult(f, nan_result(f, operands)) /\ IsResult(f, invalid(f))
BY SpecialPatterns DEF IsResult, nan_result, invalid, FLAGS

LEMMA ZerosResult ==
    ASSUME NEW f \in Formats, NEW sp, NEW sq, NEW rm
    PROVE  IsResult(f, SumOfZeros(f, sp, sq, rm))
BY SpecialPatterns, ExactResult DEF SumOfZeros

\* The significands of operands and of their product.
LEMMA OperandWidths ==
    ASSUME NEW f \in Formats
    PROVE  /\ f.sig + 1 \in 0 .. Word /\ 2 * f.sig + 2 \in 0 .. Word
           /\ f.sig + 1 <= Word - 2 /\ 2 * f.sig + 2 <= Word - 2
           /\ 2^(f.sig + 1) <= 2^(2 * f.sig + 2)
           /\ 2^(2 * f.sig + 2) = 2^(f.sig + 1) * 2^(f.sig + 1)
           /\ 2^(f.sig + 1) <= 2^Word /\ 2^(2 * f.sig + 2) <= 2^Word
           /\ 2^(f.sig + 1) \in Nat \ {0} /\ 2^(2 * f.sig + 2) \in Nat /\ 2^Word \in Nat
<1> DEFINE s == f.sig + 1
           t == 2 * f.sig + 2
<1>1. f.sig \in Nat /\ 2 * f.sig + 4 <= Word /\ Word \in Nat  BY FormatFacts, WideInWord
<1>2. /\ s \in 0 .. Word /\ t \in 0 .. Word /\ s <= Word - 2 /\ t <= Word - 2 /\ t = s + s
      /\ s <= t /\ s <= Word /\ t <= Word /\ Word \in 0 .. Word
  BY <1>1
<1> HIDE DEF s, t
<1>3. 2^s <= 2^t /\ 2^s <= 2^Word /\ 2^t <= 2^Word  BY <1>2, PowerMonotone
<1>4. 2^t = 2^s * 2^s  BY <1>2, WordPowerSum
<1>5. 2^s \in Nat \ {0} /\ 2^t \in Nat /\ 2^Word \in Nat  BY <1>2, WordPowerType
<1> QED  BY <1>2, <1>3, <1>4, <1>5 DEF s, t

LEMMA WiderOperand ==
    ASSUME NEW f \in Formats, NEW p, Operand(p, f.sig + 1)
    PROVE  Operand(p, 2 * f.sig + 2) /\ p.m < 2^Word
<1> DEFINE A == 2^(f.sig + 1)
           B == 2^(2 * f.sig + 2)
           W == 2^Word
<1>1. A \in Nat /\ B \in Nat /\ W \in Nat /\ A <= B /\ A <= W  BY OperandWidths
<1>2. p.m \in Nat /\ p.m < A  BY DEF Operand, Unpackings
<1> HIDE DEF A, B, W
<1>3. p.m < B /\ p.m < W  BY <1>1, <1>2
<1> QED  BY <1>3 DEF Operand, B, W

LEMMA ProductFits ==
    ASSUME NEW f \in Formats, NEW p, NEW q, Operand(p, f.sig + 1), Operand(q, f.sig + 1)
    PROVE  /\ p.m * q.m \in Nat /\ p.m * q.m < 2^(2 * f.sig + 2) /\ p.m * q.m < 2^Word
           /\ p.e + q.e \in Int
           /\ p.cls = "Num" /\ q.cls = "Num" => p.m * q.m > 0
<1> DEFINE A == 2^(f.sig + 1)
           B == 2^(2 * f.sig + 2)
           W == 2^Word
           x == p.m
           y == q.m
<1>1. A \in Nat \ {0} /\ B \in Nat /\ W \in Nat /\ B = A * A /\ B <= W  BY OperandWidths
<1>2. x \in Nat /\ x < A /\ y \in Nat /\ y < A /\ p.e \in Int /\ q.e \in Int
  BY DEF Operand, Unpackings
<1>3. (p.cls = "Num" => x > 0) /\ (q.cls = "Num" => y > 0)  BY DEF Operand
<1> HIDE DEF A, B, W, x, y
<1>4. x * y \in Nat  BY <1>2
<1>5. x * y < B
  <2>1. x * y <= x * A  BY <1>1, <1>2
  <2>2. x * A < A * A  BY <1>1, <1>2
  <2>3. x * A \in Nat /\ A * A \in Nat  BY <1>1, <1>2
  <2> QED  BY <1>1, <1>4, <2>1, <2>2, <2>3
<1>6. x * y < W  BY <1>1, <1>4, <1>5
<1>7. x > 0 /\ y > 0 => x * y > 0  BY <1>2
<1>8. p.e + q.e \in Int  BY <1>2
<1> QED  BY <1>3, <1>4, <1>5, <1>6, <1>7, <1>8 DEF x, y, B, W

LEMMA AddResult ==
    ASSUME NEW f \in Formats, NEW a \in Int, NEW b \in Int, NEW rm, NEW negate
    PROVE  IsResult(f, add_or_sub(f, a, b, rm, negate))
<1> DEFINE p == unpack(f, a)
           q == Flip(unpack(f, b), negate)
           r == add_or_sub(f, a, b, rm, negate)
<1>1. Operand(p, f.sig + 1) /\ Operand(q, f.sig + 1)  BY UnpackOperand, FlipOperand
<1>2. r = AddUnpacked(f, a, p, b, q, rm)  BY DEF add_or_sub
<1> HIDE DEF p, q, r
<1>3. CASE is_nan(p) \/ is_nan(q)
  BY <1>2, <1>3, NanResult DEF AddUnpacked, r
<1>4. CASE ~ (is_nan(p) \/ is_nan(q)) /\ (is_inf(p) \/ is_inf(q))
  <2>1. r = invalid(f) \/ r = Exact(inf(f, IF is_inf(p) THEN p.sign ELSE q.sign))
    BY <1>2, <1>4 DEF AddUnpacked
  <2> QED  BY <2>1, NanResult, SpecialPatterns, ExactResult DEF r
<1>5. CASE ~ (is_nan(p) \/ is_nan(q)) /\ ~ (is_inf(p) \/ is_inf(q)) /\ (is_zero(p) \/ is_zero(q))
  <2>1. \/ r = SumOfZeros(f, p.sign, q.sign, rm)
        \/ r = Exact(WithSign(f, q.sign, b))
        \/ r = Exact(Masked(f, a))
    BY <1>2, <1>5 DEF AddUnpacked
  <2> QED  BY <2>1, ZerosResult, SignResult, MaskedType, ExactResult DEF r
<1>6. CASE ~ (is_nan(p) \/ is_nan(q)) /\ ~ (is_inf(p) \/ is_inf(q)) /\ ~ (is_zero(p) \/ is_zero(q))
  <2> DEFINE s == add_raw(p, q)
  <2>1. r = RoundSum(f, s, rm)  BY <1>2, <1>6 DEF AddUnpacked
  <2>2. s.m \in Nat /\ s.m < 2^Word /\ s.e \in Int  BY <1>1, OperandWidths, AddRawFits
  <2> HIDE DEF s
  <2> QED  BY <2>1, <2>2, RoundSumResult DEF r
<1> QED  BY <1>3, <1>4, <1>5, <1>6

LEMMA MulResult ==
    ASSUME NEW f \in Formats, NEW a \in Int, NEW b \in Int, NEW rm
    PROVE  IsResult(f, mul(f, a, b, rm))
<1> DEFINE p == unpack(f, a)
           q == unpack(f, b)
           sign == Negative(f, a) # Negative(f, b)
           r == mul(f, a, b, rm)
<1>1. Operand(p, f.sig + 1) /\ Operand(q, f.sig + 1)  BY UnpackOperand
<1>2. r = MulUnpacked(f, p, q, sign, rm)  BY DEF mul
<1>3. p.m * q.m \in Nat /\ p.m * q.m < 2^Word /\ p.e + q.e \in Int  BY <1>1, ProductFits
<1> HIDE DEF p, q, r, sign
<1>4. \/ r = nan_result(f, {p, q}) \/ r = invalid(f)
      \/ r = Exact(inf(f, sign)) \/ r = Exact(zero(f, sign))
      \/ r = round_pack(f, sign, p.m * q.m, p.e + q.e, rm)
  BY <1>2 DEF MulUnpacked
<1> QED  BY <1>3, <1>4, NanResult, SpecialPatterns, ExactResult, RoundResult DEF r

LEMMA FusedResult ==
    ASSUME NEW f \in Formats, NEW a \in Int, NEW b \in Int, NEW c \in Int,
           NEW np \in BOOLEAN, NEW na, NEW rm
    PROVE  IsResult(f, fma(f, a, b, c, np, na, rm))
<1> DEFINE p == unpack(f, a)
           q == unpack(f, b)
           sp == (Negative(f, a) # Negative(f, b)) # np
           t == Flip(unpack(f, c), na)
           r == fma(f, a, b, c, np, na, rm)
           x == Product(p, q, sp)
           k == 2 * f.sig + 2
<1>1. Operand(p, f.sig + 1) /\ Operand(q, f.sig + 1) /\ Operand(t, f.sig + 1)
  BY UnpackOperand, FlipOperand
<1>2. r = FusedUnpacked(f, p, q, sp, c, t, rm)  BY DEF fma
<1>3. sp \in BOOLEAN  OBVIOUS
<1>4. /\ p.m * q.m \in Nat /\ p.m * q.m < 2^k /\ p.m * q.m < 2^Word /\ p.e + q.e \in Int
      /\ p.cls = "Num" /\ q.cls = "Num" => p.m * q.m > 0
  BY <1>1, ProductFits
<1>5. k \in 0 .. Word /\ k <= Word - 2  BY OperandWidths
<1>6. Operand(t, k)  BY <1>1, WiderOperand
<1> HIDE DEF p, q, sp, t, r, k
<1>7. CASE ZeroTimesInf(p, q) \/ is_nan(p) \/ is_nan(q) \/ is_nan(t) \/ is_inf(p) \/ is_inf(q) \/ is_inf(t)
  <2>1. \/ r = invalid(f) \/ r = nan_result(f, {p, q, t})
        \/ r = Exact(inf(f, sp)) \/ r = Exact(inf(f, t.sign))
    BY <1>2, <1>7 DEF FusedUnpacked
  <2> QED  BY <2>1, NanResult, SpecialPatterns, ExactResult DEF r
<1>8. CASE ~ (ZeroTimesInf(p, q) \/ is_nan(p) \/ is_nan(q) \/ is_nan(t) \/ is_inf(p) \/ is_inf(q) \/ is_inf(t))
  <2>1. r = FusedFinite(f, x, c, t, rm)  BY <1>2, <1>8 DEF FusedUnpacked
  <2>2. CASE is_zero(p) \/ is_zero(q)
    <3>1. x = Special(sp, "Zero")  BY <2>2 DEF Product
    <3>2. is_zero(x)  BY <3>1 DEF Special, is_zero
    <3> HIDE DEF x
    <3>3. r = SumOfZeros(f, x.sign, t.sign, rm) \/ r = Exact(WithSign(f, t.sign, c))
      BY <2>1, <3>2 DEF FusedFinite
    <3> QED  BY <3>3, ZerosResult, SignResult, ExactResult DEF r
  <2>3. CASE ~ (is_zero(p) \/ is_zero(q))
    <3>1. x = Num(sp, p.m * q.m, p.e + q.e)  BY <2>3 DEF Product
    <3>2. p.cls = "Num" /\ q.cls = "Num"
      BY <1>1, <1>8, <2>3 DEF Operand, Unpackings, is_nan, is_inf, is_zero
    <3> DEFINE m == p.m * q.m
               e == p.e + q.e
    <3>3. m \in Nat /\ m > 0 /\ m < 2^k /\ m < 2^Word /\ e \in Int  BY <1>4, <3>2
    <3> HIDE DEF m, e
    <3>4. x = Num(sp, m, e)  BY <3>1 DEF m, e
    <3> HIDE DEF x
    <3>5. Operand(x, k)  BY <1>3, <3>3, <3>4, NumOperand
    <3>6. x.m = m /\ x.e = e /\ x.cls = "Num"  BY <3>4 DEF Num
    <3>7. CASE is_zero(t)
      <4>1. r = round_pack(f, x.sign, x.m, x.e, rm)
        BY <2>1, <3>6, <3>7 DEF FusedFinite, is_zero
      <4> QED  BY <3>3, <3>6, <4>1, RoundResult DEF r
    <3>8. CASE ~ is_zero(t)
      <4> DEFINE s == add_raw(x, t)
      <4>1. r = RoundSum(f, s, rm)  BY <2>1, <3>6, <3>8 DEF FusedFinite, is_zero
      <4>2. s.m \in Nat /\ s.m < 2^Word /\ s.e \in Int  BY <1>5, <1>6, <3>5, AddRawFits
      <4> HIDE DEF s
      <4> QED  BY <4>1, <4>2, RoundSumResult DEF r
    <3> QED  BY <3>7, <3>8
  <2> QED  BY <2>2, <2>3
<1> QED  BY <1>7, <1>8

LEMMA ShiftFacts ==
    ASSUME NEW f \in Formats
    PROVE  /\ Shift \in Nat /\ Shift + 1 \in 0 .. Word /\ Shift \in 0 .. Word
           /\ f.sig + 1 + Shift + 1 \in 0 .. Word /\ f.sig + 1 + Shift + 1 <= Word - 1
           /\ f.sig + 1 \in 0 .. Word
<1>1. f.sig \in Nat /\ f.sig >= 2 /\ f.sig + 3 <= Word \div 2 /\ Word \in Nat
  BY FormatFacts, WideInWord
<1>2. Shift = Word \div 2  BY DEF Shift
<1> QED  BY <1>1, <1>2

\* A significand shifted by half a word or one more leaves the top bit clear.
LEMMA ShiftedFits ==
    ASSUME NEW f \in Formats, NEW p, Operand(p, f.sig + 1), NEW j \in {Shift, Shift + 1}
    PROVE  /\ p.m * 2^j \in Nat /\ p.m * 2^j < 2^(Word - 1)
           /\ p.m > 0 => p.m * 2^j > 0
<1> DEFINE s == f.sig + 1
           A == 2^s
           J == 2^j
           B == 2^(s + j)
           H == 2^(Word - 1)
           x == p.m
<1>0. Word \in Nat  BY WideInWord
<1>1. j \in 0 .. Word /\ s \in 0 .. Word /\ s + j \in 0 .. Word /\ s + j <= Word - 1
      /\ Word - 1 \in 0 .. Word
  BY <1>0, ShiftFacts
<1>2. A \in Nat /\ J \in Nat \ {0} /\ B = A * J /\ B <= H /\ H \in Nat
  BY <1>1, WordPowerType, WordPowerSum, PowerMonotone
<1>3. x \in Nat /\ x < A  BY DEF Operand, Unpackings
<1> HIDE DEF A, J, B, H, x
<1>4. x * J \in Nat /\ A * J \in Nat  BY <1>2, <1>3
<1>5. x * J < A * J  BY <1>2, <1>3
<1>6. x * J < H  BY <1>2, <1>4, <1>5
<1>7. x > 0 => x * J > 0  BY <1>2, <1>3
<1> QED  BY <1>4, <1>6, <1>7 DEF x, J, H

LEMMA TopOfWord ==
    /\ 2^(Word - 1) \in Nat \ {0, 1} /\ 2^Word = 2 * 2^(Word - 1) /\ 2^(Word - 1) < 2^Word
<1> DEFINE H == 2^(Word - 1)
           F == 2^(Word - 2)
           W == 2^Word
<1>1. Word \in Nat /\ Word >= 2  BY AluAssumption, WideInWord, FormatAssumption
<1>2. /\ Word - 1 \in 0 .. Word /\ Word - 1 < Word /\ (Word - 1) + 1 = Word
      /\ Word - 2 \in 0 .. Word /\ Word - 2 < Word /\ (Word - 2) + 1 = Word - 1
  BY <1>1
<1>3. F \in Nat \ {0}  BY <1>2, WordPowerType
<1>4. W = 2 * H  BY <1>2, WordPowerNext
<1>5. H = 2 * F  BY <1>2, WordPowerNext
<1> HIDE DEF F, H, W
<1>6. H \in Nat \ {0, 1} /\ H < W  BY <1>3, <1>4, <1>5
<1> QED  BY <1>4, <1>6 DEF H, W

\* Setting a sticky bit does not leave a word whose top bit is clear.
LEMMA StickyFits ==
    ASSUME NEW v \in Nat, v <= 2^(Word - 1), NEW lost
    PROVE  Sticky(v, lost) \in Nat /\ Sticky(v, lost) < 2^Word
<1> DEFINE H == 2^(Word - 1)
           W == 2^Word
<1>1. H \in Nat \ {0, 1} /\ W = 2 * H /\ v <= H  BY TopOfWord
<1>2. Sticky(v, lost) \in {v, v + 1}  BY DEF Sticky
<1> HIDE DEF H, W
<1>3. Sticky(v, lost) \in Nat /\ Sticky(v, lost) < W  BY <1>1, <1>2
<1> QED  BY <1>3 DEF W

LEMMA DivResult ==
    ASSUME NEW f \in Formats, NEW a \in Int, NEW b \in Int, NEW rm
    PROVE  IsResult(f, div(f, a, b, rm))
<1> DEFINE p == unpack(f, a)
           q == unpack(f, b)
           sign == Negative(f, a) # Negative(f, b)
           r == div(f, a, b, rm)
           num == p.m * 2^Shift
           m == Quotient(num, q.m)
           e == p.e - q.e - Shift
<1>1. Operand(p, f.sig + 1) /\ Operand(q, f.sig + 1)  BY UnpackOperand
<1>2. r = DivUnpacked(f, p, q, sign, rm)  BY DEF div
<1> HIDE DEF p, q, r, sign
<1>3. CASE \/ is_nan(p) \/ is_nan(q) \/ is_inf(p) \/ is_inf(q) \/ is_zero(p) \/ is_zero(q)
  <2>1. \/ r = nan_result(f, {p, q}) \/ r = invalid(f)
        \/ r = Exact(inf(f, sign)) \/ r = Exact(zero(f, sign))
        \/ r = [v |-> inf(f, sign), flags |-> {"DZ"}]
    BY <1>2, <1>3 DEF DivUnpacked
  <2>2. IsResult(f, [v |-> inf(f, sign), flags |-> {"DZ"}])
    BY SpecialPatterns DEF IsResult, FLAGS
  <2> QED  BY <2>1, <2>2, NanResult, SpecialPatterns, ExactResult DEF r
<1>4. CASE ~ (\/ is_nan(p) \/ is_nan(q) \/ is_inf(p) \/ is_inf(q) \/ is_zero(p) \/ is_zero(q))
  <2>1. r = round_pack(f, sign, m, e, rm)  BY <1>2, <1>4 DEF DivUnpacked
  <2>2. q.cls = "Num"
    BY <1>1, <1>4 DEF Operand, Unpackings, is_nan, is_inf, is_zero
  <2>3. q.m \in Nat \ {0} /\ p.e \in Int /\ q.e \in Int  BY <1>1, <2>2 DEF Operand, Unpackings
  <2>4. num \in Nat /\ num < 2^(Word - 1)  BY <1>1, ShiftedFits
  <2> DEFINE H == 2^(Word - 1)
             t == num \div q.m
             d == q.m
  <2>5. t \in Nat /\ t <= 2^(Word - 1)
    <3>1. H \in Nat /\ num < H /\ d \in Nat \ {0}  BY <2>3, <2>4, TopOfWord
    <3> HIDE DEF H, num, d
    <3>2. num \div d \in Nat /\ num \div d <= num  BY <2>4, <3>1
    <3>3. num \div d <= H  BY <2>4, <3>1, <3>2
    <3> QED  BY <3>2, <3>3 DEF H, d
  <2> HIDE DEF t
  <2>6. m \in Nat /\ m < 2^Word  BY <2>5, StickyFits DEF Quotient, t
  <2>7. e \in Int  BY <2>3, ShiftFacts
  <2> HIDE DEF m, e
  <2> QED  BY <2>1, <2>6, <2>7, RoundResult DEF r
<1> QED  BY <1>3, <1>4

\* A step of Newton's iteration that does not rise goes strictly down.
LEMMA NewtonFalls ==
    ASSUME NEW n \in Nat \ {0}, NEW x \in Nat \ {0}, ~ ((x + n \div x) \div 2 >= x)
    PROVE  (x + n \div x) \div 2 \in 1 .. x - 1
<1> DEFINE y == n \div x
<1>1. y \in Nat  OBVIOUS
<1>2. x = 1 => y = n  OBVIOUS
<1> HIDE DEF y
<1>3. ~ ((x + y) \div 2 >= x)  BY DEF y
<1>4. (x + y) \div 2 \in 1 .. x - 1
  <2>1. CASE x = 1
    <3>1. (1 + n) \div 2 >= 1  OBVIOUS
    <3> QED  BY <1>2, <1>3, <2>1, <3>1
  <2>2. CASE x # 1
    <3>1. x >= 2  BY <2>2
    <3> QED  BY <1>1, <1>3, <3>1
  <2> QED  BY <2>1, <2>2
<1> QED  BY <1>4 DEF y

\* Newton's iteration is defined everywhere.
LEMMA NewtonUnfolds ==
    ASSUME NEW n \in Nat \ {0}, NEW T \in Nat \ {0}, T = 2^((bit_len(n) + 1) \div 2)
    PROVE  \E from : /\ Newton(n) = from[T]
                     /\ \A x \in 1 .. T : from[x] = IF (x + n \div x) \div 2 >= x THEN x
                                                    ELSE from[(x + n \div x) \div 2]
<1> DEFINE nx(x) == (x + n \div x) \div 2
           Body(g, x) == IF nx(x) >= x THEN x ELSE g[nx(x)]
           IsFrom(g, k) == g = [x \in 1 .. k |-> Body(g, x)]
           from == CHOOSE g : IsFrom(g, T)
           Z == {k \in 0 .. T : \E g : IsFrom(g, k)}
<1>1. Newton(n) = from[T]  BY DEF Newton
<1>2. ASSUME NEW x \in Nat \ {0}, ~ (nx(x) >= x) PROVE nx(x) \in 1 .. x - 1
  BY <1>2, NewtonFalls
<1> HIDE DEF nx
<1>3. 0 \in Z
  <2> DEFINE g == [x \in 1 .. 0 |-> 0]
  <2>1. 1 .. 0 = {}  OBVIOUS
  <2>2. IsFrom(g, 0)  BY <2>1
  <2> HIDE DEF g, IsFrom
  <2> QED  BY <2>2
<1>4. ASSUME NEW k \in 0 .. T - 1, k \in Z PROVE k + 1 \in Z
  <2>1. PICK g : IsFrom(g, k)  BY <1>4
  <2> DEFINE h == [x \in 1 .. k + 1 |-> IF x = k + 1 THEN Body(g, k + 1) ELSE g[x]]
  <2>2. k \in Nat /\ k + 1 \in 0 .. T  OBVIOUS
  <2>3. ASSUME NEW x \in 1 .. k + 1 PROVE h[x] = Body(h, x)
    <3>0. x \in Nat \ {0}  BY <2>2
    <3>1. ~ (nx(x) >= x) => nx(x) \in 1 .. x - 1  BY <1>2, <3>0
    <3>2. ~ (nx(x) >= x) => nx(x) \in 1 .. k + 1 /\ nx(x) # k + 1  BY <2>2, <3>1
    <3>3. ~ (nx(x) >= x) => h[nx(x)] = g[nx(x)]  BY <3>2
    <3>4. h[x] = IF x = k + 1 THEN Body(g, k + 1) ELSE g[x]  OBVIOUS
    <3> HIDE DEF h
    <3>5. Body(h, x) = Body(g, x)  BY <3>3
    <3>6. CASE x = k + 1
      <4> HIDE DEF Body
      <4> QED  BY <3>4, <3>5, <3>6
    <3>7. CASE x # k + 1
      <4>1. x \in 1 .. k  BY <2>2, <3>7
      <4> HIDE DEF Body
      <4>2. g[x] = Body(g, x)  BY <2>1, <4>1
      <4> QED  BY <3>4, <3>5, <3>7, <4>2
    <3> QED  BY <3>6, <3>7
  <2>4. h = [x \in 1 .. k + 1 |-> h[x]]  OBVIOUS
  <2> HIDE DEF h, Body
  <2>5. IsFrom(h, k + 1)  BY <2>3, <2>4
  <2> HIDE DEF IsFrom
  <2> QED  BY <2>2, <2>5
<1> HIDE DEF IsFrom
<1>5. \A k \in 0 .. T : k \in Z
  <2> HIDE DEF Z
  <2> QED  BY <1>3, <1>4, Counting
<1>6. IsFrom(from, T)  BY <1>5
<1> HIDE DEF from, Z
<1>7. \A x \in 1 .. T : from[x] = Body(from, x)
  <2> HIDE DEF Body
  <2> QED  BY <1>6 DEF IsFrom
<1> QED  BY <1>1, <1>7 DEF nx

\* It never leaves where it starts.
LEMMA NewtonRange ==
    ASSUME NEW n \in Nat \ {0}, NEW T \in Nat \ {0}, T = 2^((bit_len(n) + 1) \div 2)
    PROVE  Newton(n) \in 1 .. T
<1> DEFINE nx(x) == (x + n \div x) \div 2
<1>1. PICK from : /\ Newton(n) = from[T]
                  /\ \A x \in 1 .. T : from[x] = IF nx(x) >= x THEN x ELSE from[nx(x)]
  BY NewtonUnfolds
<1>2. ASSUME NEW x \in Nat \ {0}, ~ (nx(x) >= x) PROVE nx(x) \in 1 .. x - 1
  BY <1>2, NewtonFalls
<1> HIDE DEF nx
<1> DEFINE Y == {k \in 0 .. T : \A x \in 1 .. k : from[x] \in 1 .. T}
<1>3. 0 \in Y  OBVIOUS
<1>4. ASSUME NEW k \in 0 .. T - 1, k \in Y PROVE k + 1 \in Y
  <2>1. k + 1 \in 0 .. T /\ k + 1 \in 1 .. T /\ k + 1 \in Nat \ {0} /\ (k + 1) - 1 = k  OBVIOUS
  <2> DEFINE x == k + 1
             y == nx(x)
  <2>2. from[x] = IF y >= x THEN x ELSE from[y]  BY <1>1, <2>1
  <2>3. ~ (y >= x) => y \in 1 .. k  BY <1>2, <2>1
  <2>4. \A z \in 1 .. k : from[z] \in 1 .. T  BY <1>4
  <2> HIDE DEF y
  <2>5. from[x] \in 1 .. T  BY <2>1, <2>2, <2>3, <2>4
  <2>6. \A z \in 1 .. k + 1 : z \in 1 .. k \/ z = k + 1  OBVIOUS
  <2>7. \A z \in 1 .. k + 1 : from[z] \in 1 .. T  BY <2>4, <2>5, <2>6
  <2> QED  BY <2>1, <2>7
<1>5. \A k \in 0 .. T : k \in Y
  <2> HIDE DEF Y
  <2> QED  BY <1>3, <1>4, Counting
<1>6. T \in Y  BY <1>5
<1>7. T \in 1 .. T  OBVIOUS
<1> QED  BY <1>1, <1>6, <1>7

LEMMA SqrtResult ==
    ASSUME NEW f \in Formats, NEW a \in Int, NEW rm PROVE IsResult(f, sqrt(f, a, rm))
<1> DEFINE p == unpack(f, a)
           r == sqrt(f, a, rm)
           j == EvenShift(p.e)
           n == p.m * 2^j
           m == Root(n)
           e == (p.e - j) \div 2
<1>1. Operand(p, f.sig + 1)  BY UnpackOperand
<1>2. r = SqrtUnpacked(f, p, rm)  BY DEF sqrt
<1> HIDE DEF p, r
<1>3. \/ r = nan_result(f, {p}) \/ r = invalid(f)
      \/ r = Exact(inf(f, FALSE)) \/ r = Exact(zero(f, p.sign))
      \/ r = round_pack(f, FALSE, m, e, rm)
  BY <1>2 DEF SqrtUnpacked
<1>4. j \in {Shift, Shift + 1}  BY DEF EvenShift
<1>5. n \in Nat /\ n < 2^(Word - 1)
  <2> HIDE DEF j
  <2> QED  BY <1>1, <1>4, ShiftedFits
<1>6. e \in Int
  <2>1. p.e \in Int /\ j \in Int  BY <1>1, <1>4, ShiftFacts DEF Operand, Unpackings
  <2> HIDE DEF j
  <2> QED  BY <2>1
<1> HIDE DEF n, e, j
<1>7. isqrt(n) \in Nat /\ isqrt(n) <= 2^(Word - 1)
  <2>1. CASE n = 0
    <3>1. isqrt(n) = 0  BY <2>1 DEF isqrt
    <3> DEFINE H == 2^(Word - 1)
    <3>2. H \in Nat  BY TopOfWord
    <3> HIDE DEF H
    <3>3. 0 <= H  BY <3>2
    <3> QED  BY <3>1, <3>3 DEF H
  <2>2. CASE n # 0
    <3> DEFINE b == bit_len(n)
               k == (b + 1) \div 2
               T == 2^k
               H == 2^(Word - 1)
               W == 2^Word
    <3>1. n < 2^Word
      <4>1. H \in Nat /\ n < H /\ H < W /\ W \in Nat  BY <1>5, TopOfWord
      <4> HIDE DEF H, W
      <4>2. n < W  BY <1>5, <4>1
      <4> QED  BY <4>2 DEF W
    <3>2. b \in 0 .. Word  BY <1>5, <3>1, BitLength
    <3>3. Word \in Nat /\ Word >= 3
      <4>1. Word \in Nat /\ f.sig \in Nat /\ 2 * f.sig + 8 <= Word  BY FormatFacts, WideInWord
      <4> QED  BY <4>1
    <3>4. k \in 0 .. Word /\ k <= Word - 1 /\ Word - 1 \in 0 .. Word
      <4> HIDE DEF b
      <4> QED  BY <3>2, <3>3
    <3>5. T \in Nat \ {0} /\ T <= H /\ H \in Nat  BY <3>4, WordPowerType, PowerMonotone
    <3>6. Newton(n) \in 1 .. T  BY <1>5, <2>2, <3>5, NewtonRange
    <3>7. isqrt(n) = Newton(n)  BY <2>2 DEF isqrt
    <3> HIDE DEF T, H
    <3>8. isqrt(n) \in Nat /\ isqrt(n) <= H  BY <3>5, <3>6, <3>7
    <3> QED  BY <3>8 DEF H
  <2> QED  BY <2>1, <2>2
<1>8. m \in Nat /\ m < 2^Word  BY <1>7, StickyFits DEF Root
<1> HIDE DEF m
<1> QED  BY <1>3, <1>6, <1>8, NanResult, SpecialPatterns, ExactResult, RoundResult DEF r

LEMMA ConvertResult ==
    ASSUME NEW f \in Formats, NEW g \in Formats, NEW a \in Int, NEW rm
    PROVE  IsResult(g, convert(f, g, a, rm))
<1> DEFINE p == unpack(f, a)
           r == convert(f, g, a, rm)
<1>1. Operand(p, f.sig + 1)  BY UnpackOperand
<1>2. p.m \in Nat /\ p.e \in Int /\ p.m < 2^Word
  BY <1>1, WiderOperand DEF Operand, Unpackings
<1>3. r = ConvertUnpacked(g, p, rm)  BY DEF convert
<1> HIDE DEF p, r
<1>4. \/ r = nan_result(g, {p}) \/ r = Exact(inf(g, p.sign)) \/ r = Exact(zero(g, p.sign))
      \/ r = round_pack(g, p.sign, p.m, p.e, rm)
  BY <1>3 DEF ConvertUnpacked
<1> QED  BY <1>2, <1>4, NanResult, SpecialPatterns, ExactResult, RoundResult DEF r

LEMMA MinMaxResult ==
    ASSUME NEW f \in Formats, NEW a \in Int, NEW b \in Int, NEW want
    PROVE  IsResult(f, min_max(f, a, b, want))
<1> DEFINE r == min_max(f, a, b, want)
<1>1. r.v \in {nan(f), Masked(f, a), Masked(f, b)}  BY DEF min_max
<1>2. r.flags \subseteq {"NV"}  BY DEF min_max
<1> HIDE DEF r
<1> QED  BY <1>1, <1>2, SpecialPatterns, MaskedType DEF IsResult, FLAGS, r

LEMMA CompareResult ==
    ASSUME NEW f, NEW a, NEW b, NEW w
    PROVE  /\ eq(f, a, b).v \in Int /\ eq(f, a, b).flags \subseteq FLAGS
           /\ lt(f, a, b, w).v \in Int /\ lt(f, a, b, w).flags \subseteq FLAGS
<1>1. \A t : Truth(t) \in {0, 1}  BY DEF Truth
<1>2. eq(f, a, b).v \in {0, 1} /\ eq(f, a, b).flags \subseteq {"NV"}  BY <1>1 DEF eq
<1>3. lt(f, a, b, w).v \in {0, 1} /\ lt(f, a, b, w).flags \subseteq {"NV"}
  <2>1. CASE EitherNan(f, a, b)  BY <2>1 DEF lt
  <2>2. CASE ~ EitherNan(f, a, b)  BY <1>1, <2>2 DEF lt, Exact
  <2> QED  BY <2>1, <2>2
<1> QED  BY <1>2, <1>3 DEF FLAGS

LEMMA ToIntResult ==
    ASSUME NEW f \in Formats, NEW a \in Int, NEW w \in Widths, NEW signed, NEW rm
    PROVE  LET r == to_int(f, a, w, signed, rm) IN r.v \in Int /\ r.flags \subseteq FLAGS
<1> DEFINE p == unpack(f, a)
           r == to_int(f, a, w, signed, rm)
           M == 2^w
           H == 2^(w - 1)
<1>1. Operand(p, f.sig + 1)  BY UnpackOperand
<1>2. p.m \in Nat /\ p.e \in Int /\ p.m < 2^Word
  BY <1>1, WiderOperand DEF Operand, Unpackings
<1>3. r = ToIntUnpacked(p, w, signed, rm)  BY DEF to_int
<1>4. M \in Nat /\ H \in Nat  BY WidthPowers
<1>5. ASSUME NEW sign
      PROVE  Saturated(sign, w, signed).v \in Int /\ Saturated(sign, w, signed).flags = {"NV"}
  <2>1. Saturated(sign, w, signed).v \in {- H, - 0, H - 1, M - 1}
    BY DEF Saturated, min_mag, max_pos
  <2>2. Saturated(sign, w, signed).flags = {"NV"}  BY DEF Saturated
  <2> HIDE DEF H, M
  <2> QED  BY <1>4, <2>1, <2>2
<1> HIDE DEF p, r
<1>6. CASE \E sign : r = Saturated(sign, w, signed)
  BY <1>5, <1>6 DEF FLAGS, r
<1>7. CASE r = Exact(0)  BY <1>7 DEF Exact, r
<1>8. CASE ~ (p.e >= 0 /\ bit_len(p.m) + p.e > Word - 1)
           /\ r = round_to_int(Split(p.m, - p.e), p.sign, rm, w, signed)
  <2> DEFINE s == Split(p.m, - p.e)
             q == RoundedQuotient(rm, p.sign, s)
             b == bit_len(p.m)
  <2>1. b \in 0 .. Word  BY <1>2, BitLength
  <2> HIDE DEF b
  <2>2. Word \in Nat  BY WideInWord
  <2>3. - p.e \in Int /\ - (- p.e) <= Word
    <3>1. ~ (p.e >= 0 /\ b + p.e > Word - 1)  BY <1>8 DEF b
    <3> QED  BY <1>2, <2>1, <2>2, <3>1
  <2>4. s.q \in Nat  BY <1>2, <2>3, SplitType
  <2> HIDE DEF s
  <2>5. q \in Nat  BY <2>4, QuotientType
  <2>6. r = InRange(p.sign, q, Inexact(s), w, signed)  BY <1>8 DEF round_to_int, s
  <2> HIDE DEF q
  <2>7. \/ r = Saturated(p.sign, w, signed)
        \/ r.v \in {- q, q} /\ r.flags \subseteq {"NX"}
    BY <2>6 DEF InRange
  <2>8. CASE r = Saturated(p.sign, w, signed)  BY <1>6, <2>8
  <2>9. CASE r.v \in {- q, q} /\ r.flags \subseteq {"NX"}
    <3>1. r.v \in Int  BY <2>5, <2>9
    <3> QED  BY <2>9, <3>1 DEF FLAGS, r
  <2> QED  BY <2>7, <2>8, <2>9
<1> QED  BY <1>3, <1>6, <1>7, <1>8 DEF ToIntUnpacked

LEMMA FromIntResult ==
    ASSUME NEW f \in Formats, NEW sign, NEW x \in Int, NEW rm, - 2^Wide < x, x < 2^Wide
    PROVE  IsResult(f, from_int(f, sign, Abs(x), rm))
<1> DEFINE V == 2^Wide
           W == 2^Word
           m == Abs(x)
<1>1. Wide \in 0 .. Word /\ Word \in 0 .. Word /\ Wide <= Word  BY WideInWord, FormatAssumption
<1>2. V \in Nat /\ W \in Nat /\ V <= W /\ - V < x /\ x < V
  BY <1>1, WordPowerType, PowerMonotone
<1> HIDE DEF V, W
<1>3. m \in Nat /\ m < V  BY <1>2 DEF Abs
<1> HIDE DEF m
<1>4. m < W  BY <1>2, <1>3
<1>5. m < 2^Word /\ 0 \in Int  BY <1>4 DEF W
<1>6. IsResult(f, round_pack(f, sign, m, 0, rm))  BY <1>3, <1>5, RoundResult
<1> QED  BY <1>6 DEF from_int, m

LEMMA ClassType ==
    ASSUME NEW f, NEW a PROVE 2^classify(f, a) \in Int
<1> DEFINE c == classify(f, a)
<1>1. c \in 0 .. 9  BY DEF classify, ClassOf
<1>2. Word \in Nat /\ Word >= 10
  <2>1. S.sig >= 2 /\ S.sig \in Nat /\ S.sig + 3 <= Word \div 2 /\ Word \in Nat
    BY FormatFacts, WideInWord DEF Formats
  <2> QED  BY <2>1
<1> HIDE DEF c
<1>3. c \in 0 .. Word  BY <1>1, <1>2
<1>4. 2^c \in Nat  BY <1>3, WordPowerType
<1> DEFINE P == 2^c
<1> HIDE DEF P
<1>5. P \in Int  BY <1>4 DEF P
<1> QED  BY <1>5 DEF P, c

-----------------------------------------------------------------------------
(* Registers hold register values *)

\* A shift amount of either width is one.
LEMMA ShiftInRange ==
    ASSUME NEW w \in Widths, NEW b PROVE and(b, w - 1) \in 0 .. Wide
<1> DEFINE n == w - 1
           W == 2^Wide
<1>0. n \in Nat /\ n <= Wide /\ Wide \in Nat  BY AluAssumption DEF Widths
<1>1. W \in Nat /\ Wide < W  BY <1>0, Powers, PowerExceeds
<1>2. n < 2^Wide
  <2> HIDE DEF W, n
  <2>1. n < W  BY <1>0, <1>1
  <2> QED  BY <2>1 DEF W
<1> HIDE DEF n
<1>3. Number(Bits(n)) = n  BY <1>0, <1>2, NumberOfBits
<1>4. Number(Bits(b) \cap Bits(n)) \in Nat /\ Number(Bits(b) \cap Bits(n)) <= n
  BY <1>3, NumberGrows
<1>5. and(b, n) \in Nat /\ and(b, n) <= n  BY <1>4 DEF and
<1>6. and(b, n) \in 0 .. Wide  BY <1>0, <1>5
<1> QED  BY <1>6 DEF n

LEMMA AluType ==
    ASSUME NEW w \in Widths, NEW op \in AluOps, NEW a \in Int, NEW b \in Int
    PROVE  alu(op, a, b, w) \in Int
<1> DEFINE s == and(b, w - 1)
           x == AluValue(op, a, b, s, w)
           P == 2^s
           sa == Signed(a, w)
           ta == trunc(a, w)
<1>1. s \in 0 .. Wide  BY ShiftInRange
<1>2. P \in Nat \ {0}  BY <1>1, PowerType
<1>3. sa \in Int /\ ta \in Int  BY Operands
<1>4. \A ks : Number(ks) \in Nat
  <2> SUFFICES ASSUME NEW ks PROVE Number(ks) \in Nat  OBVIOUS
  <2>1. ks \in SUBSET ks  OBVIOUS
  <2> QED  BY <2>1, NumberGrows
<1>5. alu(op, a, b, w) = sext(x, w)  BY DEF alu
<1>6. x \in Int
  <2>1. CASE op \in {"XOR", "OR", "AND"}  BY <1>4, <2>1 DEF AluValue, xor, or, and
  <2>2. CASE op \in {"ADD", "SUB"}  BY <2>2 DEF AluValue
  <2>3. CASE op \in {"SLT", "SLTU"}  BY <2>3 DEF AluValue
  <2>4. CASE op = "SLL"
    <3>1. x = a * P  BY <2>4 DEF AluValue
    <3> HIDE DEF x, P
    <3> QED  BY <1>2, <3>1
  <2>5. CASE op = "SRL"
    <3>1. x = ta \div P  BY <2>5 DEF AluValue, ShiftRight
    <3> HIDE DEF x, P, ta
    <3> QED  BY <1>2, <1>3, <3>1
  <2>6. CASE op = "SRA"
    <3>1. x = sa \div P  BY <2>6 DEF AluValue
    <3> HIDE DEF x, P, sa
    <3> QED  BY <1>2, <1>3, <3>1
  <2> QED  BY <2>1, <2>2, <2>3, <2>4, <2>5, <2>6 DEF AluOps
<1> HIDE DEF x
<1> QED  BY <1>5, <1>6, SextKeeps

LEMMA MulDivType ==
    ASSUME NEW w \in Widths, NEW op \in MulDivOps, NEW a \in Int, NEW b \in Int
    PROVE  muldiv(op, a, b, w) \in Int
BY MulDivInt, SextKeeps DEF muldiv

\* A floating-point context the hart can hold.
IsContext(fr, fc) ==
    /\ DOMAIN fr = 0 .. 2 /\ \A r \in 0 .. 2 : fr[r] \in 0 .. 2^Wide - 1
    /\ fc \subseteq WRITABLE

\* What an instruction leaves of the registers.
StateKept ==
    /\ regs' \in [1 .. 2 -> 0 .. 2^xb - 1]
    /\ IsContext(fregs', fcsr')
    /\ fs' \in 0 .. 3

LEMMA HartTypes ==
    ASSUME TypeOK
    PROVE  /\ xb \in Widths
           /\ \A r \in 1 .. 2 : regs[r] \in Int
           /\ \A r \in 0 .. 2 : fregs[r] \in Int /\ fregs[r] \in 0 .. 2^Wide - 1
           /\ regs \in [1 .. 2 -> 0 .. 2^xb - 1]
           /\ IsContext(fregs, fcsr) /\ fs \in 0 .. 3
           /\ 2^Wide \in Nat \ {0} /\ 2^xb \in Nat \ {0}
<1>1. guest \in DOMAIN Guests  BY DEF TypeOK
<1>2. xb \in Widths  BY <1>1, CounterAssumption DEF xb, G, Widths
<1>3. 2^xb \in Nat \ {0} /\ 2^Wide \in Nat \ {0}  BY <1>2, WidthPowers, Powers
<1>4. /\ regs \in [1 .. 2 -> 0 .. 2^xb - 1]
      /\ IsContext(fregs, fcsr) /\ fs \in 0 .. 3
  BY DEF TypeOK, IsContext
<1>5. \A r \in 1 .. 2 : regs[r] \in Int  BY <1>3, <1>4
<1>6. \A r \in 0 .. 2 : fregs[r] \in Int  BY <1>3, <1>4 DEF IsContext
<1> QED  BY <1>2, <1>3, <1>4, <1>5, <1>6 DEF IsContext

LEMMA UnboxType ==
    ASSUME NEW v \in Int PROVE unbox(v) \in Int
<1> DEFINE K == 2^Narrow
           N == 2^S.bits
<1>1. K \in Nat \ {0}  BY Powers
<1>2. nan(S) \in 0 .. N - 1 /\ N \in Nat
  <2>1. S \in Formats  BY DEF Formats
  <2>2. S.bits \in Widths  BY <2>1, FormatFacts
  <2> QED  BY <2>1, <2>2, SpecialPatterns, WidthPowers DEF Patterns
<1>3. unbox(v) = v % K \/ unbox(v) = nan(S)  BY DEF unbox
<1> HIDE DEF K, N
<1> QED  BY <1>1, <1>2, <1>3

\* A pattern of the instruction's format, boxed, is a register value.
LEMMA BoxedType ==
    ASSUME NEW i, i.fmt \in {"S", "D"}, NEW v \in Int,
           i.fmt = "D" => v \in 0 .. 2^Wide - 1
    PROVE  Boxed(i, v) \in 0 .. 2^Wide - 1
<1>1. CASE i.fmt = "D"  BY <1>1 DEF Boxed
<1>2. CASE i.fmt = "S"
  <2> DEFINE K == 2^Narrow
             W == 2^Wide
             J == W \div K
  <2>1. K \in Nat \ {0} /\ W \in Nat \ {0} /\ W = K * J  BY Powers
  <2>2. Boxed(i, v) = (W - K) + (v % K)  BY <1>2 DEF Boxed, box32
  <2>3. J \in Int  BY <2>1
  <2> HIDE DEF J
  <2> SUFFICES Boxed(i, v) \in 0 .. W - 1  OBVIOUS
  <2> HIDE DEF K, W
  <2>4. K <= W  BY <2>1, <2>3
  <2>5. v % K \in 0 .. K - 1  BY <2>1
  <2> QED  BY <2>1, <2>2, <2>4, <2>5
<1> QED  BY <1>1, <1>2

LEMMA FmtFacts ==
    ASSUME TypeOK, NEW i, i.fmt \in {"S", "D"}
    PROVE  /\ fp_fmt(i) \in Formats /\ OtherFmt(i) \in Formats
           /\ \A r \in 0 .. 2 : freg(i, r) \in Int
           /\ i.rs1 \in 0 .. 2 => OtherOperand(i) \in Int
           /\ \A v \in Patterns(fp_fmt(i)) : Boxed(i, v) \in 0 .. 2^Wide - 1
<1>1. fp_fmt(i) \in Formats /\ OtherFmt(i) \in Formats  BY DEF fp_fmt, OtherFmt, Formats
<1>2. \A r \in 0 .. 2 : fregs[r] \in Int  BY HartTypes
<1>3. \A r \in 0 .. 2 : freg(i, r) \in Int  BY <1>2, UnboxType DEF freg
<1>4. i.rs1 \in 0 .. 2 => OtherOperand(i) \in Int  BY <1>2, UnboxType DEF OtherOperand
<1>5. ASSUME NEW v \in Patterns(fp_fmt(i)) PROVE Boxed(i, v) \in 0 .. 2^Wide - 1
  <2>1. fp_fmt(i).bits \in Widths  BY <1>1, FormatFacts
  <2>2. v \in Int
    <3> DEFINE N == 2^fp_fmt(i).bits
    <3>1. N \in Nat /\ v \in 0 .. N - 1  BY <2>1, WidthPowers DEF Patterns
    <3> HIDE DEF N
    <3> QED  BY <3>1
  <2>3. i.fmt = "D" => fp_fmt(i).bits = Wide  BY FormatAssumption DEF fp_fmt, D
  <2>4. i.fmt = "D" => v \in 0 .. 2^Wide - 1  BY <2>3 DEF Patterns
  <2> QED  BY <2>2, <2>4, BoxedType
<1> QED  BY <1>1, <1>3, <1>4, <1>5

LEMMA WrKeeps ==
    ASSUME TypeOK, NEW r, NEW v \in Int, wr(r, v)
    PROVE  regs' \in [1 .. 2 -> 0 .. 2^xb - 1]
<1>1. trunc(v, xb) \in 0 .. 2^xb - 1  BY HartTypes, TruncRange
<1>2. regs \in [1 .. 2 -> 0 .. 2^xb - 1]  BY HartTypes
<1>3. regs' = [regs EXCEPT ![r] = trunc(v, xb)]  BY DEF wr
<1> DEFINE R == 0 .. 2^xb - 1
           t == trunc(v, xb)
<1> HIDE DEF R, t
<1> QED  BY <1>1, <1>2, <1>3 DEF R, t

LEMMA FwKeeps ==
    ASSUME TypeOK, NEW r, NEW v \in 0 .. 2^Wide - 1, fregs' = [fregs EXCEPT ![r] = v],
           fcsr' \subseteq WRITABLE
    PROVE  IsContext(fregs', fcsr')
<1> DEFINE R == 0 .. 2^Wide - 1
<1>1. DOMAIN fregs = 0 .. 2 /\ (\A x \in 0 .. 2 : fregs[x] \in R) /\ v \in R
  BY HartTypes DEF IsContext
<1> HIDE DEF R
<1>2. DOMAIN fregs' = 0 .. 2 /\ \A x \in 0 .. 2 : fregs'[x] \in R  BY <1>1
<1> QED  BY <1>2 DEF IsContext, R

LEMMA IntegerKeeps ==
    ASSUME TypeOK, NEW i, NEW a, NEW b, NEW v \in Int, IntegerResult(i, a, b, v)
    PROVE  StateKept
<1>1. regs' \in [1 .. 2 -> 0 .. 2^xb - 1]  BY WrKeeps DEF IntegerResult
<1>2. UNCHANGED fpVars  BY DEF IntegerResult
<1> QED  BY <1>1, <1>2, HartTypes DEF StateKept, fpVars

LEMMA FpKeeps ==
    ASSUME TypeOK, NEW i, i.fmt \in {"S", "D"}, NEW a, NEW b, NEW c, NEW r,
           IsResult(fp_fmt(i), r), FpResult(i, a, b, c, r)
    PROVE  StateKept
<1>1. Boxed(i, r.v) \in 0 .. 2^Wide - 1  BY FmtFacts DEF IsResult
<1>2. fcsr' \subseteq WRITABLE /\ fs' \in 0 .. 3
  BY DEF FpResult, set_fflags, IsResult, WRITABLE, TypeOK, Dirty
<1>3. fregs' = [fregs EXCEPT ![i.rd] = Boxed(i, r.v)] /\ UNCHANGED regs  BY DEF FpResult
<1>4. IsContext(fregs', fcsr')  BY <1>1, <1>2, <1>3, FwKeeps
<1> QED  BY <1>2, <1>3, <1>4, HartTypes DEF StateKept

LEMMA ToIntegerKeeps ==
    ASSUME TypeOK, NEW i, NEW a, NEW b, NEW v \in Int, NEW r, r.flags \subseteq FLAGS,
           FpToInteger(i, a, b, v, r)
    PROVE  StateKept
<1>1. regs' \in [1 .. 2 -> 0 .. 2^xb - 1]  BY WrKeeps DEF FpToInteger
<1>2. fcsr' \subseteq WRITABLE /\ fs' \in 0 .. 3 /\ UNCHANGED fregs
  BY DEF FpToInteger, set_fflags, WRITABLE, TypeOK, Dirty
<1> QED  BY <1>1, <1>2, HartTypes DEF StateKept, IsContext

LEMMA MoveKeeps ==
    ASSUME TypeOK, NEW i, NEW a, NEW b, NEW v \in 0 .. 2^Wide - 1, FpMove(i, a, b, v)
    PROVE  StateKept
<1>1. fregs' = [fregs EXCEPT ![i.rd] = v] /\ fs' \in 0 .. 3 /\ UNCHANGED <<regs, fcsr>>
  BY DEF FpMove, fw, Dirty
<1>2. fcsr' \subseteq WRITABLE  BY <1>1 DEF TypeOK
<1>3. IsContext(fregs', fcsr')  BY <1>1, <1>2, FwKeeps
<1> QED  BY <1>1, <1>3, HartTypes DEF StateKept

LEMMA NothingKeeps ==
    ASSUME TypeOK, UNCHANGED <<regs, fpVars>> PROVE StateKept
BY HartTypes DEF StateKept, fpVars

\* An integer operand is smaller than a register's power, of either sign.
LEMMA OperandRange ==
    ASSUME NEW w \in Widths, NEW x \in Int
    PROVE  /\ Signed(x, w) \in Int /\ - 2^Wide < Signed(x, w) /\ Signed(x, w) < 2^Wide
           /\ trunc(x, w) \in Int /\ - 2^Wide < trunc(x, w) /\ trunc(x, w) < 2^Wide
<1> DEFINE M == 2^w
           H == 2^(w - 1)
           W == 2^Wide
           s == Signed(x, w)
           t == trunc(x, w)
<1>1. M \in Nat \ {0} /\ H \in Nat /\ H >= 2 /\ M = 2 * H /\ W \in Nat \ {0}
  BY WidthPowers, Powers
<1>2. PICK J \in Int : W = M * J  BY WidthPowers
<1>3. s \in - H .. H - 1 /\ t \in 0 .. M - 1  BY SignedRange, TruncRange
<1> SUFFICES s \in Int /\ - W < s /\ s < W /\ t \in Int /\ - W < t /\ t < W  OBVIOUS
<1> HIDE DEF M, H, W, s, t
<1>4. M <= W  BY <1>1, <1>2
<1> QED  BY <1>1, <1>3, <1>4

\* What decoding says of the instruction a step runs.
LEMMA Decoded ==
    ASSUME TypeOK, NEW i \in G.insts
    PROVE  /\ i.kind = "OP" => i.rs1 \in 1 .. 2 /\ i.rs2 \in 1 .. 2
           /\ i.kind = "OP-IMM" => i.rs1 \in 1 .. 2 /\ i.imm \in Int
           /\ i.kind = "AMO" => i.rs2 \in 1 .. 2 /\ i.old \in Int
           /\ i.kind \in {"OP-FP", "FMADD"} =>
                i.rs1 \in 1 .. 2 /\ i.rs2 \in 1 .. 2 /\ "rm" \in DOMAIN i /\ i.rm \in 0 .. 7
           /\ i.kind = "FMADD" => i.rs3 \in 0 .. 2
           /\ i.kind = "LOAD-FP" => i.old \in Int /\ i.old \in 0 .. 2^Wide - 1
           /\ i.kind = "FP-CSR" => i.csr \in {"fflags", "frm", "fcsr"}
           /\ Width(i) \in Widths
<1>1. guest \in DOMAIN Guests  BY DEF TypeOK
<1>2. 2^Wide \in Nat  BY Powers
<1>3. Width(i) \in Widths  BY HartTypes DEF Width, Widths
<1>4. /\ i.kind = "OP" => i.rs1 \in 1 .. 2 /\ i.rs2 \in 1 .. 2
      /\ i.kind = "OP-IMM" => i.rs1 \in 1 .. 2 /\ i.imm \in Int
      /\ i.kind = "AMO" => i.rs2 \in 1 .. 2 /\ i.old \in Nat
      /\ i.kind \in {"OP-FP", "FMADD"} =>
           i.rs1 \in 1 .. 2 /\ i.rs2 \in 1 .. 2 /\ "rm" \in DOMAIN i /\ i.rm \in 0 .. 7
      /\ i.kind = "FMADD" => i.rs3 \in 0 .. 2
      /\ i.kind = "LOAD-FP" => i.old \in 0 .. 2^Wide - 1
      /\ i.kind = "FP-CSR" => i.csr \in {"fflags", "frm", "fcsr"}
  BY <1>1, DecodeAssumption DEF G
<1> QED  BY <1>2, <1>3, <1>4

LEMMA OpFpKeeps ==
    ASSUME TypeOK, NEW i \in G.insts, i.kind = "OP-FP", OpFp(i) PROVE StateKept
<1>1. CASE Illegal(i)  BY <1>1, NothingKeeps DEF Illegal, Trapped
<1>2. ASSUME i.fmt \in {"S", "D"}, execute_op_fp(i) PROVE StateKept
  <2> USE <1>2
  <2> DEFINE f == fp_fmt(i)
             a == freg(i, i.rs1)
             b == freg(i, i.rs2)
             m == rounding(i)
  <2>0. i.rs1 \in 1 .. 2 /\ i.rs2 \in 1 .. 2 /\ i.rs1 \in 0 .. 2 /\ i.rs2 \in 0 .. 2  BY Decoded
  <2>1. f \in Formats /\ OtherFmt(i) \in Formats /\ a \in Int /\ b \in Int
        /\ OtherOperand(i) \in Int
    BY <2>0, FmtFacts
  <2>2. regs[i.rs1] \in Int /\ fregs[i.rs1] \in Int  BY <2>0, HartTypes
  <2>3. IntWidth(i) \in Widths  BY DEF IntWidth, Widths
  <2> HIDE DEF f, a, b, m
  <2>4. CASE i.op \in {"FADD", "FSUB", "FMUL", "FDIV", "FSQRT"}
    <3>1. CASE Illegal(i)  BY <1>1, <3>1
    <3>2. CASE FpResult(i, a, b, 0, Arithmetic(i, a, b, m))
      <4>1. IsResult(f, Arithmetic(i, a, b, m))
        <5>1. CASE i.op \in {"FADD", "FSUB"}
          BY <2>1, <5>1, AddResult DEF Arithmetic, add, sub, f
        <5>2. CASE i.op = "FMUL"  BY <2>1, <5>2, MulResult DEF Arithmetic, f
        <5>3. CASE i.op = "FDIV"  BY <2>1, <5>3, DivResult DEF Arithmetic, f
        <5>4. CASE i.op = "FSQRT"  BY <2>1, <5>4, SqrtResult DEF Arithmetic, f
        <5> QED  BY <2>4, <5>1, <5>2, <5>3, <5>4
      <4> QED  BY <3>2, <4>1, FpKeeps DEF f
    <3> QED  BY <2>4, <3>1, <3>2 DEF execute_op_fp, a, b, m
  <2>5. CASE i.op \in {"FSGNJ", "FSGNJN", "FSGNJX"}
    <3> DEFINE s == InjectedSign(i, Negative(f, a), Negative(f, b))
    <3>1. FpMove(i, a, b, Boxed(i, WithSign(f, s, a)))
      BY <2>5 DEF execute_op_fp, a, b, f
    <3> HIDE DEF s
    <3>2. WithSign(f, s, a) \in Patterns(f)  BY <2>1, SignResult
    <3>3. Boxed(i, WithSign(f, s, a)) \in 0 .. 2^Wide - 1  BY <3>2, FmtFacts DEF f
    <3> QED  BY <3>1, <3>3, MoveKeeps
  <2>6. CASE i.op \in {"FMIN", "FMAX"}
    <3> DEFINE want == i.op = "FMAX"
    <3>1. FpResult(i, a, b, 0, min_max(f, a, b, want))
      BY <2>6 DEF execute_op_fp, a, b, f
    <3> HIDE DEF want
    <3>2. IsResult(f, min_max(f, a, b, want))  BY <2>1, MinMaxResult
    <3> QED  BY <3>1, <3>2, FpKeeps DEF f
  <2>7. CASE i.op = "FCVT.F.F"
    <3> DEFINE r == convert(OtherFmt(i), f, OtherOperand(i), m)
    <3>1. Illegal(i) \/ FpResult(i, OtherOperand(i), 0, 0, r)
      BY <2>7 DEF execute_op_fp, f, m
    <3>2. IsResult(f, r)  BY <2>1, ConvertResult
    <3> HIDE DEF r
    <3> QED  BY <1>1, <3>1, <3>2, FpKeeps DEF f
  <2>8. CASE i.op \in {"FLE", "FLT", "FEQ"}
    <3> DEFINE r == Compared(i, a, b)
    <3>1. FpToInteger(i, a, b, r.v, r)  BY <2>8 DEF execute_op_fp, a, b
    <3>2. r.v \in Int /\ r.flags \subseteq FLAGS
      <4>1. CASE i.op = "FLE"  BY <4>1, CompareResult DEF Compared
      <4>2. CASE i.op = "FLT"  BY <4>2, CompareResult DEF Compared
      <4>3. CASE i.op = "FEQ"  BY <4>3, CompareResult DEF Compared
      <4> QED  BY <2>8, <4>1, <4>2, <4>3
    <3> HIDE DEF r
    <3> QED  BY <3>1, <3>2, ToIntegerKeeps
  <2>9. CASE i.op = "FCVT.X.F"
    <3> DEFINE w == IntWidth(i)
               r == to_int(f, a, w, IntSigned(i), m)
    <3>1. Illegal(i) \/ FpToInteger(i, a, 0, sext(r.v, w), r)
      BY <2>9 DEF execute_op_fp, a, f, m
    <3>2. r.v \in Int /\ r.flags \subseteq FLAGS  BY <2>1, <2>3, ToIntResult
    <3> HIDE DEF r, w
    <3>3. sext(r.v, w) \in Int  BY <2>3, <3>2, SextKeeps DEF w
    <3> QED  BY <1>1, <3>1, <3>2, <3>3, ToIntegerKeeps
  <2>10. CASE i.op = "FCVT.F.X"
    <3> DEFINE x == IntOperand(i, regs[i.rs1])
               r == from_int(f, x < 0, Abs(x), m)
    <3>1. Illegal(i) \/ FpResult(i, regs[i.rs1], 0, 0, r)
      BY <2>10 DEF execute_op_fp, f, m
    <3>2. x \in Int /\ - 2^Wide < x /\ x < 2^Wide  BY <2>2, <2>3, OperandRange DEF IntOperand
    <3> HIDE DEF x
    <3>3. IsResult(f, r)  BY <2>1, <3>2, FromIntResult
    <3> HIDE DEF r
    <3> QED  BY <1>1, <3>1, <3>3, FpKeeps DEF f
  <2>11. CASE i.op = "FMV.X.F"
    <3> DEFINE v == IF i.fmt = "S" THEN sext(fregs[i.rs1], Narrow) ELSE fregs[i.rs1]
    <3>1. Illegal(i) \/ IntegerResult(i, fregs[i.rs1], 0, v)  BY <2>11 DEF execute_op_fp
    <3>2. v \in Int  BY <2>2, NarrowIsWidth, SextKeeps
    <3> HIDE DEF v
    <3> QED  BY <1>1, <3>1, <3>2, IntegerKeeps
  <2>12. CASE i.op = "FCLASS"
    <3> DEFINE v == 2^classify(f, a)
    <3>1. IntegerResult(i, a, 0, v)  BY <2>12 DEF execute_op_fp, f, a
    <3>2. v \in Int  BY ClassType
    <3> HIDE DEF v
    <3> QED  BY <3>1, <3>2, IntegerKeeps
  <2>13. CASE i.op = "FMV.F.X"
    <3> DEFINE v == Boxed(i, regs[i.rs1])
    <3>1. Illegal(i) \/ (~ (i.fmt = "D" /\ xb = Narrow) /\ FpMove(i, regs[i.rs1], 0, v))
      BY <2>13 DEF execute_op_fp
    <3>2. ASSUME ~ (i.fmt = "D" /\ xb = Narrow) PROVE v \in 0 .. 2^Wide - 1
      <4>1. i.fmt = "D" => xb = Wide  BY <3>2, HartTypes DEF Widths
      <4>2. i.fmt = "D" => regs[i.rs1] \in 0 .. 2^Wide - 1  BY <2>0, <4>1, HartTypes
      <4> QED  BY <2>2, <4>2, BoxedType
    <3> HIDE DEF v
    <3> QED  BY <1>1, <3>1, <3>2, MoveKeeps
  <2>14. CASE i.op \notin {"FADD", "FSUB", "FMUL", "FDIV", "FSQRT", "FSGNJ", "FSGNJN", "FSGNJX",
                           "FMIN", "FMAX", "FCVT.F.F", "FLE", "FLT", "FEQ", "FCVT.X.F",
                           "FCVT.F.X", "FMV.X.F", "FCLASS", "FMV.F.X"}
    BY <1>1, <2>14 DEF execute_op_fp
  <2> QED
    BY <2>4, <2>5, <2>6, <2>7, <2>8, <2>9, <2>10, <2>11, <2>12, <2>13, <2>14
<1> QED  BY <1>1, <1>2 DEF OpFp

\* No instruction puts anything but register values in the registers.
LEMMA ExecuteKeeps ==
    ASSUME TypeOK, NEW i \in G.insts, execute(i) PROVE StateKept
<1>1. Illegal(i) \/ Trapped => StateKept  BY NothingKeeps DEF Illegal, Trapped
<1>2. CASE i.kind = "OP" /\ Op(i)
  <2> DEFINE a == regs[i.rs1]
             b == regs[i.rs2]
             w == Width(i)
  <2>1. a \in Int /\ b \in Int /\ w \in Widths  BY <1>2, Decoded, HartTypes
  <2> HIDE DEF a, b, w
  <2>2. \/ Illegal(i)
        \/ i.op \in MulDivOps /\ IntegerResult(i, a, b, muldiv(i.op, a, b, w))
        \/ i.op \in AluOps /\ IntegerResult(i, a, b, alu(i.op, a, b, w))
    BY <1>2 DEF Op, a, b, w
  <2> QED  BY <1>1, <2>1, <2>2, AluType, MulDivType, IntegerKeeps
<1>3. CASE i.kind = "OP-IMM" /\ OpImm(i)
  <2> DEFINE a == regs[i.rs1]
             b == i.imm % 2^Wide
             w == Width(i)
  <2>1. a \in Int /\ w \in Widths /\ i.imm \in Int  BY <1>3, Decoded, HartTypes
  <2>2. b \in Int
    <3> DEFINE W == 2^Wide
    <3>1. W \in Nat \ {0}  BY Powers
    <3> HIDE DEF W
    <3>2. i.imm % W \in Int  BY <2>1, <3>1
    <3> QED  BY <3>2 DEF W
  <2> HIDE DEF a, b, w
  <2>3. Illegal(i) \/ (i.op \in AluOps /\ IntegerResult(i, a, b, alu(i.op, a, b, w)))
    BY <1>3 DEF OpImm, a, b, w
  <2> QED  BY <1>1, <2>1, <2>2, <2>3, AluType, IntegerKeeps
<1>4. CASE i.kind = "BRANCH" /\ Branch(i)  BY <1>4, NothingKeeps DEF Branch
<1>5. CASE i.kind = "AMO" /\ AmoOp(i)
  <2> DEFINE v == sext(i.old, Width(i))
  <2>1. v \in Int  BY <1>5, Decoded, SextKeeps
  <2>2. Illegal(i) \/ (wr(i.rd, v) /\ UNCHANGED fpVars)  BY <1>5 DEF AmoOp
  <2> HIDE DEF v
  <2>3. CASE wr(i.rd, v) /\ UNCHANGED fpVars
    <3>1. regs' \in [1 .. 2 -> 0 .. 2^xb - 1]  BY <2>1, <2>3, WrKeeps
    <3> QED  BY <2>3, <3>1, HartTypes DEF StateKept, fpVars
  <2> QED  BY <1>1, <2>2, <2>3
<1>6. CASE i.kind = "OP-FP" /\ OpFp(i)  BY <1>6, OpFpKeeps
<1>7. CASE i.kind = "FMADD" /\ Fused(i)
  <2> DEFINE f == fp_fmt(i)
             a == freg(i, i.rs1)
             b == freg(i, i.rs2)
             c == freg(i, i.rs3)
             np == NegatesProduct(i)
             na == NegatesAddend(i)
             r == fma(f, a, b, c, np, na, rounding(i))
  <2>1. Illegal(i) \/ (i.fmt \in {"S", "D"} /\ FpResult(i, a, b, c, r))  BY <1>7 DEF Fused
  <2>2. ASSUME i.fmt \in {"S", "D"} PROVE IsResult(f, r)
    <3>1. i.rs1 \in 0 .. 2 /\ i.rs2 \in 0 .. 2 /\ i.rs3 \in 0 .. 2  BY <1>7, Decoded
    <3>2. f \in Formats /\ a \in Int /\ b \in Int /\ c \in Int  BY <2>2, <3>1, FmtFacts
    <3>3. np \in BOOLEAN  BY DEF NegatesProduct
    <3> HIDE DEF f, a, b, c, np, na
    <3> QED  BY <3>2, <3>3, FusedResult
  <2> HIDE DEF a, b, c, r
  <2> QED  BY <1>1, <2>1, <2>2, FpKeeps
<1>8. CASE i.kind = "LOAD-FP" /\ LoadFp(i)
  <2> DEFINE v == Boxed(i, i.old)
  <2>1. \/ Illegal(i) \/ Trapped
        \/ i.fmt \in {"S", "D"} /\ FpMove(i, i.old, 0, v)
    BY <1>8 DEF LoadFp
  <2>2. i.fmt \in {"S", "D"} => v \in 0 .. 2^Wide - 1  BY <1>8, Decoded, BoxedType
  <2> HIDE DEF v
  <2> QED  BY <1>1, <2>1, <2>2, MoveKeeps
<1>9. CASE i.kind = "FP-CSR" /\ FpCsr(i)
  <2>1. Field(i) \subseteq WRITABLE  BY <1>9, Decoded DEF Field, WRITABLE
  <2>2. CASE Illegal(i)  BY <1>1, <2>2
  <2>3. CASE ~ Illegal(i)
    <3>1. /\ fcsr' \subseteq fcsr \cup Field(i) /\ fs' \in {fs, Dirty}
          /\ UNCHANGED <<regs, fregs>>
      BY <1>9, <2>3 DEF FpCsr
    <3>2. fcsr' \subseteq WRITABLE /\ fs' \in 0 .. 3  BY <2>1, <3>1 DEF TypeOK, Dirty
    <3> QED  BY <3>1, <3>2, HartTypes DEF StateKept, IsContext
  <2> QED  BY <2>2, <2>3
<1>10. CASE i.kind = "INSTRET" /\ CsrInstret(i)
  BY <1>1, <1>10, NothingKeeps DEF CsrInstret, InstretWrite
<1> QED
  BY <1>2, <1>3, <1>4, <1>5, <1>6, <1>7, <1>8, <1>9, <1>10 DEF execute

\* With the contexts the kernel has saved, which FirstUse loads.
StateInv ==
    /\ TypeOK
    /\ DOMAIN saved = G.processes
    /\ \A p \in G.processes : IsContext(saved[p][1], saved[p][2])

LEMMA InitState == Init => StateInv
<1> SUFFICES ASSUME Init PROVE StateInv  OBVIOUS
<1>1. guest \in DOMAIN Guests  BY DEF Init
<1>2. /\ G.initRegs \subseteq [1 .. 2 -> 0 .. 2^xb - 1]
      /\ G.initFregs \subseteq [0 .. 2 -> 0 .. 2^Wide - 1]
      /\ G.fs \in 0 .. 3 /\ G.steps \in Nat
  BY <1>1, ResetAssumption DEF G, xb
<1>3. G.instret \in 0 .. 2^Wide - 1  BY <1>1, CounterAssumption DEF G
<1>4. regs \in [1 .. 2 -> 0 .. 2^xb - 1]  BY <1>2 DEF Init
<1>5. IsContext(fregs, fcsr)
  <2> DEFINE R == 0 .. 2^Wide - 1
  <2>1. fregs \in [0 .. 2 -> R] /\ fcsr = {}  BY <1>2 DEF Init
  <2> HIDE DEF R
  <2>2. DOMAIN fregs = 0 .. 2 /\ \A r \in 0 .. 2 : fregs[r] \in R  BY <2>1
  <2> QED  BY <2>1, <2>2 DEF IsContext, R
<1>6. fs \in 0 .. 3 /\ minstret \in 0 .. 2^Wide - 1 /\ cur \in G.processes  BY <1>2, <1>3 DEF Init
<1>7. steps \in 0 .. G.steps  BY <1>2 DEF Init
<1>8. TypeOK  BY <1>1, <1>4, <1>5, <1>6, <1>7 DEF TypeOK, IsContext
<1>9. saved = [p \in G.processes |-> <<fregs, fcsr>>]  BY DEF Init, Context
<1>10. /\ DOMAIN saved = G.processes
       /\ \A p \in G.processes : saved[p][1] = fregs /\ saved[p][2] = fcsr
  BY <1>9
<1> QED  BY <1>5, <1>8, <1>10 DEF StateInv

LEMMA NextState ==
    ASSUME StateInv, CounterInv', [Next]_vars PROVE StateInv'
<1>1. guest' = guest  BY DEF Next, Fetch, Step, Switch, FirstUse, vars
<1>2. G' = G /\ xb' = xb  BY <1>1 DEF G, xb
<1>3. TypeOK /\ guest \in DOMAIN Guests /\ cur \in G.processes  BY DEF StateInv, TypeOK
<1>4. minstret' \in 0 .. 2^Wide - 1  BY DEF CounterInv
<1>5. steps' \in 0 .. G.steps
  <2>1. G.steps \in Nat  BY <1>3, ResetAssumption DEF G
  <2>2. steps \in 0 .. G.steps  BY <1>3 DEF TypeOK
  <2>3. steps' = steps \/ (steps < G.steps /\ steps' = steps + 1)
    BY DEF Next, Fetch, Step, Switch, FirstUse, vars
  <2> QED  BY <2>1, <2>2, <2>3
<1>6. ASSUME StateKept, cur' \in G.processes, DOMAIN saved' = G.processes,
             \A p \in G.processes : IsContext(saved'[p][1], saved'[p][2])
      PROVE  StateInv'
  <2>1. TypeOK'
    BY <1>1, <1>2, <1>3, <1>4, <1>5, <1>6 DEF StateKept, IsContext, TypeOK
  <2> QED  BY <1>2, <1>6, <2>1 DEF StateInv, IsContext
<1>7. ASSUME StateKept, UNCHANGED kernelVars PROVE StateInv'
  BY <1>3, <1>6, <1>7 DEF kernelVars, StateInv
<1>8. CASE Step
  <2>1. StateKept  BY <1>3, <1>8, ExecuteKeeps DEF Step
  <2> QED  BY <1>7, <1>8, <2>1 DEF Step
<1>9. CASE Fetch \/ UNCHANGED vars
  <2>1. UNCHANGED <<regs, fpVars>> /\ UNCHANGED kernelVars
    BY <1>9 DEF Fetch, vars, fpVars, kernelVars
  <2> QED  BY <1>3, <1>7, <2>1, NothingKeeps
<1>10. CASE Switch
  <2>1. /\ cur' \in G.processes
        /\ saved' = IF fs = Dirty THEN [saved EXCEPT ![cur] = <<fregs, fcsr>>] ELSE saved
        /\ fs' = 0 /\ UNCHANGED <<regs, fregs, fcsr>>
    BY <1>10 DEF Switch, Off, Context
  <2>2. StateKept  BY <1>3, <2>1, HartTypes DEF StateKept
  <2>3. IsContext(fregs, fcsr)  BY <1>3, HartTypes
  <2>4. DOMAIN saved' = G.processes  BY <2>1 DEF StateInv
  <2>5. ASSUME NEW p \in G.processes PROVE IsContext(saved'[p][1], saved'[p][2])
    <3>1. saved'[p] = saved[p] \/ saved'[p] = <<fregs, fcsr>>  BY <2>1 DEF StateInv
    <3>2. CASE saved'[p] = saved[p]  BY <3>2 DEF StateInv
    <3>3. CASE saved'[p] = <<fregs, fcsr>>  BY <2>3, <3>3
    <3> QED  BY <3>1, <3>2, <3>3
  <2> QED  BY <1>6, <2>1, <2>2, <2>4, <2>5
<1>11. CASE FirstUse
  <2>1. /\ fregs' = saved[cur][1] /\ fcsr' = saved[cur][2] /\ fs' = 2
        /\ UNCHANGED regs /\ UNCHANGED kernelVars
    BY <1>11 DEF FirstUse, Clean
  <2>2. IsContext(fregs', fcsr')  BY <1>3, <2>1 DEF StateInv
  <2>3. StateKept  BY <1>3, <2>1, <2>2, HartTypes DEF StateKept
  <2> QED  BY <1>7, <2>1, <2>3
<1> QED  BY <1>8, <1>9, <1>10, <1>11 DEF Next

\* Every register holds a value of its width and the floating-point state only
\* what its fields can hold, after any program: a result is truncated to the
\* hart's width, whatever rounding, saturation and boxing did to it, the flags
\* an operation raises are those of fcsr, and a context the kernel loads back
\* is one the hart could hold (cpu.rs wr, fw, set_fflags; fpu.rs round_pack).
THEOREM ExecuteTypeCorrect == Spec => []TypeOK
<1>1. Init => CounterInv
  BY CounterAssumption DEF Init, CounterInv, CountsRetired, G
<1>2. StateInv /\ CounterInv /\ [Next]_vars => (StateInv /\ CounterInv)'
  BY NextCounter, NextState
<1>3. StateInv => TypeOK  BY DEF StateInv
<1> QED  BY <1>1, <1>2, <1>3, InitState, PTL DEF Spec

-----------------------------------------------------------------------------
(* The integer results *)

\* At every width and for every operand, the two halves of a product are the
\* product, and a quotient and its remainder make up the dividend, by zero and
\* at overflow too (cpu.rs muldiv).
THEOREM MulDivExact == Spec => []DivisionAndHalves
<1>1. TypeOK /\ (DivisionAndHalves /\ OrdersAgree) /\ [Next]_vars
        => (DivisionAndHalves /\ OrdersAgree)'
  BY NextTraces
<1> QED  BY <1>1, InitTraces, ExecuteTypeCorrect, PTL DEF Spec

\* Branches, set-if-less and the atomic minima and maxima agree on what is
\* less, at every width and for every operand (cpu.rs execute, alu, and the AMO
\* arithmetic).
THEOREM OneOrder == Spec => []OrdersAgree
<1>1. TypeOK /\ (DivisionAndHalves /\ OrdersAgree) /\ [Next]_vars
        => (DivisionAndHalves /\ OrdersAgree)'
  BY NextTraces
<1> QED  BY <1>1, InitTraces, ExecuteTypeCorrect, PTL DEF Spec

\* The W form of every integer operation is the RV32 operation on the low
\* halves, sign-extended, at every pair of widths and for every operand (cpu.rs
\* alu and muldiv).
THEOREM NarrowForms == Spec => []NarrowIsRv32
<1>1. Init => NarrowIsRv32
  <2> SUFFICES ASSUME Init PROVE NarrowIsRv32  OBVIOUS
  <2>1. last.inst = [kind |-> "none"]  BY DEF Init, NoInst
  <2>2. last.inst.kind = "none"  BY <2>1
  <2> QED  BY <2>2 DEF NarrowIsRv32
<1>2. TypeOK /\ NarrowIsRv32 /\ [Next]_vars => NarrowIsRv32'  BY NextNarrow
<1> QED  BY <1>1, <1>2, ExecuteTypeCorrect, PTL DEF Spec

-----------------------------------------------------------------------------
(* Patterns are ordered as the numbers they stand for *)

\* The infinity is the last magnitude that counts.
LEMMA InfinityIs ==
    ASSUME NEW f \in Formats
    PROVE  /\ Infinity(f) = (2^exp_bits(f) - 1) * 2^f.sig /\ Infinity(f) \in Nat
           /\ max_field(f) = 2^exp_bits(f) - 1
<1> DEFINE A == 2^f.sig
           E == 2^exp_bits(f)
<1>1. A \in Nat \ {0} /\ E \in Nat /\ E >= 4  BY FormatPowers
<1>2. Infinity(f) = (E - 1) * A + 0 /\ max_field(f) = E - 1
  BY DEF Infinity, inf, zero, max_field
<1> SUFFICES Infinity(f) = (E - 1) * A /\ Infinity(f) \in Nat /\ max_field(f) = E - 1  OBVIOUS
<1> HIDE DEF A, E
<1>3. (E - 1) * A \in Nat  BY <1>1
<1> QED  BY <1>2, <1>3

LEMMA MaxOfFour ==
    ASSUME NEW a \in Int, NEW b \in Int, NEW c \in Int, NEW d \in Int
    PROVE  LET m == Max({a, b, c, d}) IN m \in Int /\ m >= a /\ m >= b /\ m >= c /\ m >= d
<1> DEFINE T == {a, b, c, d}
<1>1. \E x \in T : \A y \in T : x >= y  OBVIOUS
<1>2. Max(T) \in T /\ \A y \in T : Max(T) >= y
  <2> HIDE DEF T
  <2> QED  BY <1>1 DEF Max
<1> QED  BY <1>2

\* The exponents a format's operations meet are within reach.
LEMMA Reaches ==
    ASSUME NEW f \in Formats
    PROVE  /\ Reach \in Nat /\ bias(f) \in Nat \ {0} /\ max_field(f) = 2 * bias(f) + 1
           /\ Word + bias(f) + f.sig <= Reach /\ 3 * (bias(f) + f.sig) <= Reach
<1>1. ASSUME NEW g \in Formats
      PROVE  bias(g) \in Nat \ {0} /\ max_field(g) = 2 * bias(g) + 1
  <2> DEFINE H == 2^(exp_bits(g) - 1)
  <2>1. exp_bits(g) \in 2 .. Word /\ exp_bits(g) - 1 \in 0 .. Word
    BY FormatFacts, WideInWord DEF exp_bits
  <2>2. H \in Nat \ {0} /\ 2^exp_bits(g) = 2 * H
    <3>1. (exp_bits(g) - 1) + 1 = exp_bits(g) /\ exp_bits(g) - 1 < Word  BY <2>1, WideInWord
    <3> QED  BY <2>1, <3>1, WordPowerType, WordPowerNext
  <2>3. 2^exp_bits(g) >= 4  BY FormatPowers
  <2>4. bias(g) = H - 1 /\ max_field(g) = 2^exp_bits(g) - 1  BY DEF bias, max_field
  <2> HIDE DEF H
  <2> QED  BY <2>2, <2>3, <2>4
<1> DEFINE a == Word + bias(S) + S.sig
           b == 3 * (bias(S) + S.sig)
           c == Word + bias(D) + D.sig
           d == 3 * (bias(D) + D.sig)
<1>2. /\ Word \in Nat /\ S.sig \in Nat /\ D.sig \in Nat /\ bias(S) \in Nat /\ bias(D) \in Nat
  BY <1>1, FormatFacts, WideInWord DEF Formats
<1>3. a \in Int /\ b \in Int /\ c \in Int /\ d \in Int /\ a >= 0  BY <1>2
<1>4. UNION {{Word + bias(g) + g.sig, 3 * (bias(g) + g.sig)} : g \in {S, D}} = {a, b, c, d}
  OBVIOUS
<1>5. Reach = Max({a, b, c, d})  BY <1>4 DEF Reach
<1> HIDE DEF a, b, c, d
<1>6. Reach \in Int /\ Reach >= a /\ Reach >= b /\ Reach >= c /\ Reach >= d
  BY <1>3, <1>5, MaxOfFour
<1> QED  BY <1>1, <1>3, <1>6 DEF Formats, a, b, c, d

\* The laws of powers, as far as exponents reach.
LEMMA ReachType ==
    ASSUME NEW j \in 0 .. Reach, Reach \in Nat PROVE 2^j \in Nat \ {0}
<1>1. 0 \in 0 .. Reach /\ j + 0 <= Reach  OBVIOUS
<1> QED  BY <1>1, ExponentAssumption

LEMMA ReachSum ==
    ASSUME NEW j \in 0 .. Reach, NEW k \in 0 .. Reach, NEW n \in 0 .. Reach, n = j + k
    PROVE  2^n = 2^j * 2^k
BY ExponentAssumption

LEMMA ExponentPower ==
    ASSUME NEW f \in Formats, NEW j \in 0 .. max_field(f)
    PROVE  2^j \in Nat \ {0} /\ 2^(j + 1) = 2 * 2^j
<1>1. f.sig \in Nat /\ f.sig >= 2  BY FormatFacts
<1>2. j \in 0 .. Reach /\ 1 \in 0 .. Reach /\ j + 1 <= Reach  BY <1>1, Reaches
<1>3. 2^j \in Nat \ {0}  BY <1>2, Reaches, ReachType
<1> DEFINE n == j + 1
<1>4. n \in 0 .. Reach /\ n = j + 1  BY <1>2
<1> HIDE DEF n
<1>5. 2^n = 2^j * 2^1  BY <1>2, <1>4, ReachSum
<1> QED  BY <1>3, <1>5, PowerAssumption DEF n

\* The next pattern up is worth more, in a binade and across its end.
LEMMA UnitsStep ==
    ASSUME NEW f \in Formats, NEW k \in Nat, k < Infinity(f)
    PROVE  Units(f, k) \in Nat /\ Units(f, k + 1) \in Nat /\ Units(f, k) < Units(f, k + 1)
<1> DEFINE A == 2^f.sig
           E == 2^exp_bits(f)
           q == k \div A
           r == k % A
           P == 2^(q - 1)
           Goal == Units(f, k) \in Nat /\ Units(f, k + 1) \in Nat /\ Units(f, k) < Units(f, k + 1)
<1>0. SUFFICES Goal  OBVIOUS
<1>1. A \in Nat \ {0} /\ E \in Nat /\ E >= 4  BY FormatPowers
<1>2. k < (E - 1) * A /\ max_field(f) = E - 1  BY InfinityIs
<1>3. \A n : Units(f, n) = IF n < A THEN n ELSE (A + (n % A)) * 2^(n \div A - 1)  BY DEF Units
<1> HIDE DEF A, E
<1>4. CASE k + 1 < A
  <2>1. Units(f, k) = k /\ Units(f, k + 1) = k + 1  BY <1>1, <1>3, <1>4
  <2> QED  BY <2>1
<1>5. CASE k + 1 = A
  <2>1. k < A /\ ~ (k + 1 < A)  BY <1>1, <1>5
  <2>2. (k + 1) % A = 0 /\ (k + 1) \div A - 1 = 0  BY <1>1, <1>5
  <2>3. Units(f, k) = k /\ Units(f, k + 1) = (A + 0) * 2^0  BY <1>3, <2>1, <2>2
  <2>4. Units(f, k + 1) = A * 1
    <3>1. A + 0 = A  BY <1>1
    <3> QED  BY <2>3, <3>1, PowerAssumption
  <2>5. A * 1 = A  BY <1>1
  <2> QED  BY <1>1, <1>5, <2>3, <2>4, <2>5
<1>6. CASE k >= A
  <2>1. q \in Nat /\ r \in 0 .. A - 1 /\ k = A * q + r  BY <1>1
  <2> HIDE DEF q, r
  <2>2. q >= 1
    <3>1. CASE q = 0  BY <1>1, <1>6, <2>1, <3>1
    <3> QED  BY <2>1, <3>1
  <2>3. q < E - 1
    <3> SUFFICES ASSUME q >= E - 1 PROVE FALSE  BY <1>1, <2>1
    <3> DEFINE d == q - (E - 1)
    <3>1. d \in Nat /\ q = (E - 1) + d  BY <1>1, <2>1
    <3> HIDE DEF d
    <3>2. A * q = (E - 1) * A + A * d  BY <1>1, <3>1
    <3>3. A * d \in Nat /\ (E - 1) * A \in Nat  BY <1>1, <3>1
    <3> QED  BY <1>2, <2>1, <3>2, <3>3
  <2>4. q - 1 \in 0 .. E - 1 /\ (q - 1) + 1 = q  BY <1>1, <2>1, <2>2, <2>3
  <2>5. P \in Nat \ {0} /\ 2^((q - 1) + 1) = 2 * P  BY <1>2, <2>4, ExponentPower
  <2>6. 2^q = 2 * P  BY <2>4, <2>5
  <2>7. Units(f, k) = (A + r) * P
    <3>1. ~ (k < A)  BY <1>1, <1>6
    <3> QED  BY <1>3, <3>1 DEF q, r
  <2>8. ~ (k + 1 < A)  BY <1>1, <1>6
  <2>9. CASE r + 1 < A
    <3>1. k + 1 = A * q + (r + 1) /\ r + 1 \in 0 .. A - 1
      <4>1. A * q \in Nat  BY <1>1, <2>1
      <4> QED  BY <1>1, <2>1, <2>9, <4>1
    <3>2. (k + 1) \div A = q /\ (k + 1) % A = r + 1  BY <1>1, <2>1, <3>1
    <3>3. Units(f, k + 1) = (A + (r + 1)) * P  BY <1>3, <2>8, <3>2
    <3> HIDE DEF P
    <3>4. (A + (r + 1)) * P = (A + r) * P + P  BY <1>1, <2>1, <2>5
    <3>5. (A + r) * P \in Nat  BY <1>1, <2>1, <2>5
    <3> QED  BY <2>5, <2>7, <3>3, <3>4, <3>5
  <2>10. CASE r + 1 = A
    <3>1. k + 1 = A * (q + 1)
      <4>1. A * q \in Nat /\ A * (q + 1) = A * q + A  BY <1>1, <2>1
      <4> QED  BY <1>1, <2>1, <2>10, <4>1
    <3>2. (k + 1) \div A = q + 1 /\ (k + 1) % A = 0
      <4>1. k + 1 = A * (q + 1) + 0 /\ q + 1 \in Nat
        <5>1. A * (q + 1) \in Nat  BY <1>1, <2>1
        <5> QED  BY <2>1, <3>1, <5>1
      <4> QED  BY <1>1, <4>1
    <3>3. (q + 1) - 1 = q /\ A + 0 = A  BY <1>1, <2>1
    <3>4. Units(f, k + 1) = A * 2^q  BY <1>3, <2>8, <3>2, <3>3
    <3>5. Units(f, k + 1) = A * (2 * P)  BY <2>6, <3>4
    <3> HIDE DEF P
    <3>6. A * (2 * P) = (A + r) * P + P
      <4>1. A + r = 2 * A - 1  BY <1>1, <2>1, <2>10
      <4>2. (2 * A - 1) * P = 2 * (A * P) - P  BY <1>1, <2>5
      <4>3. A * (2 * P) = 2 * (A * P) /\ A * P \in Nat  BY <1>1, <2>5
      <4> QED  BY <2>5, <4>1, <4>2, <4>3
    <3>7. (A + r) * P \in Nat  BY <1>1, <2>1, <2>5
    <3> QED  BY <2>5, <2>7, <3>5, <3>6, <3>7
  <2> QED  BY <1>1, <2>1, <2>9, <2>10
<1> QED  BY <1>1, <1>4, <1>5, <1>6

LEMMA UnitsOrdered ==
    ASSUME NEW f \in Formats
    PROVE  /\ Units(f, 0) = 0
           /\ \A k \in 0 .. Infinity(f) :
                Units(f, k) \in Nat /\ \A j \in 0 .. k - 1 : Units(f, j) < Units(f, k)
<1> DEFINE N == Infinity(f)
           T == {k \in 0 .. N :
                   Units(f, k) \in Nat /\ \A j \in 0 .. k - 1 : Units(f, j) < Units(f, k)}
<1>0. N \in Nat  BY InfinityIs
<1>1. Units(f, 0) = 0
  <2> DEFINE A == 2^f.sig
  <2>1. A \in Nat \ {0}  BY FormatPowers
  <2>2. Units(f, 0) = IF 0 < A THEN 0 ELSE (A + (0 % A)) * 2^(0 \div A - 1)  BY DEF Units
  <2> HIDE DEF A
  <2> QED  BY <2>1, <2>2
<1>2. 0 \in T  BY <1>0, <1>1
<1>3. ASSUME NEW k \in 0 .. N - 1, k \in T PROVE k + 1 \in T
  <2>1. k \in Nat /\ k < N /\ k + 1 \in 0 .. N  BY <1>0
  <2>2. Units(f, k) \in Nat /\ Units(f, k + 1) \in Nat /\ Units(f, k) < Units(f, k + 1)
    BY <2>1, UnitsStep
  <2>3. ASSUME NEW j \in 0 .. (k + 1) - 1 PROVE Units(f, j) < Units(f, k + 1)
    <3>1. CASE j = k  BY <2>2, <3>1
    <3>2. CASE j # k
      <4>1. j \in 0 .. k - 1 /\ k \in 0 .. N /\ j \in 0 .. N /\ j \in Nat /\ j < N
        BY <1>0, <2>1, <3>2
      <4>2. Units(f, j) < Units(f, k)  BY <1>3, <4>1
      <4>3. Units(f, j) \in Nat  BY <4>1, UnitsStep
      <4> QED  BY <2>2, <4>2, <4>3
    <3> QED  BY <3>1, <3>2
  <2> QED  BY <2>1, <2>2, <2>3
<1> HIDE DEF T
<1>4. \A k \in 0 .. N : k \in T  BY <1>0, <1>2, <1>3, Counting
<1> QED  BY <1>1, <1>4 DEF T

\* What unpacking calls a value is what its magnitude says.
LEMMA ClassMeans ==
    ASSUME NEW f \in Formats, NEW x \in Int
    PROVE  /\ is_nan(unpack(f, x)) <=> IsNan(f, x)
           /\ is_snan(unpack(f, x)) <=> IsSignalling(f, x)
           /\ is_zero(unpack(f, x)) <=> IsZero(f, x)
           /\ ~ IsNan(f, x) => Magnitude(f, x) \in 0 .. Infinity(f)
<1> DEFINE A == 2^f.sig
           Q == 2^(f.sig - 1)
           E == 2^exp_bits(f)
           K == 2^(f.bits - 1)
           y == Masked(f, x)
           mag == Magnitude(f, x)
           field == mag \div A
           frac == y % A
           p == unpack(f, x)
           sign == Negative(f, x)
<1>1. /\ A \in Nat \ {0} /\ E \in Nat /\ E >= 4 /\ K \in Nat \ {0} /\ K = E * A
      /\ Q \in Nat \ {0} /\ A = 2 * Q
  BY FormatPowers
<1>2. Infinity(f) = (E - 1) * A /\ max_field(f) = E - 1 /\ quiet_bit(f) = Q
  BY InfinityIs DEF quiet_bit
<1>3. y \in Nat /\ mag = y % K /\ mag \in 0 .. K - 1
  BY MaskedType DEF Magnitude, sign_mask
<1>4. p = Unpacked(f, sign, field, frac)  BY DEF unpack
<1>5. /\ IsNan(f, x) <=> mag > (E - 1) * A
      /\ IsSignalling(f, x) <=> mag > (E - 1) * A /\ mag < (E - 1) * A + Q
      /\ IsZero(f, x) <=> mag = 0
  BY <1>2 DEF IsNan, IsSignalling, IsZero
<1> HIDE DEF A, Q, E, K, y, mag
<1>6. frac = mag % A
  <2> DEFINE t == y \div K
             z == E * t
  <2>1. t \in Nat /\ y = K * t + mag  BY <1>1, <1>3
  <2> HIDE DEF t
  <2>2. z \in Int  BY <1>1, <2>1
  <2>3. K * t = A * (E * t)  BY <1>1, <2>1
  <2>4. y = mag + A * z
    <3>1. A * z \in Int  BY <1>1, <2>2
    <3> QED  BY <1>1, <1>3, <2>1, <2>3, <3>1
  <2> HIDE DEF z
  <2>5. mag \in Int /\ y \in Int  BY <1>1, <1>3
  <2> QED  BY <1>1, <2>2, <2>4, <2>5, SameRemainder, Zenon DEF frac
<1>7. field \in Nat /\ frac \in 0 .. A - 1 /\ mag = A * field + frac
  <2>1. mag \in Nat  BY <1>1, <1>3
  <2>2. field \in Nat  BY <1>1, <2>1
  <2>3. mag % A \in 0 .. A - 1  BY <1>1, <2>1
  <2>4. mag = A * field + (mag % A)  BY <1>1, <2>1
  <2> QED  BY <1>6, <2>2, <2>3, <2>4
<1> HIDE DEF field, frac, sign
<1>8. field <= E - 1
  <2> SUFFICES ASSUME field >= E PROVE FALSE  BY <1>1, <1>7
  <2> DEFINE d == field - E
  <2>1. d \in Nat /\ field = E + d  BY <1>1, <1>7
  <2> HIDE DEF d
  <2>2. A * field = E * A + A * d  BY <1>1, <2>1
  <2>3. A * d \in Nat  BY <1>1, <2>1
  <2> QED  BY <1>1, <1>3, <1>7, <2>2, <2>3
<1> DEFINE I == (E - 1) * A
<1>9. I \in Nat  BY <1>1
<1>10. CASE field = E - 1
  <2>1. mag = I + frac  BY <1>1, <1>7, <1>10
  <2>2. p = Special(sign, IF frac = 0 THEN "Inf" ELSE IF frac < Q THEN "Snan" ELSE "Qnan")
    BY <1>2, <1>4, <1>10 DEF Unpacked
  <2>3. p.cls = IF frac = 0 THEN "Inf" ELSE IF frac < Q THEN "Snan" ELSE "Qnan"
    BY <2>2 DEF Special
  <2>4. I > 0
    <3>1. I = A + (E - 2) * A  BY <1>1
    <3>2. (E - 2) * A \in Nat  BY <1>1
    <3> QED  BY <1>1, <3>1, <3>2
  <2> HIDE DEF I, p
  <2>5. /\ is_nan(p) <=> frac # 0
        /\ is_snan(p) <=> frac # 0 /\ frac < Q
        /\ ~ is_zero(p)
    BY <2>3 DEF is_nan, is_snan, is_zero
  <2>6. /\ mag > I <=> frac # 0
        /\ (mag > I /\ mag < I + Q) <=> frac # 0 /\ frac < Q
        /\ mag # 0 /\ (~ (mag > I) => mag \in 0 .. I)
    BY <1>1, <1>7, <1>9, <2>1, <2>4
  <2>7. /\ is_nan(p) <=> IsNan(f, x)
        /\ is_snan(p) <=> IsSignalling(f, x)
        /\ is_zero(p) <=> IsZero(f, x)
    BY <1>5, <2>5, <2>6 DEF I
  <2>8. ~ IsNan(f, x) => mag \in 0 .. Infinity(f)  BY <1>2, <1>5, <2>6 DEF I
  <2> QED  BY <2>7, <2>8 DEF p, mag
<1>11. CASE field # E - 1
  <2>1. mag < I
    <3> DEFINE d == (E - 1) - field
    <3>1. d \in Nat /\ d >= 1 /\ E - 1 = field + d  BY <1>1, <1>7, <1>8, <1>11
    <3> HIDE DEF d
    <3>2. I = A * field + A * d  BY <1>1, <1>7, <3>1
    <3>3. A * d >= A /\ A * d \in Nat
      <4>1. A * d = A + A * (d - 1)  BY <1>1, <3>1
      <4>2. A * (d - 1) \in Nat  BY <1>1, <3>1
      <4> QED  BY <1>1, <4>1, <4>2
    <3>4. A * field \in Nat  BY <1>1, <1>7
    <3> HIDE DEF I
    <3> QED  BY <1>1, <1>7, <3>2, <3>3, <3>4
  <2>2. mag \in Nat  BY <1>1, <1>3
  <2>3. p.cls = IF field > 0 THEN "Num" ELSE IF frac = 0 THEN "Zero" ELSE "Num"
    <3>1. CASE field > 0
      BY <1>2, <1>4, <1>11, <3>1 DEF Unpacked, Num
    <3>2. CASE ~ (field > 0) /\ frac = 0
      BY <1>2, <1>4, <1>11, <3>2 DEF Unpacked, Special
    <3>3. CASE ~ (field > 0) /\ frac # 0
      BY <1>2, <1>4, <1>11, <3>3 DEF Unpacked, Subnormal, Num
    <3> QED  BY <3>1, <3>2, <3>3
  <2>4. mag = 0 <=> ~ (field > 0) /\ frac = 0
    <3>1. CASE field = 0  BY <1>1, <1>7, <3>1
    <3>2. CASE field > 0
      <4>1. A * field = A + A * (field - 1)  BY <1>1, <1>7
      <4>2. A * (field - 1) \in Nat  BY <1>1, <1>7, <3>2
      <4> QED  BY <1>1, <1>7, <3>2, <4>1, <4>2
    <3> QED  BY <1>7, <3>1, <3>2
  <2> HIDE DEF I, p
  <2>5. ~ is_nan(p) /\ ~ is_snan(p) /\ (is_zero(p) <=> ~ (field > 0) /\ frac = 0)
    BY <2>3 DEF is_nan, is_snan, is_zero
  <2>6. ~ (mag > I) /\ mag \in 0 .. I  BY <1>9, <2>1, <2>2
  <2>7. /\ is_nan(p) <=> IsNan(f, x)
        /\ is_snan(p) <=> IsSignalling(f, x)
        /\ is_zero(p) <=> IsZero(f, x)
    BY <1>5, <2>4, <2>5, <2>6 DEF I
  <2>8. mag \in 0 .. Infinity(f)  BY <1>2, <2>6 DEF I
  <2> QED  BY <2>7, <2>8 DEF p, mag
<1> QED  BY <1>10, <1>11

\* Keys order two numbers as the numbers are ordered.
LEMMA KeyOrder ==
    ASSUME NEW f \in Formats, NEW a \in Int, NEW b \in Int, ~ IsNan(f, a), ~ IsNan(f, b)
    PROVE  /\ key(f, a) < key(f, b) <=> SignedUnits(f, a) < SignedUnits(f, b)
           /\ key(f, a) = key(f, b) <=> SignedUnits(f, a) = SignedUnits(f, b)
           /\ key(f, a) \in Int /\ SignedUnits(f, a) \in Int
<1> DEFINE ma == Magnitude(f, a)
           mb == Magnitude(f, b)
           ua == Units(f, ma)
           ub == Units(f, mb)
           na == Negative(f, a)
           nb == Negative(f, b)
           N == Infinity(f)
<1>1. ma \in 0 .. N /\ mb \in 0 .. N /\ N \in Nat  BY ClassMeans, InfinityIs
<1>2. na \in BOOLEAN /\ nb \in BOOLEAN  BY MaskedType
<1>3. /\ key(f, a) = IF na THEN - ma ELSE ma
      /\ key(f, b) = IF nb THEN - mb ELSE mb
      /\ SignedUnits(f, a) = IF na THEN - ua ELSE ua
      /\ SignedUnits(f, b) = IF nb THEN - ub ELSE ub
  BY DEF key, SignedUnits, UnitsOf
<1>4. /\ Units(f, 0) = 0
      /\ \A k \in 0 .. N : Units(f, k) \in Nat /\ \A j \in 0 .. k - 1 : Units(f, j) < Units(f, k)
  BY UnitsOrdered
<1> HIDE DEF ma, mb, na, nb, N
<1>5. ua \in Nat /\ ub \in Nat /\ ma \in Nat /\ mb \in Nat  BY <1>1, <1>4
<1>6. (ma < mb => ua < ub) /\ (mb < ma => ub < ua) /\ (ma = mb => ua = ub)
  <2>1. ASSUME ma < mb PROVE ua < ub
    <3>1. ma \in 0 .. mb - 1  BY <1>5, <2>1
    <3> QED  BY <1>1, <1>4, <3>1
  <2>2. ASSUME mb < ma PROVE ub < ua
    <3>1. mb \in 0 .. ma - 1  BY <1>5, <2>2
    <3> QED  BY <1>1, <1>4, <3>1
  <2> QED  BY <2>1, <2>2
<1>7. (ma = 0 <=> ua = 0) /\ (mb = 0 <=> ub = 0)
  <2>1. ASSUME ma # 0 PROVE 0 < ua
    <3>1. 0 \in 0 .. ma - 1  BY <1>5, <2>1
    <3> QED  BY <1>1, <1>4, <3>1
  <2>2. ASSUME mb # 0 PROVE 0 < ub
    <3>1. 0 \in 0 .. mb - 1  BY <1>5, <2>2
    <3> QED  BY <1>1, <1>4, <3>1
  <2> QED  BY <1>4, <1>5, <2>1, <2>2
<1> HIDE DEF ua, ub
<1>8. CASE na /\ nb
  <2>1. /\ key(f, a) = - ma /\ key(f, b) = - mb
        /\ SignedUnits(f, a) = - ua /\ SignedUnits(f, b) = - ub
    BY <1>3, <1>8
  <2> QED  BY <1>5, <1>6, <2>1
<1>9. CASE na /\ ~ nb
  <2>1. /\ key(f, a) = - ma /\ key(f, b) = mb
        /\ SignedUnits(f, a) = - ua /\ SignedUnits(f, b) = ub
    BY <1>3, <1>9
  <2> QED  BY <1>5, <1>7, <2>1
<1>10. CASE ~ na /\ nb
  <2>1. /\ key(f, a) = ma /\ key(f, b) = - mb
        /\ SignedUnits(f, a) = ua /\ SignedUnits(f, b) = - ub
    BY <1>3, <1>10
  <2> QED  BY <1>5, <1>7, <2>1
<1>11. CASE ~ na /\ ~ nb
  <2>1. /\ key(f, a) = ma /\ key(f, b) = mb
        /\ SignedUnits(f, a) = ua /\ SignedUnits(f, b) = ub
    BY <1>3, <1>11
  <2> QED  BY <1>5, <1>6, <2>1
<1> QED  BY <1>2, <1>8, <1>9, <1>10, <1>11

\* What OrderIsNumeric asks of one result.
CompareOps == {"FLT", "FLE", "FEQ", "FMIN", "FMAX"}
Numeric(op, f, a, b, v, flags) ==
    LET nans == {x \in {a, b} : IsNan(f, x)}
        less == SignedUnits(f, a) < SignedUnits(f, b)
        same == SignedUnits(f, a) = SignedUnits(f, b)
        first == less \/ (same /\ Negative(f, a))
    IN  /\ op = "FLT" => v = IF nans = {} /\ less THEN 1 ELSE 0
        /\ op = "FLE" => v = IF nans = {} /\ (less \/ same) THEN 1 ELSE 0
        /\ op = "FEQ" => v = IF nans = {} /\ same THEN 1 ELSE 0
        /\ op \in {"FMIN", "FMAX"} =>
             v = IF {a, b} \ nans = {} THEN nan(f)
                 ELSE IF IsNan(f, a) THEN b
                 ELSE IF IsNan(f, b) THEN a
                 ELSE IF (op = "FMIN") = first THEN a ELSE b
        /\ flags = IF IF op \in {"FLT", "FLE"} THEN nans # {}
                      ELSE \E x \in nans : IsSignalling(f, x)
                   THEN {"NV"} ELSE {}

LEMMA NumericIs ==
    OrderIsNumeric <=> (Newest(CompareOps) =>
        Numeric(last.inst.op, fp_fmt(last.inst), last.a, last.b, last.v, last.flags))
BY DEF OrderIsNumeric, Numeric, Fmt, CompareOps

LEMMA ComparedNumeric ==
    ASSUME NEW f \in Formats, NEW a \in Int, NEW b \in Int
    PROVE  /\ Numeric("FLT", f, a, b, lt(f, a, b, FALSE).v, lt(f, a, b, FALSE).flags)
           /\ Numeric("FLE", f, a, b, lt(f, a, b, TRUE).v, lt(f, a, b, TRUE).flags)
           /\ Numeric("FEQ", f, a, b, eq(f, a, b).v, eq(f, a, b).flags)
<1> DEFINE nans == {x \in {a, b} : IsNan(f, x)}
           less == SignedUnits(f, a) < SignedUnits(f, b)
           same == SignedUnits(f, a) = SignedUnits(f, b)
           nan2 == IsNan(f, a) \/ IsNan(f, b)
           snan2 == IsSignalling(f, a) \/ IsSignalling(f, b)
<1>1. EitherNan(f, a, b) <=> nan2  BY ClassMeans DEF EitherNan
<1>2. EitherSnan(f, a, b) <=> snan2  BY ClassMeans DEF EitherSnan
<1>3. nans = {} <=> ~ nan2  OBVIOUS
<1>4. (\E x \in nans : IsSignalling(f, x)) <=> snan2  BY DEF IsSignalling
<1>5. ~ nan2 => /\ key(f, a) < key(f, b) <=> less
                /\ key(f, a) = key(f, b) <=> same
  BY KeyOrder
<1> HIDE DEF nan2, snan2, less, same, nans
<1>6. ASSUME NEW w \in BOOLEAN
      PROVE  /\ lt(f, a, b, w).v = IF ~ nan2 /\ (less \/ (w /\ same)) THEN 1 ELSE 0
             /\ lt(f, a, b, w).flags = IF nan2 THEN {"NV"} ELSE {}
  <2>1. CASE nan2
    <3>1. lt(f, a, b, w) = [v |-> 0, flags |-> {"NV"}]  BY <1>1, <2>1 DEF lt
    <3> QED  BY <2>1, <3>1
  <2>2. CASE ~ nan2
    <3> DEFINE t == key(f, a) < key(f, b) \/ (w /\ key(f, a) = key(f, b))
    <3>1. lt(f, a, b, w) = [v |-> IF t THEN 1 ELSE 0, flags |-> {}]
      BY <1>1, <2>2 DEF lt, Exact, Truth
    <3>2. t <=> less \/ (w /\ same)  BY <1>5, <2>2
    <3> HIDE DEF t
    <3>3. lt(f, a, b, w).v = (IF t THEN 1 ELSE 0) /\ lt(f, a, b, w).flags = {}  BY <3>1
    <3> QED  BY <2>2, <3>2, <3>3
  <2> QED  BY <2>1, <2>2
<1>7. /\ eq(f, a, b).v = IF ~ nan2 /\ same THEN 1 ELSE 0
      /\ eq(f, a, b).flags = IF snan2 THEN {"NV"} ELSE {}
  <2> DEFINE t == ~ EitherNan(f, a, b) /\ key(f, a) = key(f, b)
  <2>1. t <=> ~ nan2 /\ same  BY <1>1, <1>5
  <2>2. eq(f, a, b) = [v |-> IF t THEN 1 ELSE 0,
                       flags |-> IF EitherSnan(f, a, b) THEN {"NV"} ELSE {}]
    BY DEF eq, Truth
  <2> HIDE DEF t
  <2>3. /\ eq(f, a, b).v = (IF t THEN 1 ELSE 0)
        /\ eq(f, a, b).flags = IF EitherSnan(f, a, b) THEN {"NV"} ELSE {}
    BY <2>2
  <2> QED  BY <1>2, <2>1, <2>3
<1>8. \A op, v, flags : Numeric(op, f, a, b, v, flags) <=>
        /\ op = "FLT" => v = IF nans = {} /\ less THEN 1 ELSE 0
        /\ op = "FLE" => v = IF nans = {} /\ (less \/ same) THEN 1 ELSE 0
        /\ op = "FEQ" => v = IF nans = {} /\ same THEN 1 ELSE 0
        /\ op \in {"FMIN", "FMAX"} =>
             v = IF {a, b} \ nans = {} THEN nan(f)
                 ELSE IF IsNan(f, a) THEN b
                 ELSE IF IsNan(f, b) THEN a
                 ELSE IF (op = "FMIN") = (less \/ (same /\ Negative(f, a))) THEN a ELSE b
        /\ flags = IF IF op \in {"FLT", "FLE"} THEN nans # {}
                      ELSE \E x \in nans : IsSignalling(f, x)
                   THEN {"NV"} ELSE {}
  BY DEF Numeric, nans, less, same
<1>9. Numeric("FLT", f, a, b, lt(f, a, b, FALSE).v, lt(f, a, b, FALSE).flags)
  <2> DEFINE v == lt(f, a, b, FALSE).v
             flags == lt(f, a, b, FALSE).flags
  <2>1. /\ v = IF ~ nan2 /\ (less \/ (FALSE /\ same)) THEN 1 ELSE 0
        /\ flags = IF nan2 THEN {"NV"} ELSE {}
    BY <1>6
  <2> HIDE DEF v, flags
  <2>2. v = IF nans = {} /\ less THEN 1 ELSE 0  BY <1>3, <2>1
  <2>3. flags = IF nans # {} THEN {"NV"} ELSE {}  BY <1>3, <2>1
  <2>4. Numeric("FLT", f, a, b, v, flags)  BY <1>8, <2>2, <2>3
  <2> QED  BY <2>4 DEF v, flags
<1>10. Numeric("FLE", f, a, b, lt(f, a, b, TRUE).v, lt(f, a, b, TRUE).flags)
  <2> DEFINE v == lt(f, a, b, TRUE).v
             flags == lt(f, a, b, TRUE).flags
  <2>1. /\ v = IF ~ nan2 /\ (less \/ (TRUE /\ same)) THEN 1 ELSE 0
        /\ flags = IF nan2 THEN {"NV"} ELSE {}
    BY <1>6
  <2> HIDE DEF v, flags
  <2>2. v = IF nans = {} /\ (less \/ same) THEN 1 ELSE 0  BY <1>3, <2>1
  <2>3. flags = IF nans # {} THEN {"NV"} ELSE {}  BY <1>3, <2>1
  <2>4. Numeric("FLE", f, a, b, v, flags)  BY <1>8, <2>2, <2>3
  <2> QED  BY <2>4 DEF v, flags
<1>11. Numeric("FEQ", f, a, b, eq(f, a, b).v, eq(f, a, b).flags)
  BY <1>3, <1>4, <1>7, <1>8
<1> QED  BY <1>9, <1>10, <1>11

\* A pattern is its sign and its magnitude.
LEMMA PatternIs ==
    ASSUME NEW f \in Formats, NEW a \in Patterns(f)
    PROVE  /\ a \in Int /\ Masked(f, a) = a
           /\ a = Magnitude(f, a) + IF Negative(f, a) THEN 2^(f.bits - 1) ELSE 0
<1> DEFINE K == 2^(f.bits - 1)
           N == 2^f.bits
<1>1. K \in Nat \ {0} /\ N = 2 * K  BY FormatPowers
<1>2. a \in 0 .. N - 1  BY DEF Patterns
<1>3. Masked(f, a) = a % N /\ Magnitude(f, a) = Masked(f, a) % K
      /\ (Negative(f, a) <=> Masked(f, a) >= K)
  BY DEF Masked, Magnitude, Negative, sign_mask
<1> SUFFICES a \in Int /\ Masked(f, a) = a /\ a = Magnitude(f, a) + IF Negative(f, a) THEN K ELSE 0
  OBVIOUS
<1> HIDE DEF K, N
<1>4. a \in Int /\ a % N = a  BY <1>1, <1>2
<1>5. CASE a < K
  <2>1. a % K = a  BY <1>1, <1>2, <1>5
  <2>2. ~ Negative(f, a)  BY <1>1, <1>3, <1>4, <1>5
  <2> QED  BY <1>3, <1>4, <2>1, <2>2
<1>6. CASE a >= K
  <2>1. a % K = a - K
    <3> DEFINE c == a - K
    <3>1. a = K * 1 + c /\ c \in 0 .. K - 1  BY <1>1, <1>2, <1>6
    <3> HIDE DEF c
    <3>2. a % K = c  BY <1>1, <1>4, <3>1
    <3> QED  BY <3>2 DEF c
  <2>2. Negative(f, a)  BY <1>3, <1>4, <1>6
  <2>3. Magnitude(f, a) = a - K  BY <1>3, <1>4, <2>1
  <2> QED  BY <1>1, <1>3, <1>4, <2>2, <2>3
<1> QED  BY <1>1, <1>4, <1>5, <1>6

\* Only the two zeros share a key.
LEMMA SameKey ==
    ASSUME NEW f \in Formats, NEW a \in Patterns(f), NEW b \in Patterns(f),
           key(f, a) = key(f, b), ~ (IsZero(f, a) /\ IsZero(f, b))
    PROVE  a = b
<1> DEFINE K == 2^(f.bits - 1)
           ma == Magnitude(f, a)
           mb == Magnitude(f, b)
           na == Negative(f, a)
           nb == Negative(f, b)
<1>1. /\ a = ma + IF na THEN K ELSE 0
      /\ b = mb + IF nb THEN K ELSE 0
      /\ a \in Int /\ b \in Int
  BY PatternIs
<1>2. ma \in Nat /\ mb \in Nat /\ na \in BOOLEAN /\ nb \in BOOLEAN  BY <1>1, MaskedType
<1>3. (IF na THEN - ma ELSE ma) = (IF nb THEN - mb ELSE mb) /\ ~ (ma = 0 /\ mb = 0)
  BY DEF key, IsZero
<1> HIDE DEF ma, mb, na, nb, K
<1>4. ma = mb /\ na = nb
  <2>1. CASE na /\ nb  BY <1>2, <1>3, <2>1
  <2>2. CASE na /\ ~ nb
    <3>1. - ma = mb  BY <1>3, <2>2
    <3> QED  BY <1>2, <1>3, <3>1
  <2>3. CASE ~ na /\ nb
    <3>1. ma = - mb  BY <1>3, <2>3
    <3> QED  BY <1>2, <1>3, <3>1
  <2>4. CASE ~ na /\ ~ nb  BY <1>2, <1>3, <2>4
  <2> QED  BY <1>2, <2>1, <2>2, <2>3, <2>4
<1> QED  BY <1>1, <1>4

LEMMA MinMaxNumeric ==
    ASSUME NEW f \in Formats, NEW a \in Patterns(f), NEW b \in Patterns(f),
           NEW op \in {"FMIN", "FMAX"}
    PROVE  LET r == min_max(f, a, b, op = "FMAX") IN Numeric(op, f, a, b, r.v, r.flags)
<1> DEFINE want == op = "FMAX"
           r == min_max(f, a, b, want)
           nans == {x \in {a, b} : IsNan(f, x)}
           less == SignedUnits(f, a) < SignedUnits(f, b)
           same == SignedUnits(f, a) = SignedUnits(f, b)
           first == less \/ (same /\ Negative(f, a))
           chosen == IF {a, b} \ nans = {} THEN nan(f)
                     ELSE IF IsNan(f, a) THEN b
                     ELSE IF IsNan(f, b) THEN a
                     ELSE IF (op = "FMIN") = first THEN a ELSE b
<1>0. a \in Int /\ b \in Int /\ Masked(f, a) = a /\ Masked(f, b) = b  BY PatternIs
<1>1. /\ is_nan(unpack(f, a)) <=> IsNan(f, a)
      /\ is_nan(unpack(f, b)) <=> IsNan(f, b)
      /\ is_zero(unpack(f, a)) <=> IsZero(f, a)
      /\ is_zero(unpack(f, b)) <=> IsZero(f, b)
      /\ EitherSnan(f, a, b) <=> IsSignalling(f, a) \/ IsSignalling(f, b)
  BY <1>0, ClassMeans DEF EitherSnan
<1>2. /\ r.v = IF is_nan(unpack(f, a)) /\ is_nan(unpack(f, b)) THEN nan(f)
               ELSE IF is_nan(unpack(f, a)) THEN Masked(f, b)
               ELSE IF is_nan(unpack(f, b)) THEN Masked(f, a)
               ELSE IF take_a(f, a, b, want) THEN Masked(f, a) ELSE Masked(f, b)
      /\ r.flags = IF EitherSnan(f, a, b) THEN {"NV"} ELSE {}
  BY DEF min_max
<1>3. r.v = IF IsNan(f, a) /\ IsNan(f, b) THEN nan(f)
            ELSE IF IsNan(f, a) THEN b
            ELSE IF IsNan(f, b) THEN a
            ELSE IF take_a(f, a, b, want) THEN a ELSE b
  BY <1>0, <1>1, <1>2
<1>4. (\E x \in nans : IsSignalling(f, x)) <=> IsSignalling(f, a) \/ IsSignalling(f, b)
  BY DEF IsSignalling
<1>5. {a, b} \ nans = {} <=> IsNan(f, a) /\ IsNan(f, b)  OBVIOUS
<1>6. ASSUME ~ IsNan(f, a), ~ IsNan(f, b)
      PROVE  (IF take_a(f, a, b, want) THEN a ELSE b) = (IF (op = "FMIN") = first THEN a ELSE b)
  <2>1. /\ key(f, a) < key(f, b) <=> less
        /\ key(f, a) = key(f, b) <=> same
        /\ key(f, a) \in Int /\ key(f, b) \in Int
    BY <1>0, <1>6, KeyOrder
  <2>2. Negative(f, a) \in BOOLEAN  BY <1>0, MaskedType
  <2>3. take_a(f, a, b, want) <=>
          IF IsZero(f, a) /\ IsZero(f, b) THEN Negative(f, a) # want
          ELSE IF want THEN key(f, a) > key(f, b) ELSE key(f, a) < key(f, b)
    BY <1>1 DEF take_a
  <2>4. first \in BOOLEAN /\ want \in BOOLEAN  OBVIOUS
  <2>7. ((op = "FMIN") = first) <=> (want # first)
    <3>1. CASE op = "FMIN"
      <4>1. want = FALSE  BY <3>1
      <4> HIDE DEF want, first
      <4> QED  BY <2>4, <3>1, <4>1
    <3>2. CASE op = "FMAX"
      <4>1. want = TRUE /\ op # "FMIN"  BY <3>2
      <4> HIDE DEF want, first
      <4> QED  BY <2>4, <4>1
    <3> QED  BY <3>1, <3>2
  <2>5. CASE IsZero(f, a) /\ IsZero(f, b)
    <3>1. key(f, a) = key(f, b)  BY <2>5 DEF key, IsZero
    <3>2. same /\ ~ less  BY <2>1, <3>1
    <3>3. first <=> Negative(f, a)  BY <2>2, <3>2
    <3>4. take_a(f, a, b, want) <=> (Negative(f, a) # want)  BY <2>3, <2>5
    <3> HIDE DEF first, want
    <3>5. first = Negative(f, a)
      <4>1. CASE Negative(f, a) = TRUE  BY <2>4, <3>3, <4>1
      <4>2. CASE Negative(f, a) = FALSE  BY <2>4, <3>3, <4>2
      <4> QED  BY <2>2, <4>1, <4>2
    <3>6. take_a(f, a, b, want) <=> (op = "FMIN") = first  BY <2>7, <3>4, <3>5
    <3> QED  BY <3>6
  <2>6. CASE ~ (IsZero(f, a) /\ IsZero(f, b))
    <3>1. CASE same
      <4>1. a = b  BY <2>1, <2>6, <3>1, SameKey
      <4> QED  BY <4>1
    <3>2. CASE ~ same
      <4>1. first <=> less  BY <3>2
      <4>2. key(f, a) # key(f, b)  BY <2>1, <3>2
      <4>3. key(f, a) > key(f, b) <=> ~ less  BY <2>1, <4>2
      <4>4. take_a(f, a, b, want) <=> IF want THEN ~ less ELSE less
        BY <2>1, <2>3, <2>6, <4>3
      <4> HIDE DEF first, want, less
      <4>5. take_a(f, a, b, want) <=> (want # first)
        <5>1. CASE want = TRUE  BY <2>4, <4>1, <4>4, <5>1
        <5>2. CASE want = FALSE  BY <2>4, <4>1, <4>4, <5>2
        <5> QED  BY <2>4, <5>1, <5>2
      <4> QED  BY <2>7, <4>5
    <3> QED  BY <3>1, <3>2
  <2> QED  BY <2>5, <2>6
<1>7. r.v = chosen
  <2>1. CASE IsNan(f, a) /\ IsNan(f, b)  BY <1>3, <1>5, <2>1
  <2>2. CASE IsNan(f, a) /\ ~ IsNan(f, b)  BY <1>3, <1>5, <2>2
  <2>3. CASE ~ IsNan(f, a) /\ IsNan(f, b)  BY <1>3, <1>5, <2>3
  <2>4. CASE ~ IsNan(f, a) /\ ~ IsNan(f, b)
    <3>1. r.v = IF take_a(f, a, b, want) THEN a ELSE b  BY <1>3, <2>4
    <3>2. chosen = IF (op = "FMIN") = first THEN a ELSE b  BY <1>5, <2>4
    <3> HIDE DEF r, chosen, first, want
    <3> QED  BY <1>6, <2>4, <3>1, <3>2
  <2> QED  BY <2>1, <2>2, <2>3, <2>4
<1>8. r.flags = IF \E x \in nans : IsSignalling(f, x) THEN {"NV"} ELSE {}
  BY <1>1, <1>2, <1>4
<1>9. \A v, flags : v = chosen /\ (flags = IF \E x \in nans : IsSignalling(f, x) THEN {"NV"} ELSE {})
        => Numeric(op, f, a, b, v, flags)
  BY DEF Numeric
<1> HIDE DEF r, chosen, nans
<1>10. Numeric(op, f, a, b, r.v, r.flags)  BY <1>7, <1>8, <1>9
<1> QED  BY <1>10 DEF r

\* An operand read from an f register is a pattern of the format.
LEMMA FregPattern ==
    ASSUME TypeOK, NEW i, i.fmt \in {"S", "D"}, NEW r \in 0 .. 2
    PROVE  freg(i, r) \in Patterns(fp_fmt(i))
<1>1. fregs[r] \in Int /\ fregs[r] \in 0 .. 2^Wide - 1  BY HartTypes
<1>2. CASE i.fmt = "S"
  <2> DEFINE K == 2^Narrow
             v == fregs[r]
  <2>1. K \in Nat \ {0}  BY Powers
  <2>2. Patterns(S) = 0 .. K - 1 /\ S \in Formats
    BY FormatAssumption DEF Patterns, S, Formats
  <2>3. nan(S) \in 0 .. K - 1  BY <2>2, SpecialPatterns
  <2>4. unbox(v) = v % K \/ unbox(v) = nan(S)  BY DEF unbox
  <2>5. freg(i, r) = unbox(v) /\ fp_fmt(i) = S  BY <1>2 DEF freg, fp_fmt
  <2> HIDE DEF K, v
  <2>6. v % K \in 0 .. K - 1  BY <1>1, <2>1 DEF v
  <2> QED  BY <2>2, <2>3, <2>4, <2>5, <2>6
<1>3. CASE i.fmt = "D"
  <2>1. Patterns(D) = 0 .. 2^Wide - 1  BY FormatAssumption DEF Patterns, D
  <2>2. freg(i, r) = fregs[r] /\ fp_fmt(i) = D  BY <1>3 DEF freg, fp_fmt
  <2> QED  BY <1>1, <2>1, <2>2
<1> QED  BY <1>2, <1>3

LEMMA StepNumeric ==
    ASSUME TypeOK, OrderIsNumeric, NEW i \in G.insts, execute(i)
    PROVE  OrderIsNumeric'
<1> DEFINE Goal == "op" \in DOMAIN last'.inst /\ last'.inst.op \in CompareOps =>
                     Numeric(last'.inst.op, fp_fmt(last'.inst), last'.a, last'.b, last'.v,
                             last'.flags)
<1>1. SUFFICES Goal  BY DEF OrderIsNumeric, Numeric, Newest, Fmt, CompareOps
<1>2. CASE last' = last  BY <1>2, NumericIs DEF Newest
<1>3. CASE last' = [inst |-> NoInst]
  <2>1. last'.inst = [kind |-> "none"]  BY <1>3 DEF NoInst
  <2>2. "op" \notin DOMAIN [kind |-> "none"]  OBVIOUS
  <2> QED  BY <2>1, <2>2
<1>4. CASE last'.inst = i /\ last' # last
  <2>1. CASE ~ ("op" \in DOMAIN i /\ i.op \in CompareOps)  BY <1>4, <2>1
  <2>2. CASE "op" \in DOMAIN i /\ i.op \in CompareOps
    <3> DEFINE f == fp_fmt(i)
               a == freg(i, i.rs1)
               b == freg(i, i.rs2)
    <3>1. i.kind = "OP-FP"
      <4>1. guest \in DOMAIN Guests  BY DEF TypeOK
      <4> QED  BY <2>2, <4>1, DecodeAssumption DEF G, CompareOps, FpOps
    <3>2. CASE Trapped  BY <1>3, <3>2 DEF Trapped
    <3>3. CASE i.fmt \in {"S", "D"} /\ execute_op_fp(i)
      <4>1. i.rs1 \in 0 .. 2 /\ i.rs2 \in 0 .. 2  BY <3>1, Decoded
      <4>2. f \in Formats /\ a \in Patterns(f) /\ b \in Patterns(f)
        BY <3>3, <4>1, FmtFacts, FregPattern
      <4>3. a \in Int /\ b \in Int  BY <4>2, PatternIs
      <4> HIDE DEF f, a, b
      <4>4. ASSUME NEW r, Trace(i, a, b, 0, r.v, r.flags), Numeric(i.op, f, a, b, r.v, r.flags)
            PROVE  Goal
        <5>1. /\ last'.inst = i /\ last'.a = a /\ last'.b = b /\ last'.v = r.v
              /\ last'.flags = r.flags
          BY <1>4, <4>4 DEF Trace
        <5> QED  BY <4>4, <5>1 DEF f
      <4> HIDE DEF Goal
      <4>5. CASE i.op \in {"FLE", "FLT", "FEQ"}
        <5> DEFINE r == Compared(i, a, b)
        <5>1. Trace(i, a, b, 0, r.v, r.flags)
          BY <3>3, <4>5 DEF execute_op_fp, FpToInteger, a, b
        <5>2. Numeric(i.op, f, a, b, r.v, r.flags)
          <6>1. CASE i.op = "FLE"  BY <4>2, <4>3, <6>1, ComparedNumeric DEF Compared, f
          <6>2. CASE i.op = "FLT"  BY <4>2, <4>3, <6>2, ComparedNumeric DEF Compared, f
          <6>3. CASE i.op = "FEQ"  BY <4>2, <4>3, <6>3, ComparedNumeric DEF Compared, f
          <6> QED  BY <4>5, <6>1, <6>2, <6>3
        <5> HIDE DEF r
        <5> QED  BY <4>4, <5>1, <5>2
      <4>6. CASE i.op \in {"FMIN", "FMAX"}
        <5> DEFINE r == min_max(f, a, b, i.op = "FMAX")
        <5>1. Trace(i, a, b, 0, r.v, r.flags)
          BY <3>3, <4>6 DEF execute_op_fp, FpResult, a, b, f
        <5>2. Numeric(i.op, f, a, b, r.v, r.flags)  BY <4>2, <4>6, MinMaxNumeric
        <5> HIDE DEF r
        <5> QED  BY <4>4, <5>1, <5>2
      <4> QED  BY <2>2, <4>5, <4>6 DEF CompareOps
    <3>4. OpFp(i)  BY <3>1 DEF execute
    <3> QED  BY <3>2, <3>3, <3>4 DEF OpFp, Illegal
  <2> QED  BY <2>1, <2>2
<1> QED  BY <1>2, <1>3, <1>4, ExecuteTraces

\* Comparisons, minimum and maximum order the patterns of every format as the
\* numbers they stand for, infinities included: the two zeros are equal and -0
\* the smaller, a NaN is unordered, and only the NaNs that must signal do
\* (fpu.rs key, eq, lt, min_max).
THEOREM ComparesNumbers == Spec => []OrderIsNumeric
<1>1. Init => OrderIsNumeric
  <2> SUFFICES ASSUME Init PROVE OrderIsNumeric  OBVIOUS
  <2>1. last.inst = [kind |-> "none"]  BY DEF Init, NoInst
  <2>2. "op" \notin DOMAIN last.inst  BY <2>1
  <2> QED  BY <2>2 DEF OrderIsNumeric, Newest
<1>2. TypeOK /\ OrderIsNumeric /\ [Next]_vars => OrderIsNumeric'
  <2> SUFFICES ASSUME TypeOK, OrderIsNumeric, [Next]_vars PROVE OrderIsNumeric'  OBVIOUS
  <2>1. CASE Step  BY <2>1, StepNumeric DEF Step
  <2>2. CASE UNCHANGED last
    BY <2>2, NumericIs DEF OrderIsNumeric, Numeric, Newest, Fmt, CompareOps, fp_fmt
  <2>3. CASE Fetch
    <3>1. PICK i \in G.halfwords :
            last' = [inst |-> [kind |-> "C", half |-> i], word |-> decompress(i, xb = Wide)]
      BY <2>3 DEF Fetch
    <3>2. "op" \notin DOMAIN last'.inst  BY <3>1
    <3> QED  BY <3>2 DEF OrderIsNumeric, Newest
  <2> QED  BY <2>1, <2>2, <2>3 DEF Next, Switch, FirstUse, vars
<1> QED  BY <1>1, <1>2, ExecuteTypeCorrect, PTL DEF Spec

=============================================================================
