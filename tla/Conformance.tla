---------------------------- MODULE Conformance ----------------------------
(***************************************************************************)
(* What the instructions of Execute are for: the arithmetic the RISC-V and *)
(* IEEE 754 definitions ask for, stated without the code's algorithms.     *)
(*                                                                         *)
(* A finite magnitude of a format is its encoding k, without the sign, and *)
(* worth Units(fmt, k) units of the smallest subnormal.  An exact result  *)
(* is given by how it compares with h half-units, for every h, and        *)
(* rounding is a choice between the two encodings around it.               *)
(***************************************************************************)
EXTENDS Execute

\* The laws of powers, as far as the exponents of the operations reach.
Reach == Max(UNION {{Word + bias(f) + f.sig, 3 * (bias(f) + f.sig)} : f \in {S, D}})
ASSUME ExponentAssumption ==
    \A j, k \in 0 .. Reach : j + k <= Reach => 2^j \in Nat \ {0} /\ 2^(j + k) = 2^j * 2^k

Units(fmt, k) ==
    IF k < 2^fmt.sig THEN k ELSE (2^fmt.sig + (k % 2^fmt.sig)) * 2^(k \div 2^fmt.sig - 1)
Scale(fmt) == 2^(- min_e(fmt))            \* units in one
Infinity(fmt) == inf(fmt, FALSE)

UnitsOf(fmt, v) == Units(fmt, Magnitude(fmt, v))
SignedUnits(fmt, v) == IF Negative(fmt, v) THEN - UnitsOf(fmt, v) ELSE UnitsOf(fmt, v)

IsNan(fmt, v) == Magnitude(fmt, v) > Infinity(fmt)
IsSignalling(fmt, v) == IsNan(fmt, v) /\ Magnitude(fmt, v) < Infinity(fmt) + quiet_bit(fmt)
IsInf(fmt, v) == Magnitude(fmt, v) = Infinity(fmt)
IsZero(fmt, v) == Magnitude(fmt, v) = 0

Order(v, h, rest) == IF v > h \/ (v = h /\ rest) THEN 1 ELSE IF v = h THEN 0 ELSE -1

\* An exact magnitude: n / d units, or the root of n.
Ratio(n, d) == [n |-> n, d |-> d]
SquareRoot(n) == [n |-> n, d |-> 0]

\* Its order against h half-units.
Compare(exact, h) ==
    IF exact.d > 0 THEN Order((2 * exact.n) \div exact.d, h, (2 * exact.n) % exact.d # 0)
    ELSE IF h = 0 THEN Order(exact.n, 0, FALSE)
    ELSE Order((4 * exact.n) \div h, h, (4 * exact.n) % h # 0)

Away(sign, rm, odd, half) ==
    CASE rm = "Rne" -> half > 0 \/ (half = 0 /\ odd)
      [] rm = "Rmm" -> half >= 0
      [] rm = "Rtz" -> FALSE
      [] rm = "Rdn" -> sign
      [] rm = "Rup" -> ~ sign

\* Past the range, or rounded to its end, whatever the rest of the value is.
Overflowed(fmt, sign, rm) ==
    [v |-> zero(fmt, sign) + IF Away(sign, rm, TRUE, 1) THEN Infinity(fmt) ELSE Infinity(fmt) - 1,
     flags |-> {"OF", "NX"}]

Packed(fmt, sign, rm, k, inexact) ==
    IF k = Infinity(fmt) THEN Overflowed(fmt, sign, rm)
    ELSE [v |-> zero(fmt, sign) + k,
          flags |-> IF ~ inexact THEN {} ELSE IF k < 2^fmt.sig THEN {"NX", "UF"} ELSE {"NX"}]

\* lo is the largest encoding not above the value, half compares with the
\* middle of the gap above it.
Between(fmt, sign, rm, lo, exact, half) ==
    Packed(fmt, sign, rm, IF ~ exact /\ Away(sign, rm, lo % 2 = 1, half) THEN lo + 1 ELSE lo,
           ~ exact)

Around(fmt, sign, rm, exact, lo) ==
    IF lo = Infinity(fmt) THEN Overflowed(fmt, sign, rm)
    ELSE Between(fmt, sign, rm, lo, Compare(exact, 2 * Units(fmt, lo)) = 0,
                 Compare(exact, Units(fmt, lo) + Units(fmt, lo + 1)))

Rounded(fmt, sign, rm, exact) ==
    Around(fmt, sign, rm, exact,
           Max({k \in 0 .. Infinity(fmt) : Compare(exact, 2 * Units(fmt, k)) >= 0}))

\* A signed number n / d in units; an exact zero takes its sign from elsewhere.
RoundedRatio(fmt, n, d, zeroSign, rm) ==
    IF n = 0 THEN Exact(zero(fmt, zeroSign)) ELSE Rounded(fmt, n < 0, rm, Ratio(Abs(n), d))

Nan(fmt, operands) ==
    [v |-> nan(fmt), flags |-> IF \E v \in operands : IsSignalling(fmt, v) THEN {"NV"} ELSE {}]
Invalid(fmt) == [v |-> nan(fmt), flags |-> {"NV"}]

-----------------------------------------------------------------------------
(* The operations, on the numbers their operands stand for *)

\* Zeros of one sign add to that sign; any other zero sum is +0 unless rounding down.
SumSign(sa, sb, rm) == IF sa = sb THEN sa ELSE rm = "Rdn"

\* sa is the product's sign and n / d its signed value, finite or infinite.
Summed(fmt, sa, infinite, n, d, c, sc, rm) ==
    IF infinite /\ IsInf(fmt, c) /\ sa # sc THEN Invalid(fmt)
    ELSE IF infinite THEN Exact(inf(fmt, sa))
    ELSE IF IsInf(fmt, c) THEN Exact(inf(fmt, sc))
    ELSE RoundedRatio(fmt, n + d * (IF sc THEN - UnitsOf(fmt, c) ELSE UnitsOf(fmt, c)), d,
                      IF n = 0 /\ IsZero(fmt, c) THEN SumSign(sa, sc, rm) ELSE rm = "Rdn", rm)

SumSpec(fmt, a, b, sb, rm) ==
    IF IsNan(fmt, a) \/ IsNan(fmt, b) THEN Nan(fmt, {a, b})
    ELSE Summed(fmt, Negative(fmt, a), IsInf(fmt, a), SignedUnits(fmt, a), 1, b, sb, rm)

ProductSign(fmt, a, b) == Negative(fmt, a) # Negative(fmt, b)
NoProduct(fmt, a, b) ==
    (IsInf(fmt, a) /\ IsZero(fmt, b)) \/ (IsZero(fmt, a) /\ IsInf(fmt, b))

WithSignOf(sign, n) == IF sign THEN - n ELSE n

ProductSpec(fmt, a, b, rm) ==
    IF IsNan(fmt, a) \/ IsNan(fmt, b) THEN Nan(fmt, {a, b})
    ELSE IF NoProduct(fmt, a, b) THEN Invalid(fmt)
    ELSE IF IsInf(fmt, a) \/ IsInf(fmt, b) THEN Exact(inf(fmt, ProductSign(fmt, a, b)))
    ELSE RoundedRatio(fmt, SignedUnits(fmt, a) * SignedUnits(fmt, b), Scale(fmt),
                      ProductSign(fmt, a, b), rm)

QuotientSpec(fmt, a, b, rm) ==
    IF IsNan(fmt, a) \/ IsNan(fmt, b) THEN Nan(fmt, {a, b})
    ELSE IF (IsInf(fmt, a) /\ IsInf(fmt, b)) \/ (IsZero(fmt, a) /\ IsZero(fmt, b)) THEN Invalid(fmt)
    ELSE IF IsInf(fmt, a) THEN Exact(inf(fmt, ProductSign(fmt, a, b)))
    ELSE IF IsInf(fmt, b) THEN Exact(zero(fmt, ProductSign(fmt, a, b)))
    ELSE IF IsZero(fmt, b) THEN [v |-> inf(fmt, ProductSign(fmt, a, b)), flags |-> {"DZ"}]
    ELSE RoundedRatio(fmt, WithSignOf(ProductSign(fmt, a, b), UnitsOf(fmt, a) * Scale(fmt)),
                      UnitsOf(fmt, b), ProductSign(fmt, a, b), rm)

RootSpec(fmt, a, rm) ==
    IF IsNan(fmt, a) THEN Nan(fmt, {a})
    ELSE IF IsZero(fmt, a) THEN Exact(a)
    ELSE IF Negative(fmt, a) THEN Invalid(fmt)
    ELSE IF IsInf(fmt, a) THEN Exact(a)
    ELSE Rounded(fmt, FALSE, rm, SquareRoot(UnitsOf(fmt, a) * Scale(fmt)))

\* One rounding of the exact a * b + c.
FusedSpec(fmt, a, b, sp, c, sc, rm) ==
    IF NoProduct(fmt, a, b) THEN Invalid(fmt)
    ELSE IF \E v \in {a, b, c} : IsNan(fmt, v) THEN Nan(fmt, {a, b, c})
    ELSE Summed(fmt, sp, IsInf(fmt, a) \/ IsInf(fmt, b),
                WithSignOf(sp, UnitsOf(fmt, a) * UnitsOf(fmt, b)), Scale(fmt), c, sc, rm)

ConvertSpec(from, to, a, rm) ==
    IF IsNan(from, a) THEN [v |-> nan(to), flags |-> IF IsSignalling(from, a) THEN {"NV"} ELSE {}]
    ELSE IF IsInf(from, a) THEN Exact(inf(to, Negative(from, a)))
    ELSE RoundedRatio(to, SignedUnits(from, a) * Scale(to), Scale(from), Negative(from, a), rm)

\* The integers around n / d, the one rounding chooses and whether it is exact.
RoundedInteger(n, d, rm) ==
    WithSignOf(n < 0, Abs(n) \div d
                      + IF Abs(n) % d # 0 /\ Away(n < 0, rm, (Abs(n) \div d) % 2 = 1,
                                                  Compare(Ratio(Abs(n) % d, d), 1))
                        THEN 1 ELSE 0)

Largest(width, signed) == IF signed THEN 2^(width - 1) - 1 ELSE 2^width - 1
Smallest(width, signed) == IF signed THEN - 2^(width - 1) ELSE 0

Clamped(n, exact, width, signed) ==
    IF n > Largest(width, signed) THEN [v |-> Largest(width, signed), flags |-> {"NV"}]
    ELSE IF n < Smallest(width, signed) THEN [v |-> Smallest(width, signed), flags |-> {"NV"}]
    ELSE [v |-> n, flags |-> IF exact THEN {} ELSE {"NX"}]

IntegerSpec(fmt, a, width, signed, rm) ==
    IF IsNan(fmt, a) \/ (IsInf(fmt, a) /\ ~ Negative(fmt, a))
    THEN [v |-> Largest(width, signed), flags |-> {"NV"}]
    ELSE IF IsInf(fmt, a) THEN [v |-> Smallest(width, signed), flags |-> {"NV"}]
    ELSE Clamped(RoundedInteger(SignedUnits(fmt, a), Scale(fmt), rm),
                 UnitsOf(fmt, a) % Scale(fmt) = 0, width, signed)

-----------------------------------------------------------------------------
(* The compressed formats: which bit of the immediate each bit of a halfword *)
(* carries, from the left, as the tables of the manual print them.           *)

CI == <<12, 6, 5, 4, 3, 2>>
CL == <<12, 11, 10, 6, 5>>
CSS == <<12, 11, 10, 9, 8, 7>>
CIW == <<12, 11, 10, 9, 8, 7, 6, 5>>
CB == <<12, 11, 10, 6, 5, 4, 3, 2>>
CJ == <<12, 11, 10, 9, 8, 7, 6, 5, 4, 3, 2>>

Laid(at, order) == [k \in DOMAIN at |-> <<at[k], order[k]>>]

\* An access of a word or a doubleword, by its quadrant.
Access(i, w) ==
    CASE i % 4 = 0 -> Laid(CL, IF w.f3 = 2 THEN <<5, 4, 3, 2, 6>> ELSE <<5, 4, 3, 7, 6>>)
      [] i % 4 = 2 -> Laid(IF w.op \in {LOAD, LOAD_FP} THEN CI ELSE CSS,
                            IF w.f3 = 2 THEN <<5, 4, 3, 2, 7, 6>> ELSE <<5, 4, 3, 8, 7, 6>>)

\* C.ADDI16SP shares its place with C.LUI.
IsAddi16sp(i, w) == w.op = OP_IMM /\ i % 4 = 1 /\ i \div 2^13 = 3
IsShift(w) == w.op = OP_IMM /\ w.f3 \in {1, 5}

Carried(i, w) ==
    CASE w.op \in {LOAD, LOAD_FP, STORE, STORE_FP} -> Access(i, w)
      [] w.op = JAL -> Laid(CJ, <<11, 4, 9, 8, 10, 6, 7, 3, 2, 1, 5>>)
      [] w.op = BRANCH -> Laid(CB, <<8, 4, 3, 7, 6, 2, 1, 5>>)
      [] w.op = OP_IMM /\ i % 4 = 0 -> Laid(CIW, <<5, 4, 9, 8, 7, 6, 2, 3>>)
      [] IsAddi16sp(i, w) -> Laid(CI, <<9, 4, 6, 8, 7, 5>>)
      [] w.op \in {OP_IMM, OP_IMM32, LUI} /\ ~ IsAddi16sp(i, w) /\ i % 4 # 0 ->
           Laid(CI, <<5, 4, 3, 2, 1, 0>>)
      [] OTHER -> <<>>                         \* no immediate

\* The leftmost bit of a signed immediate is its sign.
IsSigned(i, w) == w.op \in {JAL, BRANCH, LUI, OP_IMM32} \/ (w.op = OP_IMM /\ i % 4 = 1 /\ ~ IsShift(w))
Gathered(i, w, carried) ==
    MapThenSumSet(LAMBDA k : bits(i, carried[k][1], carried[k][1]) * 2^carried[k][2]
                               * IF k = 1 /\ IsSigned(i, w) THEN -1 ELSE 1,
                  DOMAIN carried)

\* What execute takes for the immediate; a shift's has the operation above it.
Immediate(w) ==
    CASE w.op \in {STORE, STORE_FP} -> imm_s(w)
      [] w.op = BRANCH -> imm_b(w)
      [] w.op = JAL -> imm_j(w)
      [] w.op = LUI -> imm_u(w)
      [] IsShift(w) -> imm_i(w) % 2^6
      [] OTHER -> imm_i(w)

OnlyRv64(w) == w.op \in {OP32, OP_IMM32} \/ (w.op \in {LOAD, STORE} /\ w.f3 = 3)

-----------------------------------------------------------------------------
(* Properties *)

Newest(ops) == "op" \in DOMAIN last.inst /\ last.inst.op \in ops
Result == [v |-> last.v, flags |-> last.flags]
Fmt == fp_fmt(last.inst)

\* Registers keep their width, the floating-point state its fields (cpu.rs Cpu).
TypeOK ==
    /\ guest \in DOMAIN Guests
    /\ regs \in [1 .. 2 -> 0 .. 2^xb - 1]
    /\ DOMAIN fregs = 0 .. 2 /\ \A r \in 0 .. 2 : fregs[r] \in 0 .. 2^Wide - 1
    /\ fcsr \subseteq WRITABLE
    /\ fs \in 0 .. 3
    /\ minstret \in 0 .. 2^Wide - 1
    /\ cur \in G.processes
    /\ steps \in 0 .. G.steps

\* Addition, subtraction, multiplication, division and square root return the
\* exact result rounded once in the mode asked for, with exactly the flags that
\* rounding raises (round_pack is given sticky bits in place of lost ones).
ArithmeticRounded ==
    /\ Newest({"FADD"}) => Result = SumSpec(Fmt, last.a, last.b, Negative(Fmt, last.b), last.rm)
    /\ Newest({"FSUB"}) => Result = SumSpec(Fmt, last.a, last.b, ~ Negative(Fmt, last.b), last.rm)
    /\ Newest({"FMUL"}) => Result = ProductSpec(Fmt, last.a, last.b, last.rm)
    /\ Newest({"FDIV"}) => Result = QuotientSpec(Fmt, last.a, last.b, last.rm)
    /\ Newest({"FSQRT"}) => Result = RootSpec(Fmt, last.a, last.rm)

\* The fused family rounds a * b + c once, even where the product and the addend
\* cancel or lie too far apart for one word (add_raw's depth).
FusedRoundsOnce ==
    Newest({"FMADD", "FMSUB", "FNMSUB", "FNMADD"}) =>
        Result = FusedSpec(Fmt, last.a, last.b,
                           ProductSign(Fmt, last.a, last.b) # NegatesProduct(last.inst),
                           last.c, Negative(Fmt, last.c) # NegatesAddend(last.inst), last.rm)

\* Conversions between formats and from integers round once; conversions to an
\* integer saturate, and then report invalid and nothing else.  A register read
\* as a single is one only if a single was put there: another pattern is a NaN
\* (looked at before the kernel brings in another process's registers).
ConversionsRounded ==
    /\ Newest({"FCVT.F.F"}) /\ last.inst.fmt = "D" /\ last.inst.rs1 # last.inst.rd /\ fs = Dirty
         /\ fregs[last.inst.rs1] < 2^Wide - 2^Narrow => last.v = nan(D)
    /\ Newest({"FCVT.F.F"}) => Result = ConvertSpec(OtherFmt(last.inst), Fmt, last.a, last.rm)
    /\ Newest({"FCVT.F.X"}) =>
         Result = RoundedRatio(Fmt, IntOperand(last.inst, last.a) * Scale(Fmt), 1, FALSE, last.rm)
    /\ Newest({"FCVT.X.F"}) =>
         LET r == IntegerSpec(Fmt, last.a, IntWidth(last.inst), IntSigned(last.inst), last.rm)
         IN  last.v = sext(r.v, IntWidth(last.inst)) /\ last.flags = r.flags

\* Comparisons, minimum and maximum order patterns as the numbers they are: -0
\* equals +0 but is the smaller, and NaNs are unordered.
OrderIsNumeric ==
    Newest({"FLT", "FLE", "FEQ", "FMIN", "FMAX"}) =>
        LET op == last.inst.op
            a == last.a
            b == last.b
            nans == {v \in {a, b} : IsNan(Fmt, v)}
            less == SignedUnits(Fmt, a) < SignedUnits(Fmt, b)
            same == SignedUnits(Fmt, a) = SignedUnits(Fmt, b)
            first == less \/ (same /\ Negative(Fmt, a))
        IN  /\ op = "FLT" => last.v = IF nans = {} /\ less THEN 1 ELSE 0
            /\ op = "FLE" => last.v = IF nans = {} /\ (less \/ same) THEN 1 ELSE 0
            /\ op = "FEQ" => last.v = IF nans = {} /\ same THEN 1 ELSE 0
            /\ op \in {"FMIN", "FMAX"} =>
                 last.v = IF {a, b} \ nans = {} THEN nan(Fmt)
                          ELSE IF IsNan(Fmt, a) THEN b
                          ELSE IF IsNan(Fmt, b) THEN a
                          ELSE IF (op = "FMIN") = first THEN a ELSE b
            /\ last.flags = IF IF op \in {"FLT", "FLE"} THEN nans # {}
                               ELSE \E v \in nans : IsSignalling(Fmt, v)
                            THEN {"NV"} ELSE {}

\* A compressed instruction decodes to the immediate the manual scatters over
\* it, exists on this hart, and has no bit that makes no difference
\* (compress.rs decompress through decode.rs).
ExpansionIsAlias ==
    last.inst.kind = "C" /\ last.word # Reserved =>
        LET i == last.inst.half
            w == last.word
        IN  /\ Carried(i, w) # <<>> => Immediate(w) = Gathered(i, w, Carried(i, w))
            /\ OnlyRv64(w) => xb = Wide
            /\ \A b \in 2 .. 12 : bits(i, b, b) = 0 => decompress(i + 2^b, xb = Wide) # w

\* The W form of an operation on RV64 is the RV32 operation on the low halves,
\* sign-extended, whatever the upper halves hold.
NarrowIsRv32 ==
    last.inst.kind \in {"OP", "OP-IMM"} /\ last.inst.narrow =>
        last.v = IF last.inst.op \in AluOps
                 THEN sext(alu(last.inst.op, trunc(last.a, Narrow), trunc(last.b, Narrow), Narrow)
                             % 2^Narrow, Narrow)
                 ELSE sext(muldiv(last.inst.op, trunc(last.a, Narrow), trunc(last.b, Narrow), Narrow)
                             % 2^Narrow, Narrow)

\* The two halves of a product are the product, and a quotient and its remainder
\* make up the dividend, the remainder small and of the dividend's sign.
DivisionAndHalves ==
    last.inst.kind = "OP" =>
        LET w == Width(last.inst)
            op == last.inst.op
            low == alu("ADD", muldiv("MUL", last.a, last.b, w), 0, w)
            sa == Signed(last.a, w)
            sb == Signed(last.b, w)
            ua == trunc(last.a, w)
            ub == trunc(last.b, w)
        IN  /\ op = "MULH" => Signed(last.v, w) * 2^w + trunc(low, w) = sa * sb
            /\ op = "MULHSU" => Signed(last.v, w) * 2^w + trunc(low, w) = sa * ub
            /\ op = "MULHU" => trunc(last.v, w) * 2^w + trunc(low, w) = ua * ub
            /\ op = "REM" /\ sb # 0 =>
                 /\ (sb * Signed(muldiv("DIV", last.a, last.b, w), w) + Signed(last.v, w) - sa)
                      % 2^w = 0
                 /\ Abs(Signed(last.v, w)) < Abs(sb)
                 /\ Signed(last.v, w) # 0 => (Signed(last.v, w) < 0) = (sa < 0)
            /\ op = "REMU" /\ ub # 0 =>
                 /\ ub * trunc(muldiv("DIVU", last.a, last.b, w), w) + trunc(last.v, w) = ua
                 /\ trunc(last.v, w) < ub
            /\ op \in {"REM", "REMU"} /\ ub = 0 => trunc(last.v, w) = ua
            /\ op \in {"DIV", "DIVU"} /\ ub = 0 => trunc(last.v, w) = 2^w - 1

\* Branches, the set-if-less instructions and the atomic minima agree on what
\* is less, at every width.
OrdersAgree ==
    LET w == IF last.inst.kind = "AMO" THEN Width(last.inst) ELSE xb
        slt == alu("SLT", last.a, last.b, w) = 1
        sltu == alu("SLTU", last.a, last.b, w) = 1
        Least(less) == trunc(IF less THEN last.a ELSE last.b, w)
        Greatest(less) == trunc(IF less THEN last.b ELSE last.a, w)
    IN  /\ Newest({"BLT"}) => (last.v = 1) = slt
        /\ Newest({"BGE"}) => (last.v = 1) = ~ slt
        /\ Newest({"BLTU"}) => (last.v = 1) = sltu
        /\ Newest({"BGEU"}) => (last.v = 1) = ~ sltu
        /\ Newest({"BEQ"}) => (last.v = 1) = (~ sltu /\ alu("SLTU", last.b, last.a, w) = 0)
        /\ Newest({"BNE"}) => (last.v = 1) = (sltu \/ alu("SLTU", last.b, last.a, w) = 1)
        /\ Newest({"AMOMIN"}) => last.v = Least(slt)
        /\ Newest({"AMOMAX"}) => last.v = Greatest(slt)
        /\ Newest({"AMOMINU"}) => last.v = Least(sltu)
        /\ Newest({"AMOMAXU"}) => last.v = Greatest(sltu)

\* A process always finds the floating-point context it left, though the kernel
\* saves only dirty contexts and loads lazily: every change of the context marks
\* it dirty, and none is possible while the unit is off.
ContextKept == fs # Off => Context = shadow[cur]

\* minstret counts the instructions that retired since it was last written, all
\* of its bits on RV64 and the low half on RV32.
CountsRetired ==
    IF xb = Wide THEN minstret = counted ELSE trunc(minstret, Narrow) = trunc(counted, Narrow)
=============================================================================
