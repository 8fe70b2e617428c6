-------------------------------- MODULE Alu --------------------------------
(***************************************************************************)
(* The integer unit (emu/src/cpu.rs: sext, trunc, alu, muldiv and the AMO  *)
(* arithmetic).  Every operation is written once and parameterised by the  *)
(* width it works at, so the W forms of RV64 are the RV32 operations.      *)
(* Register values are numbers below 2^Wide.                               *)
(***************************************************************************)
EXTENDS Integers

CONSTANTS Narrow, Wide      \* 32 and 64 in the code

ASSUME AluAssumption == Narrow \in Nat /\ Wide \in Nat /\ 1 < Narrow /\ Narrow < Wide

trunc(v, width) == v % 2^width
Signed(v, width) ==
    IF trunc(v, width) >= 2^(width - 1) THEN trunc(v, width) - 2^width ELSE trunc(v, width)
sext(v, width) == Signed(v, width) % 2^Wide

\* A register as the set of its bits, for the bitwise operations.
Bits(v) == {k \in 0 .. Wide - 1 : (v \div 2^k) % 2 = 1}
Number(ks) ==
    LET sum[k \in 0 .. Wide] ==
          IF k = 0 THEN 0 ELSE sum[k - 1] + (IF k - 1 \in ks THEN 2^(k - 1) ELSE 0)
    IN  sum[Wide]

and(a, b) == Number(Bits(a) \cap Bits(b))
or(a, b) == Number(Bits(a) \cup Bits(b))
xor(a, b) == Number((Bits(a) \cup Bits(b)) \ (Bits(a) \cap Bits(b)))

\* The bug of shifting the register's upper bits in.
ShiftRight_whole(a, shamt, width) == a \div 2^shamt

ShiftRight(a, shamt, width) == trunc(a, width) \div 2^shamt

AluOps == {"ADD", "SUB", "SLL", "SLT", "SLTU", "XOR", "SRL", "SRA", "OR", "AND"}

AluValue(op, a, b, shamt, width) ==
    CASE op = "ADD" -> a + b
      [] op = "SUB" -> a - b
      [] op = "SLL" -> a * 2^shamt
      [] op = "SLT" -> IF Signed(a, width) < Signed(b, width) THEN 1 ELSE 0
      [] op = "SLTU" -> IF trunc(a, width) < trunc(b, width) THEN 1 ELSE 0
      [] op = "XOR" -> xor(a, b)
      [] op = "SRL" -> ShiftRight(a, shamt, width)
      [] op = "SRA" -> Signed(a, width) \div 2^shamt
      [] op = "OR" -> or(a, b)
      [] op = "AND" -> and(a, b)

alu(op, a, b, width) == sext(AluValue(op, a, b, and(b, width - 1), width), width)

-----------------------------------------------------------------------------
(* The M extension *)

Abs(n) == IF n < 0 THEN - n ELSE n

\* Rust's division truncates towards zero.
Truncated(n, d) == IF (n < 0) = (d < 0) THEN Abs(n) \div Abs(d) ELSE - (Abs(n) \div Abs(d))

MulDivOps == {"MUL", "MULH", "MULHSU", "MULHU", "DIV", "DIVU", "REM", "REMU"}

\* The bug of using rs1 twice that the code's comment warns of.
FullProduct_same_operand(op, sa, sb, ua, ub) ==
    CASE op = "MULH" -> sa * sb [] op = "MULHSU" -> sa * ua [] op = "MULHU" -> ua * ub

\* Of which the high-half multiplies keep the upper half.
FullProduct(op, sa, sb, ua, ub) ==
    CASE op = "MULH" -> sa * sb [] op = "MULHSU" -> sa * ub [] op = "MULHU" -> ua * ub

Remainder(n, d) == n - d * Truncated(n, d)

\* The quotient of the most negative number by -1 wraps when it is narrowed.
MulDivValue(op, sa, sb, ua, ub, width) ==
    CASE op = "MUL" -> ua * ub
      [] op \in {"MULH", "MULHSU", "MULHU"} -> FullProduct(op, sa, sb, ua, ub) \div 2^width
      [] op = "DIV" -> IF sb = 0 THEN 2^Wide - 1 ELSE Truncated(sa, sb)
      [] op = "DIVU" -> IF ub = 0 THEN 2^Wide - 1 ELSE ua \div ub
      [] op = "REM" -> IF sb = 0 THEN sa ELSE Remainder(sa, sb)
      [] op = "REMU" -> IF ub = 0 THEN ua ELSE ua % ub

muldiv(op, a, b, width) ==
    sext(MulDivValue(op, Signed(a, width), Signed(b, width), trunc(a, width), trunc(b, width),
                     width), width)

-----------------------------------------------------------------------------
(* Branch conditions, at the register width xb *)

BranchOps == {"BEQ", "BNE", "BLT", "BGE", "BLTU", "BGEU"}

taken(op, a, b, xb) ==
    CASE op = "BEQ" -> a = b
      [] op = "BNE" -> a # b
      [] op = "BLT" -> Signed(a, xb) < Signed(b, xb)
      [] op = "BGE" -> Signed(a, xb) >= Signed(b, xb)
      [] op = "BLTU" -> a < b
      [] op = "BGEU" -> a >= b

-----------------------------------------------------------------------------
(* AMO arithmetic: what goes to memory for the old word a, already extended *)

AmoOps == {"AMOADD", "AMOSWAP", "AMOXOR", "AMOOR", "AMOAND",
           "AMOMIN", "AMOMAX", "AMOMINU", "AMOMAXU"}

\* The bug of comparing the register without narrowing it first.
Below_whole_register(op, a, b, width) ==
    IF op \in {"AMOMIN", "AMOMAX"} THEN Signed(a, width) < Signed(b, Wide)
    ELSE trunc(a, width) < b

\* The order a minimum or maximum is taken in.
Below(op, a, b, width) ==
    IF op \in {"AMOMIN", "AMOMAX"} THEN Signed(a, width) < Signed(b, width)
    ELSE trunc(a, width) < trunc(b, width)

AmoValue(op, a, b, width) ==
    CASE op = "AMOADD" -> a + b
      [] op = "AMOSWAP" -> b
      [] op = "AMOXOR" -> xor(a, b)
      [] op = "AMOOR" -> or(a, b)
      [] op = "AMOAND" -> and(a, b)
      [] op \in {"AMOMIN", "AMOMINU"} -> IF Below(op, a, b, width) THEN a ELSE b
      [] op \in {"AMOMAX", "AMOMAXU"} -> IF Below(op, a, b, width) THEN b ELSE a

\* The word left in memory: write_mem stores its low bytes.
amo(op, old, b, width) == trunc(AmoValue(op, sext(old, width), b, width), width)
=============================================================================
