------------------------------ MODULE Execute ------------------------------
(***************************************************************************)
(* The integer and floating-point instructions of one hart (emu/src/cpu.rs:*)
(* execute, execute_op_fp and the helpers they use), with the part of the  *)
(* status and counter registers they touch, under a kernel that shares the *)
(* floating-point unit between two processes by mstatus.FS.                *)
(*                                                                         *)
(* An instruction is a record of its decoded fields.  Register x0 is not   *)
(* part of regs; operands and results are bit patterns.  `last` records    *)
(* what the newest instruction read and produced.                          *)
(***************************************************************************)
EXTENDS Alu, Fpu, Compress, Sequences

CONSTANT Guests     \* by name: [xlen, insts, halfwords, initRegs, initFregs, fs, instret, processes, steps, traced]

\* A float is as wide as a register of its size, and the unit's word is wider.
ASSUME FormatAssumption == SingleBits = Narrow /\ DoubleBits = Wide /\ Wide < Word

\* The laws of powers the arithmetic rests on, as far as that word reaches.
ASSUME PowerAssumption ==
    /\ 2^0 = 1 /\ 2^1 = 2
    /\ \A j, k \in 0 .. Word : 2^j \in Nat \ {0} /\ 2^(j + k) = 2^j * 2^k

\* Registers hold register values when a guest starts.
ASSUME ResetAssumption ==
    \A name \in DOMAIN Guests :
        LET g == Guests[name] IN
        /\ g.initRegs \subseteq [1 .. 2 -> 0 .. 2^g.xlen - 1]
        /\ g.initFregs \subseteq [0 .. 2 -> 0 .. 2^Wide - 1]
        /\ g.fs \in 0 .. 3 /\ g.steps \in Nat

\* A hart has one of the two widths, and its counter is written through a
\* register of that width.
ASSUME CounterAssumption ==
    \A name \in DOMAIN Guests :
        LET g == Guests[name] IN
        /\ g.xlen \in {Narrow, Wide}
        /\ g.instret \in 0 .. 2^Wide - 1
        /\ \A i \in g.insts : i.kind = "INSTRET" =>
             i.csr \in {"minstret", "minstreth"} /\ i.src \in 0 .. 2^g.xlen - 1

FpOps == {"FADD", "FSUB", "FMUL", "FDIV", "FSQRT", "FMIN", "FMAX", "FLE", "FLT", "FEQ",
          "FCVT.F.F", "FCVT.X.F", "FCVT.F.X"}
FusedOps == {"FMADD", "FMSUB", "FNMSUB", "FNMADD"}

\* Decoding gives an instruction the operations of its kind and registers the
\* hart has.
ASSUME DecodeAssumption ==
    \A name \in DOMAIN Guests : \A i \in Guests[name].insts :
        /\ i.kind \in {"OP", "BRANCH"} => i.rs1 \in 1 .. 2 /\ i.rs2 \in 1 .. 2
        /\ i.kind = "OP-IMM" => i.rs1 \in 1 .. 2 /\ i.imm \in Int
        /\ i.kind = "AMO" => i.rs2 \in 1 .. 2 /\ i.old \in Nat
        /\ i.kind \in {"OP-FP", "FMADD"} =>
             i.rs1 \in 1 .. 2 /\ i.rs2 \in 1 .. 2 /\ "rm" \in DOMAIN i /\ i.rm \in 0 .. 7
        /\ i.kind = "FMADD" => i.rs3 \in 0 .. 2
        /\ i.kind = "LOAD-FP" => i.old \in 0 .. 2^Wide - 1
        /\ i.kind = "FP-CSR" => i.csr \in {"fflags", "frm", "fcsr"}
        /\ i.kind = "BRANCH" => i.op \in BranchOps
        /\ "op" \in DOMAIN i /\ i.op \in BranchOps \cup AmoOps => i.kind \in {"BRANCH", "AMO"}
        /\ "op" \in DOMAIN i /\ i.op \in FpOps => i.kind = "OP-FP"
        /\ "op" \in DOMAIN i /\ i.op \in FusedOps => i.kind = "FMADD"

VARIABLES
    guest,      \* the name of the guest this behaviour runs
    regs,       \* integer registers
    fregs,      \* floating-point registers, always Wide bits
    fcsr,       \* the bits of fcsr: flags, and the rounding mode as RM0..RM2
    fs,         \* mstatus.FS
    minstret,   \* the retired-instruction counter
    cur,        \* the process that runs
    saved,      \* what the kernel has saved of each process's FP context
    shadow,     \* history: each process's FP context as its own instructions left it
    counted,    \* history: what minstret should hold
    last,       \* history: the newest instruction, its operands and result
    steps

fpVars == <<fregs, fcsr, fs>>
kernelVars == <<cur, saved>>
vars == <<guest, regs, fregs, fcsr, fs, minstret, cur, saved, shadow, counted, last, steps>>

Off == 0
Initial == 1
Clean == 2
Dirty == 3

FLAGS == {"NX", "UF", "OF", "DZ", "NV"}
RM == {"RM0", "RM1", "RM2"}
WRITABLE == FLAGS \cup RM

G == Guests[guest]
xb == G.xlen
Context == <<fregs, fcsr>>
NoInst == [kind |-> "none"]

-----------------------------------------------------------------------------
(* Registers *)

\* The bug of leaving a result's sign bits above the register's width.
wr_untruncated(r, v) == regs' = [regs EXCEPT ![r] = v % 2^Wide]

wr(r, v) == regs' = [regs EXCEPT ![r] = trunc(v, xb)]

\* Only a value with its upper bits set is a single; anything else is a NaN.
unbox(v) == IF v \div 2^Narrow = 2^(Wide - Narrow) - 1 THEN v % 2^Narrow ELSE nan(S)
box32(v) == (2^Wide - 2^Narrow) + (v % 2^Narrow)

fp_fmt(i) == IF i.fmt = "S" THEN S ELSE D
freg(i, r) == IF i.fmt = "S" THEN unbox(fregs[r]) ELSE fregs[r]
Boxed(i, v) == IF i.fmt = "S" THEN box32(v) ELSE v

fp_enabled == fs # Off

frm == (IF "RM0" \in fcsr THEN 1 ELSE 0) + (IF "RM1" \in fcsr THEN 2 ELSE 0)
       + (IF "RM2" \in fcsr THEN 4 ELSE 0)

\* The instruction's mode, or the dynamic one; "none" when it is reserved.
rounding(i) == from_bits(IF i.rm = 7 THEN frm ELSE i.rm)

\* The bug of recording flags without marking the context as changed.
set_fflags_clean(flags) == fcsr' = fcsr \cup flags /\ UNCHANGED fs

\* Flags accrue, and the context is dirty even when none is new.
set_fflags(flags) == fcsr' = fcsr \cup flags /\ fs' = Dirty

\* fw alone: a register write that raises no flag.
fw(r, v) == fregs' = [fregs EXCEPT ![r] = v] /\ fs' = Dirty

-----------------------------------------------------------------------------
(* Retirement (the end of step) *)

\* On RV32 the counter is read through the narrow register.
NextInstret == (trunc(minstret, xb) + 1) % 2^Wide

Count == minstret' = NextInstret /\ counted' = (counted + 1) % 2^Wide

Trace(i, a, b, c, v, flags) ==
    last' = IF G.traced
            THEN [inst |-> i, rm |-> IF "rm" \in DOMAIN i THEN rounding(i) ELSE "none",
                  a |-> a, b |-> b, c |-> c, v |-> v, flags |-> flags]
            ELSE last

\* An instruction that traps has changed none of this.
Trapped == last' = [inst |-> NoInst] /\ UNCHANGED <<regs, fpVars, minstret, counted>>

Illegal(i) == Trapped

\* An instruction whose result goes to an integer register.
IntegerResult(i, a, b, v) ==
    /\ wr(i.rd, v)
    /\ Trace(i, a, b, 0, v, {})
    /\ Count
    /\ UNCHANGED fpVars

\* An operation that writes an f register and accrues its flags.
FpResult(i, a, b, c, r) ==
    /\ fregs' = [fregs EXCEPT ![i.rd] = Boxed(i, r.v)]
    /\ set_fflags(r.flags)
    /\ Trace(i, a, b, c, r.v, r.flags)
    /\ Count
    /\ UNCHANGED regs

\* An operation that writes an integer register and accrues its flags.
FpToInteger(i, a, b, v, r) ==
    /\ wr(i.rd, v)
    /\ set_fflags(r.flags)
    /\ Trace(i, a, b, 0, v, r.flags)
    /\ Count
    /\ UNCHANGED fregs

\* A move into an f register, which raises nothing.
FpMove(i, a, b, v) ==
    /\ fw(i.rd, v)
    /\ Trace(i, a, b, 0, v, {})
    /\ Count
    /\ UNCHANGED <<regs, fcsr>>

-----------------------------------------------------------------------------
(* Integer instructions *)

\* The narrow forms exist on RV64 only.
Width(i) == IF i.narrow THEN Narrow ELSE xb
NoSuchWidth(i) == i.narrow /\ xb = Narrow

\* OP and OP-32.
Op(i) ==
    IF NoSuchWidth(i) THEN Illegal(i)
    ELSE IF i.op \in MulDivOps
    THEN IntegerResult(i, regs[i.rs1], regs[i.rs2], muldiv(i.op, regs[i.rs1], regs[i.rs2], Width(i)))
    ELSE IF i.op \in AluOps
    THEN IntegerResult(i, regs[i.rs1], regs[i.rs2], alu(i.op, regs[i.rs1], regs[i.rs2], Width(i)))
    ELSE Illegal(i)

\* OP-IMM and OP-IMM-32; imm is a shift amount or a signed constant.  A narrow
\* shift has no room for an amount of Narrow or more.
OpImm(i) ==
    IF NoSuchWidth(i) \/ i.op \notin AluOps \ {"SUB"} THEN Illegal(i)
    ELSE IF i.op \in {"SLL", "SRL", "SRA"} /\ Width(i) = Narrow /\ i.imm >= Narrow THEN Illegal(i)
    ELSE IntegerResult(i, regs[i.rs1], i.imm % 2^Wide,
                       alu(i.op, regs[i.rs1], i.imm % 2^Wide, Width(i)))

\* The condition decides the pc, which is left to the run loop's model.
Branch(i) ==
    /\ Trace(i, regs[i.rs1], regs[i.rs2], 0, IF taken(i.op, regs[i.rs1], regs[i.rs2], xb) THEN 1 ELSE 0, {})
    /\ Count
    /\ UNCHANGED <<regs, fpVars>>

\* The arithmetic of an AMO on a word that holds i.old: rd gets the old word,
\* memory what is traced.
AmoOp(i) ==
    IF NoSuchWidth(i) \/ i.op \notin AmoOps THEN Illegal(i)
    ELSE /\ wr(i.rd, sext(i.old, Width(i)))
         /\ Trace(i, i.old, regs[i.rs2], 0, amo(i.op, i.old, regs[i.rs2], Width(i)), {})
         /\ Count
         /\ UNCHANGED fpVars

-----------------------------------------------------------------------------
(* Floating-point instructions, all of which need the unit on *)

Arithmetic(i, a, b, rm) ==
    CASE i.op = "FADD" -> add(fp_fmt(i), a, b, rm)
      [] i.op = "FSUB" -> sub(fp_fmt(i), a, b, rm)
      [] i.op = "FMUL" -> mul(fp_fmt(i), a, b, rm)
      [] i.op = "FDIV" -> div(fp_fmt(i), a, b, rm)
      [] i.op = "FSQRT" -> sqrt(fp_fmt(i), a, rm)

Compared(i, a, b) ==
    CASE i.op = "FLE" -> lt(fp_fmt(i), a, b, TRUE)
      [] i.op = "FLT" -> lt(fp_fmt(i), a, b, FALSE)
      [] i.op = "FEQ" -> eq(fp_fmt(i), a, b)

InjectedSign(i, sa, sb) ==
    CASE i.op = "FSGNJ" -> sb [] i.op = "FSGNJN" -> ~ sb [] i.op = "FSGNJX" -> sa # sb

\* The integer formats of the conversions; the Wide ones exist on RV64 only.
IntWidth(i) == IF i.int \in {"L", "LU"} THEN Wide ELSE Narrow
IntSigned(i) == i.int \in {"W", "L"}
NoSuchInt(i) == IntWidth(i) = Wide /\ xb = Narrow

\* The integer operand of a conversion as a number.
IntOperand(i, v) == IF IntSigned(i) THEN Signed(v, IntWidth(i)) ELSE trunc(v, IntWidth(i))

OtherFmt(i) == IF i.fmt = "S" THEN D ELSE S
OtherOperand(i) == IF i.fmt = "S" THEN fregs[i.rs1] ELSE unbox(fregs[i.rs1])

\* OP-FP.
execute_op_fp(i) ==
    CASE i.op \in {"FADD", "FSUB", "FMUL", "FDIV", "FSQRT"} ->
           IF rounding(i) = "none" THEN Illegal(i)
           ELSE FpResult(i, freg(i, i.rs1), freg(i, i.rs2), 0,
                         Arithmetic(i, freg(i, i.rs1), freg(i, i.rs2), rounding(i)))
      [] i.op \in {"FSGNJ", "FSGNJN", "FSGNJX"} ->
           FpMove(i, freg(i, i.rs1), freg(i, i.rs2),
                  Boxed(i, WithSign(fp_fmt(i),
                                    InjectedSign(i, Negative(fp_fmt(i), freg(i, i.rs1)),
                                                 Negative(fp_fmt(i), freg(i, i.rs2))),
                                    freg(i, i.rs1))))
      [] i.op \in {"FMIN", "FMAX"} ->
           FpResult(i, freg(i, i.rs1), freg(i, i.rs2), 0,
                    min_max(fp_fmt(i), freg(i, i.rs1), freg(i, i.rs2), i.op = "FMAX"))
      [] i.op = "FCVT.F.F" ->
           IF rounding(i) = "none" THEN Illegal(i)
           ELSE FpResult(i, OtherOperand(i), 0, 0,
                         convert(OtherFmt(i), fp_fmt(i), OtherOperand(i), rounding(i)))
      [] i.op \in {"FLE", "FLT", "FEQ"} ->
           FpToInteger(i, freg(i, i.rs1), freg(i, i.rs2),
                       Compared(i, freg(i, i.rs1), freg(i, i.rs2)).v,
                       Compared(i, freg(i, i.rs1), freg(i, i.rs2)))
      [] i.op = "FCVT.X.F" ->
           IF rounding(i) = "none" \/ NoSuchInt(i) THEN Illegal(i)
           ELSE FpToInteger(i, freg(i, i.rs1), 0,
                    sext(to_int(fp_fmt(i), freg(i, i.rs1), IntWidth(i), IntSigned(i),
                                rounding(i)).v, IntWidth(i)),
                    to_int(fp_fmt(i), freg(i, i.rs1), IntWidth(i), IntSigned(i), rounding(i)))
      [] i.op = "FCVT.F.X" ->
           IF rounding(i) = "none" \/ NoSuchInt(i) THEN Illegal(i)
           ELSE FpResult(i, regs[i.rs1], 0, 0,
                    from_int(fp_fmt(i), IntOperand(i, regs[i.rs1]) < 0, Abs(IntOperand(i, regs[i.rs1])),
                             rounding(i)))
      [] i.op = "FMV.X.F" ->
           IF i.fmt = "D" /\ xb = Narrow THEN Illegal(i)
           ELSE IntegerResult(i, fregs[i.rs1], 0,
                              IF i.fmt = "S" THEN sext(fregs[i.rs1], Narrow) ELSE fregs[i.rs1])
      [] i.op = "FCLASS" ->
           IntegerResult(i, freg(i, i.rs1), 0, 2^classify(fp_fmt(i), freg(i, i.rs1)))
      [] i.op = "FMV.F.X" ->
           IF i.fmt = "D" /\ xb = Narrow THEN Illegal(i)
           ELSE FpMove(i, regs[i.rs1], 0, Boxed(i, regs[i.rs1]))
      [] OTHER -> Illegal(i)

OpFp(i) == IF fp_enabled /\ i.fmt \in {"S", "D"} THEN execute_op_fp(i) ELSE Illegal(i)

NegatesProduct(i) == i.op \in {"FNMSUB", "FNMADD"}
NegatesAddend(i) == i.op \in {"FMSUB", "FNMADD"}

Fused(i) ==
    IF i.fmt \notin {"S", "D"} \/ rounding(i) = "none" \/ ~ fp_enabled THEN Illegal(i)
    ELSE FpResult(i, freg(i, i.rs1), freg(i, i.rs2), freg(i, i.rs3),
                  fma(fp_fmt(i), freg(i, i.rs1), freg(i, i.rs2), freg(i, i.rs3),
                      NegatesProduct(i), NegatesAddend(i), rounding(i)))

\* The memory access may fault, and then nothing is written.
LoadFp(i) ==
    IF ~ fp_enabled \/ i.fmt \notin {"S", "D"} THEN Illegal(i)
    ELSE Trapped \/ FpMove(i, i.old, 0, Boxed(i, i.old))

-----------------------------------------------------------------------------
(* Zicsr, on the registers kept here *)

Written(i, old) ==
    CASE i.op = "CSRRW" -> i.src [] i.op = "CSRRS" -> old \cup i.src [] i.op = "CSRRC" -> old \ i.src

Field(i) ==
    CASE i.csr = "fflags" -> FLAGS [] i.csr = "frm" -> RM [] i.csr = "fcsr" -> WRITABLE

\* A set or clear from x0 writes nothing; one from a register that holds zero does.
Writes(i) == i.op = "CSRRW" \/ ~ i.x0

\* The old value goes to x0.
FpCsr(i) ==
    IF ~ fp_enabled THEN Illegal(i)
    ELSE /\ fcsr' = (fcsr \ Field(i))
                    \cup IF Writes(i) THEN Written(i, fcsr \cap Field(i)) \cap Field(i)
                         ELSE fcsr \cap Field(i)
         /\ fs' = IF Writes(i) THEN Dirty ELSE fs
         /\ Trace(i, 0, 0, 0, 0, {})
         /\ Count
         /\ UNCHANGED <<regs, fregs>>

\* The bug of counting the instruction that set the counter.
InstretWrite_counted(i) ==
    /\ minstret' = ((IF i.csr = "minstreth" THEN i.src * 2^Narrow + trunc(minstret, Narrow)
                     ELSE i.src) + 1) % 2^Wide
    /\ counted' = IF i.csr = "minstreth" THEN (i.src * 2^Narrow + trunc(counted, Narrow)) % 2^Wide
                  ELSE i.src
    /\ Trace(i, 0, 0, 0, 0, {})
    /\ UNCHANGED <<regs, fpVars>>

\* CSRRW to x0.  A write of the counter suppresses that instruction's own increment.
InstretWrite(i) ==
    /\ minstret' = IF i.csr = "minstreth"
                   THEN (i.src * 2^Narrow + trunc(minstret, Narrow)) % 2^Wide
                   ELSE i.src
    /\ counted' = IF i.csr = "minstreth"
                  THEN (i.src * 2^Narrow + trunc(counted, Narrow)) % 2^Wide
                  ELSE i.src
    /\ Trace(i, 0, 0, 0, 0, {})
    /\ UNCHANGED <<regs, fpVars>>

\* minstreth exists on RV32 only.
CsrInstret(i) == IF i.csr = "minstreth" /\ xb = Wide THEN Illegal(i) ELSE InstretWrite(i)

-----------------------------------------------------------------------------
execute(i) ==
    \/ i.kind = "OP" /\ Op(i)
    \/ i.kind = "OP-IMM" /\ OpImm(i)
    \/ i.kind = "BRANCH" /\ Branch(i)
    \/ i.kind = "AMO" /\ AmoOp(i)
    \/ i.kind = "OP-FP" /\ OpFp(i)
    \/ i.kind = "FMADD" /\ Fused(i)
    \/ i.kind = "LOAD-FP" /\ LoadFp(i)
    \/ i.kind = "FP-CSR" /\ FpCsr(i)
    \/ i.kind = "INSTRET" /\ CsrInstret(i)

\* fetch of a compressed instruction.  Its alias then runs like any other,
\* which is what the other guests are for: here only the expansion is kept.
Fetch ==
    /\ steps < G.steps
    /\ \E i \in G.halfwords :
         last' = [inst |-> [kind |-> "C", half |-> i], word |-> decompress(i, xb = Wide)]
    /\ steps' = steps + 1
    /\ UNCHANGED <<guest, regs, fpVars, minstret, kernelVars, shadow, counted>>

Step ==
    /\ steps < G.steps
    /\ \E i \in G.insts : execute(i)
    /\ shadow' = [shadow EXCEPT ![cur] = IF Context' # Context THEN Context' ELSE @]
    /\ steps' = steps + 1
    /\ UNCHANGED <<guest, kernelVars>>

\* The kernel (external): a switch saves the outgoing context if it is dirty
\* and turns the unit off; nothing is loaded until the process needs it.
Switch ==
    /\ steps < G.steps
    /\ \E p \in G.processes \ {cur} :
         /\ cur' = p
         /\ saved' = IF fs = Dirty THEN [saved EXCEPT ![cur] = Context] ELSE saved
         /\ fs' = Off
    /\ steps' = steps + 1
    /\ UNCHANGED <<guest, regs, fregs, fcsr, minstret, shadow, counted, last>>

\* The kernel's answer to the trap of the first floating-point instruction.
FirstUse ==
    /\ steps < G.steps
    /\ fs = Off
    /\ fregs' = saved[cur][1]
    /\ fcsr' = saved[cur][2]
    /\ fs' = Clean
    /\ steps' = steps + 1
    /\ UNCHANGED <<guest, regs, minstret, kernelVars, shadow, counted, last>>

Init ==
    /\ guest \in DOMAIN Guests
    /\ regs \in G.initRegs
    /\ fregs \in G.initFregs
    /\ fcsr = {}
    /\ fs = G.fs
    /\ minstret = G.instret
    /\ counted = G.instret
    /\ cur \in G.processes
    /\ saved = [p \in G.processes |-> Context]
    /\ shadow = [p \in G.processes |-> Context]
    /\ last = [inst |-> NoInst]
    /\ steps = 0

Next == Fetch \/ Step \/ Switch \/ FirstUse

Spec == Init /\ [][Next]_vars
=============================================================================
