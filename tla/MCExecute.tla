----------------------------- MODULE MCExecute -----------------------------
(***************************************************************************)
(* Small instances of Execute: formats of 6 and 8 bits with 3 and 4 of     *)
(* exponent, so that subnormals, cancellation, overflow, both kinds of NaN *)
(* and a sum too wide for the word all occur.                              *)
(***************************************************************************)
EXTENDS Conformance

Modes == 0 .. 4
Zeros == [r \in 1 .. 2 |-> 0]

FpInst(op, fmt, rm) ==
    [kind |-> "OP-FP", op |-> op, fmt |-> fmt, rm |-> rm,
     rd |-> IF op \in {"FLE", "FLT", "FEQ"} THEN 1 ELSE 0, rs1 |-> 1, rs2 |-> 2]
FusedInst(op, fmt, rm) ==
    [kind |-> "FMADD", op |-> op, fmt |-> fmt, rm |-> rm, rd |-> 0, rs1 |-> 1, rs2 |-> 2, rs3 |-> 0]
ConvertInst(op, fmt, rm, int) ==
    [kind |-> "OP-FP", op |-> op, fmt |-> fmt, rm |-> rm, int |-> int, rd |-> 1, rs1 |-> 1,
     rs2 |-> 1]
Inst(kind, op, narrow) ==
    [kind |-> kind, op |-> op, narrow |-> narrow, rd |-> 1, rs1 |-> 1, rs2 |-> 2]
ImmInst(op, narrow, imm) ==
    [kind |-> "OP-IMM", op |-> op, narrow |-> narrow, imm |-> imm, rd |-> 1, rs1 |-> 1]
AmoInst(op, narrow, old) ==
    [kind |-> "AMO", op |-> op, narrow |-> narrow, old |-> old, rd |-> 1, rs2 |-> 2]

\* One instruction, from every choice of operands.
Guest(xlen, insts, xs, fs0) ==
    [xlen |-> xlen, insts |-> insts, halfwords |-> {}, initRegs |-> xs, initFregs |-> fs0, fs |-> Initial,
     instret |-> 0, processes |-> {1}, steps |-> 1, traced |-> TRUE]

Fregs(C, A, B) == {<<c, a, b>> : c \in C, a \in A, b \in B}
AsFregs(T) == {[r \in 0 .. 2 |-> t[r + 1]] : t \in T}

Signs(fmt, ks) == ks \cup {k + sign_mask(fmt) : k \in ks}

\* Of the 8-bit format, values whose exact products a 32-bit integer holds.
SomeDoubles == Signs(D, {0, 1, 5, 7, 8, 11, 40, 55, 56, 63, 70, 88, 120, 121, 126})
MoreDoubles == Signs(D, 0 .. 20) \cup {33, 47, 56, 61, 72, 85, 96, 120, 123, 127, 200}
AllSingles == 0 .. 63
SomeSingles == Signs(S, {0, 1, 3, 4, 7, 12, 13, 18, 27, 28, 29})
FewSingles == Signs(S, {0, 2, 5, 11, 14, 19}) \cup {28, 29, 31}

\* Single-precision arithmetic; the last register is a double read as a single.
SingleArithmetic ==
    Guest(Wide, {FpInst(op, "S", rm) : op \in {"FADD", "FSUB", "FMUL", "FDIV"}, rm \in Modes}
                \cup {FpInst(op, "S", 0) : op \in {"FLE", "FLT", "FEQ", "FMIN", "FMAX"}},
          {Zeros}, AsFregs(Fregs({0}, {box32(a) : a \in AllSingles},
                                 {box32(b) : b \in SomeSingles} \cup {61})))

DoubleArithmetic ==
    Guest(Wide, {FpInst(op, "D", rm) : op \in {"FADD", "FSUB", "FMUL", "FDIV"}, rm \in Modes}
                \cup {FpInst(op, "D", 0) : op \in {"FLE", "FLT", "FEQ", "FMIN", "FMAX"}},
          {Zeros}, AsFregs(Fregs({0}, MoreDoubles, SomeDoubles)))

Fma == {"FMADD", "FMSUB", "FNMSUB", "FNMADD"}

SingleFused ==
    Guest(Narrow, {FusedInst(op, "S", rm) : op \in Fma, rm \in Modes},
          {Zeros}, AsFregs(Fregs({box32(c) : c \in SomeSingles}, {box32(a) : a \in FewSingles},
                                 {box32(b) : b \in FewSingles})))

DoubleFused ==
    Guest(Narrow, {FusedInst(op, "D", rm) : op \in Fma, rm \in Modes \ {4}},
          {Zeros}, AsFregs(Fregs(Signs(D, {0, 1, 9, 15, 64, 80, 96}), {3, 60, 77, 88, 200},
                                 {9, 61, 79, 95, 190})))

\* Square roots, classes and conversions of every pattern, boxed or not.
FromFloat(xlen) ==
    Guest(xlen, {FpInst("FSQRT", fmt, rm) : fmt \in {"S", "D"}, rm \in Modes}
                \cup {ConvertInst("FCVT.X.F", fmt, rm, int) :
                        fmt \in {"S", "D"}, rm \in Modes, int \in {"W", "WU", "L", "LU"}}
                \cup {FpInst("FCVT.F.F", fmt, rm) : fmt \in {"S", "D"}, rm \in Modes \cup {5, 7}}
                \cup {ConvertInst(op, fmt, 0, "W") : op \in {"FMV.X.F", "FCLASS", "FUNDEFINED"},
                                                     fmt \in {"S", "D", "Q"}},
          {Zeros}, AsFregs(Fregs({0}, 0 .. 255, {0})))

FromInteger(xlen, values) ==
    Guest(xlen, {ConvertInst(op, fmt, rm, int) : op \in {"FCVT.F.X", "FMV.F.X"},
                   fmt \in {"S", "D"}, rm \in Modes, int \in {"W", "WU", "L", "LU"}},
          {[r \in 1 .. 2 |-> v] : v \in values}, AsFregs({<<0, 0, 0>>}))

Integers64 == {0, 1, 2, 5, 31, 32, 33, 63, 64, 100, 127, 128, 129, 160, 223, 250, 255}
Integers32 == {0, 1, 2, 5, 15, 30, 31, 32, 33, 34, 50, 62, 63}

Integer(xlen, values) ==
    Guest(xlen, {Inst("OP", op, narrow) : op \in AluOps \cup MulDivOps \cup {"CLMUL"},
                                          narrow \in BOOLEAN}
                \cup {Inst("BRANCH", op, FALSE) : op \in BranchOps}
                \cup {ImmInst(op, narrow, imm) : op \in {"ADD", "SLT", "XOR"}, narrow \in BOOLEAN,
                                                 imm \in {-2, 3}}
                \cup {ImmInst(op, narrow, imm) : op \in {"SLL", "SRL", "SRA"},
                                                 narrow \in BOOLEAN, imm \in {1, 5, 6, 7}}
                \cup {AmoInst(op, narrow, old) : op \in AmoOps \cup {"AMOCAS"}, narrow \in BOOLEAN,
                                                 old \in {0, 7, 31, 32, 60}},
          {[r \in 1 .. 2 |-> IF r = 1 THEN a ELSE b] : a, b \in values}, AsFregs({<<0, 0, 0>>}))

\* Two processes share the unit; nothing is recorded but the contexts.
CsrInst(csr, op, src) ==
    [kind |-> "FP-CSR", csr |-> csr, op |-> op, src |-> src, x0 |-> FALSE]
CsrRead(csr) == [CsrInst(csr, "CSRRS", {}) EXCEPT !.x0 = TRUE]
InstretInst(csr, src) == [kind |-> "INSTRET", csr |-> csr, src |-> src]
LoadInst(fmt, old) == [kind |-> "LOAD-FP", fmt |-> fmt, old |-> old, rd |-> 1]

Contexts ==
    [xlen |-> Narrow, halfwords |-> {}, initRegs |-> {Zeros}, initFregs |-> AsFregs({<<0, box32(1), box32(29)>>}),
     insts |-> {FpInst("FADD", "S", 7), FpInst("FSGNJN", "S", 0), FpInst("FSGNJ", "S", 0),
                FpInst("FSGNJX", "S", 0), FpInst("FLT", "S", 0), FpInst("FEQ", "S", 0),
                FusedInst("FMADD", "S", 7), FusedInst("FMADD", "Q", 0),
                LoadInst("S", 12), LoadInst("D", 12), LoadInst("Q", 0),
                CsrInst("frm", "CSRRW", {"RM0", "RM1"}), CsrInst("fflags", "CSRRC", {"NV", "NX"}),
                CsrInst("fflags", "CSRRS", {}), CsrRead("frm"),
                CsrInst("fcsr", "CSRRW", {"RM0", "RM2", "NX"})},
     fs |-> Off, instret |-> 0, processes |-> {1, 2}, steps |-> 6, traced |-> FALSE]

\* The counter, about to carry out of its low half and out of its top.
Counter(xlen, start) ==
    [xlen |-> xlen, halfwords |-> {}, initRegs |-> {Zeros}, initFregs |-> AsFregs({<<0, 0, 0>>}),
     insts |-> {Inst("OP", "ADD", FALSE), FpInst("FADD", "S", 0),
                InstretInst("minstret", 62), InstretInst("minstreth", 1)},
     fs |-> Off, instret |-> start, processes |-> {1}, steps |-> 6, traced |-> FALSE]

\* Every halfword that is not half of a word.
Compressed(xlen) ==
    [Guest(xlen, {}, {Zeros}, AsFregs({<<0, 0, 0>>})) EXCEPT
        !.halfwords = {i \in 0 .. 2^16 - 1 : i % 4 # 3}]

Compressed32 == Compressed(Narrow)
Compressed64 == Compressed(Wide)
FromFloat32 == FromFloat(Narrow)
FromFloat64 == FromFloat(Wide)
FromInteger32 == FromInteger(Narrow, 0 .. 63)
FromInteger64 == FromInteger(Wide, 0 .. 255)
Integer32 == Integer(Narrow, Integers32)
Integer64 == Integer(Wide, Integers64)
Counter32 == Counter(Narrow, 61)
Counter64 == Counter(Wide, 61)
CounterTop == Counter(Wide, 253)

AllGuests ==
    [single |-> SingleArithmetic, double |-> DoubleArithmetic,
     single_fused |-> SingleFused, double_fused |-> DoubleFused,
     from_float32 |-> FromFloat32, from_float64 |-> FromFloat64,
     from_integer32 |-> FromInteger32, from_integer64 |-> FromInteger64,
     integer32 |-> Integer32, integer64 |-> Integer64, contexts |-> Contexts,
     compressed32 |-> Compressed32, compressed64 |-> Compressed64,
     counter32 |-> Counter32, counter64 |-> Counter64, counter_top |-> CounterTop]
=============================================================================
