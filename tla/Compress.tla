------------------------------ MODULE Compress ------------------------------
(***************************************************************************)
(* The C extension (emu/src/compress.rs): a halfword is expanded into the  *)
(* 32-bit instruction it is an alias of, and the fields of that word are   *)
(* read back by emu/src/decode.rs.                                         *)
(*                                                                         *)
(* A word is its six fields as an R-type instruction has them; the other   *)
(* formats lay their immediates over those fields.                         *)
(***************************************************************************)
EXTENDS Integers, Sequences

bits(i, hi, lo) == (i \div 2^lo) % 2^(hi - lo + 1)
SignExtend(v, width) == IF v < 2^(width - 1) THEN v ELSE v - 2^width

\* A three-bit register field.
rp(i, lo) == bits(i, lo + 2, lo) + 8

OP_IMM == 19
OP_IMM32 == 27
OP == 51
OP32 == 59
LOAD == 3
STORE == 35
JALR == 103
LOAD_FP == 7
STORE_FP == 39
LUI == 55
BRANCH == 99
JAL == 111
SYSTEM == 115

r_type(op, f3, f7, rd, rs1, rs2) ==
    [f7 |-> f7, rs2 |-> rs2, rs1 |-> rs1, f3 |-> f3, rd |-> rd, op |-> op]

\* Negative immediates are cut to the field's width.
i_type(op, f3, rd, rs1, imm) ==
    r_type(op, f3, bits(imm % 2^12, 11, 5), rd, rs1, bits(imm % 2^12, 4, 0))
s_type(op, f3, rs1, rs2, imm) == r_type(op, f3, bits(imm, 11, 5), bits(imm, 4, 0), rs1, rs2)

\* The bug of a branch whose bit 11 goes where a store's would.
b_type_as_store(f3, rs1, rs2, imm) == s_type(BRANCH, f3, rs1, rs2, imm % 2^12)

b_type(f3, rs1, rs2, imm) ==
    LET m == imm % 2^13
    IN  r_type(BRANCH, f3, bits(m, 12, 12) * 2^6 + bits(m, 10, 5),
               bits(m, 4, 1) * 2 + bits(m, 11, 11), rs1, rs2)
\* The immediate is given without its twelve zeros.
u_type(op, rd, upper) ==
    LET m == upper % 2^20
    IN  r_type(op, bits(m, 2, 0), bits(m, 19, 13), rd, bits(m, 7, 3), bits(m, 12, 8))
j_type(rd, imm) ==
    LET m == imm % 2^21
    IN  r_type(JAL, bits(m, 14, 12), bits(m, 20, 20) * 2^6 + bits(m, 10, 5), rd,
               bits(m, 19, 15), bits(m, 4, 1) * 2 + bits(m, 11, 11))

\* decode.rs
imm_i(w) == SignExtend(w.f7 * 2^5 + w.rs2, 12)
imm_s(w) == SignExtend(w.f7 * 2^5 + w.rd, 12)
imm_b(w) == SignExtend(bits(w.f7, 6, 6) * 2^12 + bits(w.rd, 0, 0) * 2^11
                         + bits(w.f7, 5, 0) * 2^5 + bits(w.rd, 4, 1) * 2, 13)
imm_u(w) == SignExtend(w.f7 * 2^13 + w.rs2 * 2^8 + w.rs1 * 2^3 + w.f3, 20)
imm_j(w) == SignExtend(bits(w.f7, 6, 6) * 2^20 + w.rs1 * 2^15 + w.f3 * 2^12
                         + bits(w.rs2, 0, 0) * 2^11 + bits(w.f7, 5, 0) * 2^5
                         + bits(w.rs2, 4, 1) * 2, 21)

-----------------------------------------------------------------------------
(* The scattered immediates *)

Imm6(i) == bits(i, 12, 12) * 2^5 + bits(i, 6, 2)
SignedImm6(i) == SignExtend(Imm6(i), 6)
OffsetW(i) == bits(i, 5, 5) * 2^6 + bits(i, 12, 10) * 2^3 + bits(i, 6, 6) * 2^2
OffsetD(i) == bits(i, 6, 5) * 2^6 + bits(i, 12, 10) * 2^3
StackLoadW(i) == bits(i, 3, 2) * 2^6 + bits(i, 12, 12) * 2^5 + bits(i, 6, 4) * 2^2
StackLoadD(i) == bits(i, 4, 2) * 2^6 + bits(i, 12, 12) * 2^5 + bits(i, 6, 5) * 2^3
StackStoreW(i) == bits(i, 8, 7) * 2^6 + bits(i, 12, 9) * 2^2
StackStoreD(i) == bits(i, 9, 7) * 2^6 + bits(i, 12, 10) * 2^3
Addi4spn(i) ==
    bits(i, 10, 7) * 2^6 + bits(i, 12, 11) * 2^4 + bits(i, 5, 5) * 2^3 + bits(i, 6, 6) * 2^2
Addi16sp(i) ==
    bits(i, 12, 12) * 2^9 + bits(i, 4, 3) * 2^7 + bits(i, 5, 5) * 2^6 + bits(i, 2, 2) * 2^5
    + bits(i, 6, 6) * 2^4
cj_offset(i) ==
    SignExtend(bits(i, 12, 12) * 2^11 + bits(i, 8, 8) * 2^10 + bits(i, 10, 9) * 2^8
               + bits(i, 6, 6) * 2^7 + bits(i, 7, 7) * 2^6 + bits(i, 2, 2) * 2^5
               + bits(i, 11, 11) * 2^4 + bits(i, 5, 3) * 2, 12)
cb_offset(i) ==
    SignExtend(bits(i, 12, 12) * 2^8 + bits(i, 6, 5) * 2^6 + bits(i, 2, 2) * 2^5
               + bits(i, 11, 10) * 2^3 + bits(i, 4, 3) * 2, 9)

-----------------------------------------------------------------------------
Reserved == [op |-> 0]
Unless(reserved, w) == IF reserved THEN Reserved ELSE w

\* Loads and stores off a pointer.  funct3 3 and 7 are doublewords on RV64 and
\* single-precision floats on RV32.
Quadrant0(i, rv64) ==
    LET f3 == bits(i, 15, 13)
        Load(op, size, imm) == i_type(op, size, rp(i, 2), rp(i, 7), imm)
        Store(op, size, imm) == s_type(op, size, rp(i, 7), rp(i, 2), imm)
    IN  CASE f3 = 0 -> Unless(Addi4spn(i) = 0, i_type(OP_IMM, 0, rp(i, 2), 2, Addi4spn(i)))
          [] f3 = 1 -> Load(LOAD_FP, 3, OffsetD(i))
          [] f3 = 2 -> Load(LOAD, 2, OffsetW(i))
          [] f3 = 3 -> IF rv64 THEN Load(LOAD, 3, OffsetD(i)) ELSE Load(LOAD_FP, 2, OffsetW(i))
          [] f3 = 5 -> Store(STORE_FP, 3, OffsetD(i))
          [] f3 = 6 -> Store(STORE, 2, OffsetW(i))
          [] f3 = 7 -> IF rv64 THEN Store(STORE, 3, OffsetD(i)) ELSE Store(STORE_FP, 2, OffsetW(i))
          [] OTHER -> Reserved

\* funct3 4 of quadrant 1: shifts, ANDI and register-register arithmetic.
Arithmetic1(i, rv64) ==
    LET d == rp(i, 7)
        s == rp(i, 2)
        group == bits(i, 11, 10)
        sub == bits(i, 6, 5)
    IN  CASE group = 0 -> Unless(~ rv64 /\ Imm6(i) >= 32, i_type(OP_IMM, 5, d, d, Imm6(i)))
          [] group = 1 -> Unless(~ rv64 /\ Imm6(i) >= 32, i_type(OP_IMM, 5, d, d, 1024 + Imm6(i)))
          [] group = 2 -> i_type(OP_IMM, 7, d, d, SignedImm6(i))
          [] group = 3 /\ bits(i, 12, 12) = 0 ->
               r_type(OP, (<<0, 4, 6, 7>>)[sub + 1], IF sub = 0 THEN 32 ELSE 0, d, d, s)
          [] group = 3 /\ bits(i, 12, 12) = 1 ->
               Unless(~ rv64 \/ sub > 1, r_type(OP32, 0, IF sub = 0 THEN 32 ELSE 0, d, d, s))

\* Immediate arithmetic and control flow.
Quadrant1(i, rv64) ==
    LET f3 == bits(i, 15, 13)
        rd == bits(i, 11, 7)
    IN  CASE f3 = 0 -> i_type(OP_IMM, 0, rd, rd, SignedImm6(i))
          [] f3 = 1 -> IF rv64 THEN Unless(rd = 0, i_type(OP_IMM32, 0, rd, rd, SignedImm6(i)))
                       ELSE j_type(1, cj_offset(i))
          [] f3 = 2 -> i_type(OP_IMM, 0, rd, 0, SignedImm6(i))
          [] f3 = 3 -> IF rd = 2 THEN Unless(Addi16sp(i) = 0,
                                             i_type(OP_IMM, 0, 2, 2, SignExtend(Addi16sp(i), 10)))
                       ELSE Unless(Imm6(i) = 0 \/ rd = 0, u_type(LUI, rd, SignedImm6(i)))
          [] f3 = 4 -> Arithmetic1(i, rv64)
          [] f3 = 5 -> j_type(0, cj_offset(i))
          [] f3 = 6 -> b_type(0, rp(i, 7), 0, cb_offset(i))
          [] f3 = 7 -> b_type(1, rp(i, 7), 0, cb_offset(i))

\* funct3 4 of quadrant 2: jumps and moves between registers.
Moves(i) ==
    LET rd == bits(i, 11, 7)
        rs2 == bits(i, 6, 2)
        link == bits(i, 12, 12)
    IN  IF rd = 0 /\ link = 0 THEN Reserved
        ELSE IF rd = 0 /\ rs2 = 0 THEN i_type(SYSTEM, 0, 0, 0, 1)      \* EBREAK
        ELSE IF rs2 = 0 THEN i_type(JALR, 0, link, rd, 0)
        ELSE r_type(OP, 0, 0, rd, IF link = 0 THEN 0 ELSE rd, rs2)

\* Access relative to the stack pointer, and the moves.
Quadrant2(i, rv64) ==
    LET f3 == bits(i, 15, 13)
        rd == bits(i, 11, 7)
        Load(op, size, imm) == i_type(op, size, rd, 2, imm)
        Store(op, size, imm) == s_type(op, size, 2, bits(i, 6, 2), imm)
    IN  CASE f3 = 0 -> Unless(~ rv64 /\ Imm6(i) >= 32, i_type(OP_IMM, 1, rd, rd, Imm6(i)))
          [] f3 = 1 -> Load(LOAD_FP, 3, StackLoadD(i))
          [] f3 = 2 -> Unless(rd = 0, Load(LOAD, 2, StackLoadW(i)))
          [] f3 = 3 -> IF rv64 THEN Unless(rd = 0, Load(LOAD, 3, StackLoadD(i)))
                       ELSE Load(LOAD_FP, 2, StackLoadW(i))
          [] f3 = 4 -> Moves(i)
          [] f3 = 5 -> Store(STORE_FP, 3, StackStoreD(i))
          [] f3 = 6 -> Store(STORE, 2, StackStoreW(i))
          [] f3 = 7 -> IF rv64 THEN Store(STORE, 3, StackStoreD(i))
                       ELSE Store(STORE_FP, 2, StackStoreW(i))

decompress(i, rv64) ==
    CASE i % 4 = 0 -> Quadrant0(i, rv64)
      [] i % 4 = 1 -> Quadrant1(i, rv64)
      [] i % 4 = 2 -> Quadrant2(i, rv64)
      [] OTHER -> Reserved
=============================================================================
