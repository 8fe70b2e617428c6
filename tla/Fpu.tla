-------------------------------- MODULE Fpu --------------------------------
(***************************************************************************)
(* The soft-float unit (emu/src/fpu.rs): every operation is computed       *)
(* exactly in integers, or to a truncated significand whose low bit is     *)
(* sticky, and rounded once by round_pack.                                 *)
(*                                                                         *)
(* A format is a record of its two widths, as in the code, so the same     *)
(* definitions describe the formats of the machine and the small ones TLC  *)
(* enumerates.  Bit patterns are numbers; a result is a pattern and the    *)
(* set of flags it raises.                                                 *)
(***************************************************************************)
EXTENDS Integers, FiniteSetsExt

CONSTANTS
    Word,                       \* bits of the integer significands are held in: 128 in the code
    SingleBits, SingleSig,      \* single precision: 32 and 23 in the code
    DoubleBits, DoubleSig       \* double precision: 64 and 52

S == [bits |-> SingleBits, sig |-> SingleSig]
D == [bits |-> DoubleBits, sig |-> DoubleSig]

\* Half a word has four bits more than a stored significand: products and sums
\* fit the word, and quotients and roots have bits to spare below the rounding.
ASSUME FpuAssumption ==
    /\ Word \in Nat
    /\ \A f \in {S, D} :
         /\ f.sig \in Nat /\ f.bits \in Nat /\ f.sig >= 2 /\ f.bits >= f.sig + 3
         /\ f.sig + 4 <= Word \div 2

Rms == {"Rne", "Rtz", "Rdn", "Rup", "Rmm"}

\* The two reserved encodings and the dynamic one are not modes.
from_bits(v) ==
    IF v <= 4 THEN <<"Rne", "Rtz", "Rdn", "Rup", "Rmm">>[v + 1] ELSE "none"

-----------------------------------------------------------------------------
(* Formats *)

exp_bits(f) == f.bits - f.sig - 1
bias(f) == 2^(exp_bits(f) - 1) - 1
max_field(f) == 2^exp_bits(f) - 1
sign_mask(f) == 2^(f.bits - 1)
quiet_bit(f) == 2^(f.sig - 1)
zero(f, neg) == IF neg THEN sign_mask(f) ELSE 0
inf(f, neg) == max_field(f) * 2^f.sig + zero(f, neg)
nan(f) == inf(f, FALSE) + quiet_bit(f)
max_finite(f, neg) == inf(f, neg) - 1
min_e(f) == 1 - bias(f) - f.sig

Masked(f, x) == x % 2^f.bits
Negative(f, x) == Masked(f, x) >= sign_mask(f)
Magnitude(f, x) == Masked(f, x) % sign_mask(f)
WithSign(f, sign, x) == zero(f, sign) + Magnitude(f, x)

bit_len(m) == CHOOSE n \in 0 .. Word : m < 2^n /\ (n > 0 => m >= 2^(n - 1))

Exact(v) == [v |-> v, flags |-> {}]
invalid(f) == [v |-> nan(f), flags |-> {"NV"}]

-----------------------------------------------------------------------------
(* Unpacking: a finite non-zero is m * 2^e with exactly sig + 1 bits in m *)

Special(sign, cls) == [sign |-> sign, cls |-> cls, m |-> 0, e |-> 0]
Num(sign, m, e) == [sign |-> sign, cls |-> "Num", m |-> m, e |-> e]

Subnormal(f, sign, frac, shift) == Num(sign, frac * 2^shift, min_e(f) - shift)

\* By the exponent field and the stored significand.
Unpacked(f, sign, field, frac) ==
    IF field = max_field(f)
    THEN Special(sign, IF frac = 0 THEN "Inf" ELSE IF frac < quiet_bit(f) THEN "Snan" ELSE "Qnan")
    ELSE IF field > 0 THEN Num(sign, 2^f.sig + frac, field - bias(f) - f.sig)
    ELSE IF frac = 0 THEN Special(sign, "Zero")
    ELSE Subnormal(f, sign, frac, f.sig + 1 - bit_len(frac))

unpack(f, x) ==
    Unpacked(f, Negative(f, x), Magnitude(f, x) \div 2^f.sig, Masked(f, x) % 2^f.sig)

is_snan(p) == p.cls = "Snan"
is_nan(p) == p.cls \in {"Snan", "Qnan"}
is_inf(p) == p.cls = "Inf"
is_zero(p) == p.cls = "Zero"

\* The canonical NaN; only a signalling operand raises the flag.
nan_result(f, operands) ==
    [v |-> nan(f), flags |-> IF \E p \in operands : is_snan(p) THEN {"NV"} ELSE {}]

-----------------------------------------------------------------------------
(* Rounding *)

\* What is left of m without its low d bits: the quotient, the first bit lost
\* and whether any of the others was set.
Split(m, d) ==
    IF d <= 0 THEN [q |-> m * 2^(-d), guard |-> FALSE, sticky |-> FALSE]
    ELSE IF d >= Word THEN [q |-> 0, guard |-> FALSE, sticky |-> TRUE]
    ELSE [q |-> m \div 2^d, guard |-> (m \div 2^(d - 1)) % 2 = 1,
          sticky |-> m % 2^(d - 1) # 0]

Inexact(s) == s.guard \/ s.sticky

round_up(rm, sign, s) ==
    \/ rm = "Rne" /\ s.guard /\ (s.sticky \/ s.q % 2 = 1)
    \/ rm = "Rdn" /\ sign /\ Inexact(s)
    \/ rm = "Rup" /\ ~ sign /\ Inexact(s)
    \/ rm = "Rmm" /\ s.guard

RoundedQuotient(rm, sign, s) == s.q + IF round_up(rm, sign, s) THEN 1 ELSE 0

\* Overflow goes to the infinity or the largest finite value that rounding was
\* heading towards.
Overflow(f, sign, rm) ==
    [v |-> IF \/ rm \in {"Rne", "Rmm"} \/ (rm = "Rdn" /\ sign) \/ (rm = "Rup" /\ ~ sign)
           THEN inf(f, sign) ELSE max_finite(f, sign),
     flags |-> {"OF", "NX"}]

\* Tininess is looked at after rounding.
Encode(f, sign, rm, inexact, q, field) ==
    IF field >= max_field(f) THEN Overflow(f, sign, rm)
    ELSE [v |-> zero(f, sign) + field * 2^f.sig + (q % 2^f.sig),
          flags |-> (IF inexact THEN {"NX"} ELSE {})
                    \cup (IF inexact /\ q < 2^f.sig THEN {"UF"} ELSE {})]

Pack(f, sign, rm, inexact, q, e) ==
    IF q = 0 THEN [v |-> zero(f, sign), flags |-> {"NX", "UF"}]
    ELSE Encode(f, sign, rm, inexact, q, IF q >= 2^f.sig THEN e + f.sig + bias(f) ELSE 0)

\* Rounding up may carry out of the significand.
Carry(f, sign, rm, inexact, q, e) ==
    IF q >= 2^(f.sig + 1) THEN Pack(f, sign, rm, inexact, q \div 2, e + 1)
    ELSE Pack(f, sign, rm, inexact, q, e)

RoundAt(f, sign, rm, lsb, s) ==
    Carry(f, sign, rm, Inexact(s), RoundedQuotient(rm, sign, s), lsb)

\* The weight of the result's last bit, never below the subnormal floor.
Lsb(f, m, e) == Max({bit_len(m) - 1 + e - f.sig, min_e(f)})

round_pack(f, sign, m, e, rm) ==
    IF m = 0 THEN Exact(zero(f, sign))
    ELSE RoundAt(f, sign, rm, Lsb(f, m, e), Split(m, Lsb(f, m, e) - e))

-----------------------------------------------------------------------------
(* Addition and the fused family *)

Sticky(v, lost) == IF lost /\ v % 2 = 0 THEN v + 1 ELSE v

\* The bug of a rescale that forgets what it dropped.
scale_truncating(m, e, base) ==
    IF e >= base THEN m * 2^(e - base)
    ELSE IF base - e >= Word THEN 0 ELSE m \div 2^(base - e)

scale(m, e, base) ==
    IF e >= base THEN m * 2^(e - base)
    ELSE IF base - e >= Word THEN Sticky(0, m # 0)
    ELSE Sticky(m \div 2^(base - e), m % 2^(base - e) # 0)

\* As deep below the leading bit of the larger operand as a word carries a sum.
Base(p, q) == Max({p.e + bit_len(p.m), q.e + bit_len(q.m)}) - (Word - 2)

SignedSum(sp, a, sq, b, base) ==
    IF sp = sq THEN Num(sp, a + b, base)
    ELSE IF a >= b THEN Num(sp, a - b, base) ELSE Num(sq, b - a, base)

add_raw(p, q) ==
    SignedSum(p.sign, scale(p.m, p.e, Base(p, q)), q.sign, scale(q.m, q.e, Base(p, q)), Base(p, q))

\* Only the mode decides the sign of an exact cancellation.
zero_sign(rm) == rm = "Rdn"

RoundSum(f, s, rm) ==
    IF s.m = 0 THEN Exact(zero(f, zero_sign(rm))) ELSE round_pack(f, s.sign, s.m, s.e, rm)

SumOfZeros(f, sp, sq, rm) == Exact(zero(f, IF sp = sq THEN sp ELSE zero_sign(rm)))

Flip(p, negate) == [p EXCEPT !.sign = (p.sign # negate)]

\* p and q are a and b unpacked, q already negated for a subtraction.
AddUnpacked(f, a, p, b, q, rm) ==
    IF is_nan(p) \/ is_nan(q) THEN nan_result(f, {p, q})
    ELSE IF is_inf(p) /\ is_inf(q) /\ p.sign # q.sign THEN invalid(f)
    ELSE IF is_inf(p) \/ is_inf(q) THEN Exact(inf(f, IF is_inf(p) THEN p.sign ELSE q.sign))
    ELSE IF is_zero(p) /\ is_zero(q) THEN SumOfZeros(f, p.sign, q.sign, rm)
    ELSE IF is_zero(p) THEN Exact(WithSign(f, q.sign, b))
    ELSE IF is_zero(q) THEN Exact(Masked(f, a))
    ELSE RoundSum(f, add_raw(p, q), rm)

add_or_sub(f, a, b, rm, negate_b) ==
    AddUnpacked(f, a, unpack(f, a), b, Flip(unpack(f, b), negate_b), rm)

add(f, a, b, rm) == add_or_sub(f, a, b, rm, FALSE)
sub(f, a, b, rm) == add_or_sub(f, a, b, rm, TRUE)

ZeroTimesInf(p, q) == (is_zero(p) /\ is_inf(q)) \/ (is_inf(p) /\ is_zero(q))

\* The exact product of two numbers, or Zero.
Product(p, q, sign) ==
    IF is_zero(p) \/ is_zero(q) THEN Special(sign, "Zero") ELSE Num(sign, p.m * q.m, p.e + q.e)

\* A finite product p and a finite addend r, which is c unpacked.
FusedFinite(f, p, c, r, rm) ==
    IF is_zero(p) /\ is_zero(r) THEN SumOfZeros(f, p.sign, r.sign, rm)
    ELSE IF is_zero(p) THEN Exact(WithSign(f, r.sign, c))
    ELSE IF is_zero(r) THEN round_pack(f, p.sign, p.m, p.e, rm)
    ELSE RoundSum(f, add_raw(p, r), rm)

FusedUnpacked(f, p, q, sp, c, r, rm) ==
    IF ZeroTimesInf(p, q) THEN invalid(f)
    ELSE IF is_nan(p) \/ is_nan(q) \/ is_nan(r) THEN nan_result(f, {p, q, r})
    ELSE IF is_inf(p) \/ is_inf(q)
    THEN IF is_inf(r) /\ r.sign # sp THEN invalid(f) ELSE Exact(inf(f, sp))
    ELSE IF is_inf(r) THEN Exact(inf(f, r.sign))
    ELSE FusedFinite(f, Product(p, q, sp), c, r, rm)

fma(f, a, b, c, negate_product, negate_addend, rm) ==
    FusedUnpacked(f, unpack(f, a), unpack(f, b),
                  (Negative(f, a) # Negative(f, b)) # negate_product,
                  c, Flip(unpack(f, c), negate_addend), rm)

-----------------------------------------------------------------------------
(* Multiplication, division and square root *)

MulUnpacked(f, p, q, sign, rm) ==
    IF is_nan(p) \/ is_nan(q) THEN nan_result(f, {p, q})
    ELSE IF ZeroTimesInf(p, q) THEN invalid(f)
    ELSE IF is_inf(p) \/ is_inf(q) THEN Exact(inf(f, sign))
    ELSE IF is_zero(p) \/ is_zero(q) THEN Exact(zero(f, sign))
    ELSE round_pack(f, sign, p.m * q.m, p.e + q.e, rm)

mul(f, a, b, rm) ==
    MulUnpacked(f, unpack(f, a), unpack(f, b), Negative(f, a) # Negative(f, b), rm)

Shift == Word \div 2

\* The bug of dividing without remembering the remainder.
Quotient_truncated(num, mb) == num \div mb

Quotient(num, mb) == Sticky(num \div mb, num % mb # 0)

DivUnpacked(f, p, q, sign, rm) ==
    IF is_nan(p) \/ is_nan(q) THEN nan_result(f, {p, q})
    ELSE IF (is_inf(p) /\ is_inf(q)) \/ (is_zero(p) /\ is_zero(q)) THEN invalid(f)
    ELSE IF is_inf(p) THEN Exact(inf(f, sign))
    ELSE IF is_inf(q) THEN Exact(zero(f, sign))
    ELSE IF is_zero(q) THEN [v |-> inf(f, sign), flags |-> {"DZ"}]
    ELSE IF is_zero(p) THEN Exact(zero(f, sign))
    ELSE round_pack(f, sign, Quotient(p.m * 2^Shift, q.m), p.e - q.e - Shift, rm)

div(f, a, b, rm) ==
    DivUnpacked(f, unpack(f, a), unpack(f, b), Negative(f, a) # Negative(f, b), rm)

\* Newton's iteration, from an overestimate down to the first that would rise.
Newton(n) ==
    LET from[x \in 1 .. 2^((bit_len(n) + 1) \div 2)] ==
          IF (x + n \div x) \div 2 >= x THEN x ELSE from[(x + n \div x) \div 2]
    IN  from[2^((bit_len(n) + 1) \div 2)]

isqrt(n) == IF n = 0 THEN 0 ELSE Newton(n)

Root(radicand) == Sticky(isqrt(radicand), isqrt(radicand) * isqrt(radicand) # radicand)

\* Halving the exponent needs it even.
EvenShift(e) == IF (e - Shift) % 2 = 0 THEN Shift ELSE Shift + 1

SqrtUnpacked(f, p, rm) ==
    IF is_nan(p) THEN nan_result(f, {p})
    ELSE IF is_zero(p) THEN Exact(zero(f, p.sign))
    ELSE IF p.sign THEN invalid(f)
    ELSE IF is_inf(p) THEN Exact(inf(f, FALSE))
    ELSE round_pack(f, FALSE, Root(p.m * 2^EvenShift(p.e)), (p.e - EvenShift(p.e)) \div 2, rm)

sqrt(f, a, rm) == SqrtUnpacked(f, unpack(f, a), rm)

-----------------------------------------------------------------------------
(* Conversions *)

ConvertUnpacked(to, p, rm) ==
    IF is_nan(p) THEN nan_result(to, {p})
    ELSE IF is_inf(p) THEN Exact(inf(to, p.sign))
    ELSE IF is_zero(p) THEN Exact(zero(to, p.sign))
    ELSE round_pack(to, p.sign, p.m, p.e, rm)

convert(from, to, a, rm) == ConvertUnpacked(to, unpack(from, a), rm)

from_int(f, sign, magnitude, rm) == round_pack(f, sign, magnitude, 0, rm)

max_pos(width, signed) == IF signed THEN 2^(width - 1) - 1 ELSE 2^width - 1
min_mag(width, signed) == IF signed THEN 2^(width - 1) ELSE 0

Saturated(sign, width, signed) ==
    [v |-> IF sign THEN - min_mag(width, signed) ELSE max_pos(width, signed), flags |-> {"NV"}]

\* The bug of reporting inexact as well as invalid.
InRange_also_inexact(sign, q, inexact, width, signed) ==
    IF q > (IF sign THEN min_mag(width, signed) ELSE max_pos(width, signed))
    THEN [Saturated(sign, width, signed) EXCEPT !.flags = @ \cup IF inexact THEN {"NX"} ELSE {}]
    ELSE [v |-> IF sign THEN - q ELSE q, flags |-> IF inexact THEN {"NX"} ELSE {}]

\* Out of range saturates and is invalid, and nothing else.
InRange(sign, q, inexact, width, signed) ==
    IF q > (IF sign THEN min_mag(width, signed) ELSE max_pos(width, signed))
    THEN Saturated(sign, width, signed)
    ELSE [v |-> IF sign THEN - q ELSE q, flags |-> IF inexact THEN {"NX"} ELSE {}]

round_to_int(s, sign, rm, width, signed) ==
    InRange(sign, RoundedQuotient(rm, sign, s), Inexact(s), width, signed)

ToIntUnpacked(p, width, signed, rm) ==
    IF is_nan(p) THEN Saturated(FALSE, width, signed)
    ELSE IF is_inf(p) THEN Saturated(p.sign, width, signed)
    ELSE IF is_zero(p) THEN Exact(0)
    ELSE IF p.e >= 0 /\ bit_len(p.m) + p.e > Word - 1 THEN Saturated(p.sign, width, signed)
    ELSE round_to_int(Split(p.m, - p.e), p.sign, rm, width, signed)

\* The integer is a number here; the register it goes to keeps it modulo 2^64.
to_int(f, a, width, signed, rm) == ToIntUnpacked(unpack(f, a), width, signed, rm)

-----------------------------------------------------------------------------
(* Comparisons *)

\* Sign and magnitude on one scale, both zeros in the middle.
key(f, x) == IF Negative(f, x) THEN - Magnitude(f, x) ELSE Magnitude(f, x)

EitherNan(f, a, b) == is_nan(unpack(f, a)) \/ is_nan(unpack(f, b))
EitherSnan(f, a, b) == is_snan(unpack(f, a)) \/ is_snan(unpack(f, b))
Truth(b) == IF b THEN 1 ELSE 0

\* feq is quiet.
eq(f, a, b) ==
    [v |-> Truth(~ EitherNan(f, a, b) /\ key(f, a) = key(f, b)),
     flags |-> IF EitherSnan(f, a, b) THEN {"NV"} ELSE {}]

\* flt and fle signal any NaN.
lt(f, a, b, or_equal) ==
    IF EitherNan(f, a, b) THEN [v |-> 0, flags |-> {"NV"}]
    ELSE Exact(Truth(key(f, a) < key(f, b) \/ (or_equal /\ key(f, a) = key(f, b))))

\* The bug of letting equal keys decide between the two zeros.
take_a_by_key(f, a, b, want_max) ==
    IF want_max THEN key(f, a) > key(f, b) ELSE key(f, a) < key(f, b)

take_a(f, a, b, want_max) ==
    IF is_zero(unpack(f, a)) /\ is_zero(unpack(f, b)) THEN Negative(f, a) # want_max
    ELSE IF want_max THEN key(f, a) > key(f, b) ELSE key(f, a) < key(f, b)

min_max(f, a, b, want_max) ==
    [v |-> IF is_nan(unpack(f, a)) /\ is_nan(unpack(f, b)) THEN nan(f)
           ELSE IF is_nan(unpack(f, a)) THEN Masked(f, b)
           ELSE IF is_nan(unpack(f, b)) THEN Masked(f, a)
           ELSE IF take_a(f, a, b, want_max) THEN Masked(f, a) ELSE Masked(f, b),
     flags |-> IF EitherSnan(f, a, b) THEN {"NV"} ELSE {}]

\* The position of the one bit fclass sets.  A subnormal is what unpacking
\* pushed below the normal floor.
ClassOf(f, p) ==
    IF p.cls = "Snan" THEN 8
    ELSE IF p.cls = "Qnan" THEN 9
    ELSE IF is_inf(p) THEN IF p.sign THEN 0 ELSE 7
    ELSE IF is_zero(p) THEN IF p.sign THEN 3 ELSE 4
    ELSE IF p.e < min_e(f) THEN IF p.sign THEN 2 ELSE 5
    ELSE IF p.sign THEN 1 ELSE 6

classify(f, a) == ClassOf(f, unpack(f, a))

=============================================================================
