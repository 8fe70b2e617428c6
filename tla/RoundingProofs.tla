--------------------------- MODULE RoundingProofs ---------------------------
(***************************************************************************)
(* The floating-point unit (emu/src/fpu.rs) rounds correctly: every        *)
(* operation returns the exact result rounded once in the mode asked for,  *)
(* with the flags of that rounding, for every format, width and guest.     *)
(*                                                                         *)
(* A significand and its exponent tell of an exact value when they order   *)
(* it against the midpoint of any two neighbours at the place where they   *)
(* are cut (Tells), and round_pack then rounds as the definition           *)
(* (RoundPackIs).  A word does so when it is exact, or odd for its sticky  *)
(* bit and long enough, with the value between its neighbours (Near).      *)
(* Each operation is shown to hand round_pack such a word.                 *)
(***************************************************************************)
EXTENDS ExecuteProofs

-----------------------------------------------------------------------------
(* Numbers a power of two apart *)

\* x is y * 2^k.
Scaled(x, y, k) == IF k >= 0 THEN x = y * 2^k ELSE x * 2^(- k) = y
Exponents == - Reach .. Reach

\* The exponents in reach, and the laws of powers as far as that.
LEMMA ReachNat == Reach \in Nat
BY Reaches DEF Formats

LEMMA ReachPowers ==
    /\ \A k \in 0 .. Reach : 2^k \in Nat \ {0}
    /\ \A j \in 0 .. Reach : \A k \in 0 .. Reach : j + k <= Reach => 2^(j + k) = 2^j * 2^k
    /\ 2^0 = 1 /\ 2^1 = 2
BY ReachNat, ReachType, ExponentAssumption, PowerAssumption

\* A common factor cancels.
LEMMA CancelFactor ==
    ASSUME NEW x \in Int, NEW y \in Int, NEW c \in Nat \ {0}, x * c = y * c
    PROVE  x = y
<1>1. CASE x < y
  <2>1. (y - x) * c = y * c - x * c  OBVIOUS
  <2>2. (y - x) * c > 0
    <3>1. y - x \in Nat /\ y - x > 0  BY <1>1
    <3> QED  BY <3>1
  <2> QED  BY <2>1, <2>2
<1>2. CASE y < x
  <2>1. (x - y) * c = x * c - y * c  OBVIOUS
  <2>2. (x - y) * c > 0
    <3>1. x - y \in Nat /\ x - y > 0  BY <1>2
    <3> QED  BY <3>1
  <2> QED  BY <2>1, <2>2
<1> QED  BY <1>1, <1>2

\* Scaling turned around, multiplied through, added and composed.
LEMMA ScaledBack ==
    ASSUME NEW x \in Int, NEW y \in Int, NEW k \in Exponents, Scaled(x, y, k)
    PROVE  Scaled(y, x, - k)
<1>1. CASE k > 0
  <2>1. - k < 0 /\ - (- k) = k  BY <1>1 DEF Exponents
  <2> QED  BY <1>1, <2>1 DEF Scaled, Exponents
<1>2. CASE k = 0  BY <1>2, ReachPowers DEF Scaled
<1>3. CASE k < 0
  <2>1. - k > 0  BY <1>3 DEF Exponents
  <2> QED  BY <1>3, <2>1 DEF Scaled, Exponents
<1> QED  BY <1>1, <1>2, <1>3 DEF Exponents

LEMMA ScaledTimes ==
    ASSUME NEW x \in Int, NEW y \in Int, NEW w \in Int, NEW k \in Exponents, Scaled(x, y, k)
    PROVE  Scaled(x * w, y * w, k) /\ Scaled(w * x, w * y, k)
<1>1. CASE k >= 0
  <2> DEFINE P == 2^k
  <2>1. P \in Nat /\ x = y * P  BY <1>1, ReachPowers DEF Scaled, Exponents
  <2>2. x * w = (y * w) * P /\ w * x = (w * y) * P
    <3> HIDE DEF P
    <3>1. x * w = (y * P) * w /\ (y * P) * w = (y * w) * P  BY <2>1
    <3>2. w * x = x * w /\ w * y = y * w  OBVIOUS
    <3> QED  BY <3>1, <3>2
  <2> QED  BY <1>1, <2>2 DEF Scaled
<1>2. CASE k < 0
  <2> DEFINE P == 2^(- k)
  <2>1. - k \in 0 .. Reach /\ ~ (k >= 0)  BY <1>2, ReachNat DEF Exponents
  <2>2. P \in Nat /\ x * P = y  BY <1>2, <2>1, ReachPowers DEF Scaled
  <2>3. (x * w) * P = y * w /\ (w * x) * P = w * y
    <3> HIDE DEF P
    <3>1. y * w = (x * P) * w /\ (x * P) * w = (x * w) * P  BY <2>2
    <3>2. w * x = x * w /\ w * y = y * w  OBVIOUS
    <3> QED  BY <3>1, <3>2
  <2> QED  BY <2>1, <2>3 DEF Scaled
<1> QED  BY <1>1, <1>2 DEF Exponents

LEMMA ScaledSum ==
    ASSUME NEW x \in Int, NEW y \in Int, NEW u \in Int, NEW v \in Int, NEW k \in Exponents,
           Scaled(x, y, k), Scaled(u, v, k)
    PROVE  Scaled(x + u, y + v, k) /\ Scaled(x - u, y - v, k)
<1>1. CASE k >= 0
  <2> DEFINE P == 2^k
  <2>1. P \in Nat /\ x = y * P /\ u = v * P  BY <1>1, ReachPowers DEF Scaled, Exponents
  <2>2. x + u = (y + v) * P /\ x - u = (y - v) * P
    <3> HIDE DEF P
    <3>1. (y + v) * P = y * P + v * P /\ (y - v) * P = y * P - v * P  BY <2>1
    <3> QED  BY <2>1, <3>1
  <2> QED  BY <1>1, <2>2 DEF Scaled
<1>2. CASE k < 0
  <2> DEFINE P == 2^(- k)
  <2>1. - k \in 0 .. Reach /\ ~ (k >= 0)  BY <1>2, ReachNat DEF Exponents
  <2>2. P \in Nat /\ x * P = y /\ u * P = v  BY <1>2, <2>1, ReachPowers DEF Scaled
  <2>3. (x + u) * P = y + v /\ (x - u) * P = y - v
    <3> HIDE DEF P
    <3>1. (x + u) * P = x * P + u * P /\ (x - u) * P = x * P - u * P  BY <2>2
    <3> QED  BY <2>2, <3>1
  <2> QED  BY <2>1, <2>3 DEF Scaled
<1> QED  BY <1>1, <1>2 DEF Exponents

LEMMA ScaledCompose ==
    ASSUME NEW x \in Int, NEW y \in Int, NEW z \in Int,
           NEW k \in Exponents, NEW l \in Exponents, NEW n \in Exponents, n = k + l,
           Scaled(x, y, k), Scaled(y, z, l)
    PROVE  Scaled(x, z, n)
<1> DEFINE K == 2^k
           J == 2^(- k)
           L == 2^l
           M == 2^(- l)
           N == 2^n
           O == 2^(- n)
<1>0. Reach \in Nat /\ k \in Int /\ l \in Int /\ n \in Int  BY ReachNat DEF Exponents
<1>1. CASE k >= 0 /\ l >= 0
  <2>1. /\ k \in 0 .. Reach /\ l \in 0 .. Reach /\ n \in 0 .. Reach  BY <1>0, <1>1 DEF Exponents
  <2>2. K \in Nat /\ L \in Nat /\ N \in Nat  BY <2>1, ReachPowers
  <2>3. N = K * L  BY <2>1, ReachSum
  <2>4. x = y * K /\ y = z * L  BY <1>1 DEF Scaled
  <2>5. x = z * N
    <3> HIDE DEF K, L, N
    <3>1. (z * L) * K = z * (K * L)  BY <2>2
    <3> QED  BY <2>3, <2>4, <3>1
  <2> QED  BY <2>1, <2>5 DEF Scaled
<1>2. CASE k >= 0 /\ l < 0 /\ n >= 0
  <2>1. k \in 0 .. Reach /\ - l \in 0 .. Reach /\ n \in 0 .. Reach /\ k = n + (- l) /\ ~ (l >= 0)
    BY <1>0, <1>2 DEF Exponents
  <2>2. K \in Nat /\ M \in Nat /\ N \in Nat  BY <2>1, ReachPowers
  <2>3. K = N * M  BY <2>1, ReachSum
  <2>4. x = y * K /\ y * M = z  BY <1>2, <2>1 DEF Scaled
  <2>5. x = z * N
    <3> HIDE DEF K, M, N
    <3>1. y * (N * M) = (y * M) * N  BY <2>2
    <3> QED  BY <2>3, <2>4, <3>1
  <2> QED  BY <1>2, <2>5 DEF Scaled
<1>3. CASE k >= 0 /\ l < 0 /\ n < 0
  <2>1. k \in 0 .. Reach /\ - l \in 0 .. Reach /\ - n \in 0 .. Reach /\ - l = k + (- n)
        /\ ~ (l >= 0) /\ ~ (n >= 0)
    BY <1>0, <1>3 DEF Exponents
  <2>2. K \in Nat /\ M \in Nat /\ O \in Nat  BY <2>1, ReachPowers
  <2>3. M = K * O  BY <2>1, ReachSum
  <2>4. x = y * K /\ y * M = z  BY <1>3, <2>1 DEF Scaled
  <2>5. x * O = z
    <3> HIDE DEF K, M, O
    <3>1. y * (K * O) = (y * K) * O  BY <2>2
    <3> QED  BY <2>3, <2>4, <3>1
  <2> QED  BY <2>1, <2>5 DEF Scaled
<1>4. CASE k < 0 /\ l >= 0 /\ n >= 0
  <2>1. - k \in 0 .. Reach /\ l \in 0 .. Reach /\ n \in 0 .. Reach /\ l = n + (- k) /\ ~ (k >= 0)
    BY <1>0, <1>4 DEF Exponents
  <2>2. J \in Nat \ {0} /\ L \in Nat /\ N \in Nat  BY <2>1, ReachPowers
  <2>3. L = N * J  BY <2>1, ReachSum
  <2>4. x * J = y /\ y = z * L  BY <1>4, <2>1 DEF Scaled
  <2>5. x = z * N
    <3> HIDE DEF J, L, N
    <3>1. z * (N * J) = (z * N) * J /\ z * N \in Int  BY <2>2
    <3>2. x * J = (z * N) * J  BY <2>3, <2>4, <3>1
    <3> QED  BY <2>2, <3>1, <3>2, CancelFactor
  <2> QED  BY <1>4, <2>5 DEF Scaled
<1>5. CASE k < 0 /\ l >= 0 /\ n < 0
  <2>1. - k \in 0 .. Reach /\ l \in 0 .. Reach /\ - n \in 0 .. Reach /\ - k = l + (- n)
        /\ ~ (k >= 0) /\ ~ (n >= 0)
    BY <1>0, <1>5 DEF Exponents
  <2>2. J \in Nat /\ L \in Nat \ {0} /\ O \in Nat  BY <2>1, ReachPowers
  <2>3. J = L * O  BY <2>1, ReachSum
  <2>4. x * J = y /\ y = z * L  BY <1>5, <2>1 DEF Scaled
  <2>5. x * O = z
    <3> HIDE DEF J, L, O
    <3>1. x * (L * O) = (x * O) * L /\ x * O \in Int  BY <2>2
    <3>2. (x * O) * L = z * L  BY <2>3, <2>4, <3>1
    <3> QED  BY <2>2, <3>1, <3>2, CancelFactor
  <2> QED  BY <2>1, <2>5 DEF Scaled
<1>6. CASE k < 0 /\ l < 0
  <2>1. - k \in 0 .. Reach /\ - l \in 0 .. Reach /\ - n \in 0 .. Reach /\ - n = (- k) + (- l)
        /\ ~ (k >= 0) /\ ~ (l >= 0) /\ ~ (n >= 0)
    BY <1>0, <1>6 DEF Exponents
  <2>2. J \in Nat /\ M \in Nat /\ O \in Nat  BY <2>1, ReachPowers
  <2>3. O = J * M  BY <2>1, ReachSum
  <2>4. x * J = y /\ y * M = z  BY <2>1 DEF Scaled
  <2>5. x * O = z
    <3> HIDE DEF J, M, O
    <3>1. x * (J * M) = (x * J) * M  BY <2>2
    <3> QED  BY <2>3, <2>4, <3>1
  <2> QED  BY <2>1, <2>5 DEF Scaled
<1> QED  BY <1>0, <1>1, <1>2, <1>3, <1>4, <1>5, <1>6

-----------------------------------------------------------------------------
(* Encodings and their values *)

\* Powers grow with the exponent.
LEMMA ReachMonotone ==
    ASSUME NEW j \in 0 .. Reach, NEW k \in 0 .. Reach, j <= k
    PROVE  2^j <= 2^k
<1> DEFINE d == k - j
           J == 2^j
           K == 2^k
           R == 2^d
<1>1. d \in 0 .. Reach /\ k = j + d  BY ReachNat
<1>2. J \in Nat \ {0} /\ R \in Nat \ {0} /\ K = J * R  BY <1>1, ReachPowers, ReachSum
<1> HIDE DEF J, K, R
<1>3. J <= K  BY <1>2
<1> QED  BY <1>3 DEF J, K

\* Products grow with their factors.
LEMMA TimesMonotone ==
    ASSUME NEW x \in Nat, NEW y \in Nat, NEW u \in Nat, NEW v \in Nat, x <= y, u <= v
    PROVE  x * u <= y * v
<1> DEFINE a == y - x
           b == v - u
<1>1. a \in Nat /\ b \in Nat /\ y = x + a /\ v = u + b  OBVIOUS
<1> HIDE DEF a, b
<1>2. (x + a) * (u + b) = x * u + x * b + a * u + a * b  BY <1>1
<1>3. x * b \in Nat /\ a * u \in Nat /\ a * b \in Nat /\ x * u \in Nat  BY <1>1
<1> QED  BY <1>1, <1>2, <1>3

\* The magnitude with last bit j places above the lowest and quotient q.
At(f, j, q) == j * 2^f.sig + q

\* Its value, the carry into the next binade included.
LEMMA UnitsAt ==
    ASSUME NEW f \in Formats, NEW j \in 0 .. Reach, NEW q \in Nat, q <= 2 * 2^f.sig,
           j = 0 \/ q >= 2^f.sig, j + 1 <= Reach
    PROVE  Units(f, At(f, j, q)) = q * 2^j
<1> DEFINE A == 2^f.sig
           k == At(f, j, q)
           P == 2^j
           P2 == 2^(j + 1)
<1>1. A \in Nat \ {0} /\ P \in Nat \ {0}  BY FormatPowers, ReachPowers
<1>2. \A n : Units(f, n) = IF n < A THEN n ELSE (A + (n % A)) * 2^(n \div A - 1)  BY DEF Units
<1>3. k = j * A + q /\ q <= 2 * A /\ (j = 0 \/ q >= A)  BY DEF At
<1>4. P2 = 2 * P
  <2>1. 1 \in 0 .. Reach /\ j + 1 \in 0 .. Reach  BY ReachNat
  <2>2. P2 = P * 2^1 /\ 2^1 = 2  BY <2>1, ReachPowers
  <2> HIDE DEF P, P2
  <2> QED  BY <1>1, <2>2
<1> SUFFICES Units(f, k) = q * P  OBVIOUS
<1> HIDE DEF A, k, P, P2
<1>5. CASE q < A
  <2>1. j = 0 /\ k = q
    <3>1. j = 0  BY <1>1, <1>3, <1>5
    <3>2. 0 * A = 0  BY <1>1
    <3> QED  BY <1>3, <3>1, <3>2
  <2>2. P = 1  BY <2>1, ReachPowers DEF P
  <2> QED  BY <1>2, <1>5, <2>1, <2>2
<1>6. CASE q >= A /\ q < 2 * A
  <2> DEFINE r == q - A
             i == j + 1
  <2>1. r \in 0 .. A - 1 /\ i \in Nat /\ q = A + r /\ i - 1 = j  BY <1>1, <1>6
  <2>2. k = A * i + r
    <3>1. A * (j + 1) = j * A + A /\ j * A \in Nat  BY <1>1
    <3> QED  BY <1>1, <1>3, <2>1, <3>1
  <2> HIDE DEF r, i
  <2>3. k \div A = i /\ k % A = r  BY <1>1, <2>1, <2>2
  <2>4. ~ (k < A)
    <3>1. j * A \in Nat  BY <1>1
    <3> QED  BY <1>1, <1>3, <1>6, <3>1
  <2>5. Units(f, k) = (A + r) * 2^(i - 1)  BY <1>2, <2>3, <2>4
  <2> QED  BY <2>1, <2>5 DEF P
<1>7. CASE q = 2 * A
  <2> DEFINE i == j + 2
  <2>1. i \in Nat /\ i - 1 = j + 1  OBVIOUS
  <2>2. k = A * i + 0
    <3>1. A * (j + 2) = j * A + 2 * A /\ j * A \in Nat  BY <1>1
    <3> QED  BY <1>1, <1>3, <1>7, <3>1
  <2> HIDE DEF i
  <2>3. k \div A = i /\ k % A = 0  BY <1>1, <2>1, <2>2
  <2>4. ~ (k < A)
    <3>1. j * A \in Nat  BY <1>1
    <3> QED  BY <1>1, <1>3, <1>7, <3>1
  <2>5. Units(f, k) = (A + 0) * P2  BY <1>2, <2>1, <2>3, <2>4 DEF P2
  <2>6. (A + 0) * (2 * P) = (2 * A) * P  BY <1>1
  <2> QED  BY <1>4, <1>7, <2>5, <2>6
<1> QED  BY <1>1, <1>3, <1>5, <1>6, <1>7

\* What a magnitude is packed to, past the infinity too.
PackedAt(f, sign, rm, k, inexact) ==
    IF k >= Infinity(f) THEN Overflowed(f, sign, rm) ELSE Packed(f, sign, rm, k, inexact)

\* What the code returns past the range is what the definition asks for.
LEMMA OverflowIs ==
    ASSUME NEW f \in Formats, NEW sign \in BOOLEAN, NEW rm \in Rms
    PROVE  Overflow(f, sign, rm) = Overflowed(f, sign, rm)
<1> DEFINE I == Infinity(f)
           z == zero(f, sign)
           up == rm \in {"Rne", "Rmm"} \/ (rm = "Rdn" /\ sign) \/ (rm = "Rup" /\ ~ sign)
<1>1. I \in Nat  BY InfinityIs
<1>2. z \in Int
  <2> DEFINE K == 2^(f.bits - 1)
  <2>1. K \in Nat /\ z \in {0, K}  BY FormatPowers, SpecialPatterns DEF sign_mask
  <2> HIDE DEF K, z
  <2> QED  BY <2>1
<1>3. inf(f, sign) = z + I /\ max_finite(f, sign) = z + (I - 1)
  <2>1. inf(f, sign) = max_field(f) * 2^f.sig + z /\ I = max_field(f) * 2^f.sig + 0
    BY DEF inf, Infinity, zero
  <2> DEFINE M == max_field(f) * 2^f.sig
  <2>2. M \in Int
    <3>1. M = (2^exp_bits(f) - 1) * 2^f.sig  BY InfinityIs
    <3>2. I = M  BY <3>1, InfinityIs
    <3> QED  BY <1>1, <3>2
  <2>3. inf(f, sign) = M + z /\ I = M + 0  BY <2>1
  <2> HIDE DEF M, I, z
  <2>4. inf(f, sign) = z + I  BY <1>2, <2>2, <2>3
  <2>5. max_finite(f, sign) = inf(f, sign) - 1  BY DEF max_finite
  <2> QED  BY <1>1, <1>2, <2>4, <2>5
<1>4. Away(sign, rm, TRUE, 1) <=> up
  <2>1. rm \in {"Rne", "Rtz", "Rdn", "Rup", "Rmm"}  BY DEF Rms
  <2>2. CASE rm = "Rne"  BY <2>2 DEF Away
  <2>3. CASE rm = "Rtz"  BY <2>3 DEF Away
  <2>4. CASE rm = "Rdn"  BY <2>4 DEF Away
  <2>5. CASE rm = "Rup"  BY <2>5 DEF Away
  <2>6. CASE rm = "Rmm"  BY <2>6 DEF Away
  <2> QED  BY <2>1, <2>2, <2>3, <2>4, <2>5, <2>6
<1>5. Overflow(f, sign, rm) =
        [v |-> IF up THEN inf(f, sign) ELSE max_finite(f, sign), flags |-> {"OF", "NX"}]
  BY DEF Overflow
<1>6. Overflowed(f, sign, rm) =
        [v |-> z + IF Away(sign, rm, TRUE, 1) THEN I ELSE I - 1, flags |-> {"OF", "NX"}]
  BY DEF Overflowed
<1> HIDE DEF up, z, I
<1>7. CASE up  BY <1>3, <1>4, <1>5, <1>6, <1>7
<1>8. CASE ~ up  BY <1>3, <1>4, <1>5, <1>6, <1>8
<1> QED  BY <1>7, <1>8

\* A signed zero is a number.
LEMMA ZeroInt == ASSUME NEW f \in Formats, NEW sign PROVE zero(f, sign) \in Nat
<1> DEFINE K == 2^(f.bits - 1)
<1>1. K \in Nat /\ zero(f, sign) \in {0, K}  BY FormatPowers, SpecialPatterns DEF sign_mask
<1> HIDE DEF K
<1> QED  BY <1>1

\* A quotient and the place of its last bit pack to the magnitude they make.
LEMMA PackIs ==
    ASSUME NEW f \in Formats, NEW sign \in BOOLEAN, NEW rm \in Rms, NEW inexact \in BOOLEAN,
           NEW j \in Nat, NEW q \in Nat, q < 2 * 2^f.sig, j = 0 \/ q >= 2^f.sig, q = 0 => inexact
    PROVE  Pack(f, sign, rm, inexact, q, min_e(f) + j)
             = PackedAt(f, sign, rm, At(f, j, q), inexact)
<1> DEFINE A == 2^f.sig
           N == max_field(f)
           I == Infinity(f)
           K == At(f, j, q)
           z == zero(f, sign)
           field == IF q >= A THEN (min_e(f) + j) + f.sig + bias(f) ELSE 0
           flags == IF ~ inexact THEN {} ELSE IF K < A THEN {"NX", "UF"} ELSE {"NX"}
<1>1. A \in Nat \ {0} /\ z \in Nat  BY FormatPowers, ZeroInt
<1>2. I = N * A /\ N \in Nat /\ N >= 3
  <2>1. N = 2^exp_bits(f) - 1 /\ 2^exp_bits(f) >= 4 /\ 2^exp_bits(f) \in Nat
        /\ I = (2^exp_bits(f) - 1) * A
    BY InfinityIs, FormatPowers
  <2> HIDE DEF I, N
  <2>2. I = N * A  BY <2>1
  <2> QED  BY <2>1, <2>2
<1>3. K = j * A + q /\ j * A \in Nat
  <2>1. K = j * A + q  BY DEF At
  <2> HIDE DEF A, K
  <2> QED  BY <1>1, <2>1
<1>4. q >= A => field = j + 1
  <2>1. f.sig \in Nat /\ bias(f) \in Nat /\ min_e(f) = 1 - bias(f) - f.sig
    BY FormatFacts, FormatPowers DEF min_e
  <2> HIDE DEF A
  <2> QED  BY <2>1
<1>5. PackedAt(f, sign, rm, K, inexact) =
        IF K >= I THEN Overflowed(f, sign, rm)
        ELSE IF K = I THEN Overflowed(f, sign, rm) ELSE [v |-> z + K, flags |-> flags]
  BY DEF PackedAt, Packed
<1>6. Pack(f, sign, rm, inexact, q, min_e(f) + j) =
        IF q = 0 THEN [v |-> z, flags |-> {"NX", "UF"}]
        ELSE Encode(f, sign, rm, inexact, q, field)
  BY DEF Pack
<1>7. Encode(f, sign, rm, inexact, q, field) =
        IF field >= N THEN Overflow(f, sign, rm)
        ELSE [v |-> z + field * A + (q % A),
              flags |-> (IF inexact THEN {"NX"} ELSE {})
                        \cup (IF inexact /\ q < A THEN {"UF"} ELSE {})]
  BY DEF Encode
<1>8. q < 2 * A /\ (j = 0 \/ q >= A)  OBVIOUS
<1>9. Overflow(f, sign, rm) = Overflowed(f, sign, rm)  BY OverflowIs
<1>10. I >= 3 * A
  <2> HIDE DEF A, N, I
  <2>1. N * A = 3 * A + (N - 3) * A /\ (N - 3) * A \in Nat  BY <1>1, <1>2
  <2> QED  BY <1>1, <1>2, <2>1
<1>11. SUFFICES Pack(f, sign, rm, inexact, q, min_e(f) + j) = PackedAt(f, sign, rm, K, inexact)
  OBVIOUS
<1> HIDE DEF A, N, I, K, z
<1>12. CASE q < A
  <2>1. j = 0 /\ ~ (q >= A)  BY <1>1, <1>8, <1>12
  <2>2. K = q /\ K < A /\ ~ (K >= I) /\ K # I
    <3>1. 0 * A = 0  BY <1>1
    <3>2. K = q  BY <1>3, <2>1, <3>1
    <3> QED  BY <1>1, <1>2, <1>10, <1>12, <3>2
  <2>3. field = 0  BY <2>1
  <2>4. PackedAt(f, sign, rm, K, inexact) = [v |-> z + q, flags |-> flags]  BY <1>5, <2>2
  <2>5. CASE q = 0
    <3>1. flags = {"NX", "UF"} /\ z + q = z  BY <1>1, <2>2, <2>5
    <3> HIDE DEF flags, field
    <3> QED  BY <1>6, <2>4, <2>5, <3>1
  <2>6. CASE q # 0
    <3>1. z + field * A + (q % A) = z + q
      <4>1. q % A = q /\ 0 * A = 0  BY <1>1, <1>12
      <4> QED  BY <1>1, <2>3, <4>1
    <3>2. ~ (field >= N)  BY <1>2, <2>3
    <3>3. flags = (IF inexact THEN {"NX"} ELSE {})
                   \cup (IF inexact /\ q < A THEN {"UF"} ELSE {})
      <4>1. CASE inexact  BY <1>12, <2>2, <4>1
      <4>2. CASE ~ inexact  BY <4>2
      <4> QED  BY <4>1, <4>2
    <3> HIDE DEF flags, field
    <3> QED  BY <1>6, <1>7, <2>4, <2>6, <3>1, <3>2, <3>3
  <2> QED  BY <2>5, <2>6
<1>13. CASE q >= A
  <2> DEFINE r == q - A
  <2>1. q # 0 /\ r \in 0 .. A - 1 /\ q = A + r /\ ~ (q < A) /\ field = j + 1  BY <1>1, <1>4, <1>8, <1>13
  <2>2. q % A = r
    <3>1. q = A * 1 + r /\ r \in 0 .. A - 1  BY <1>1, <2>1
    <3> HIDE DEF r
    <3> QED  BY <1>1, <3>1
  <2>3. (j + 1) * A + r = K /\ (j + 1) * A \in Nat
    <3>1. (j + 1) * A = j * A + A  BY <1>1
    <3> QED  BY <1>1, <1>3, <2>1, <3>1
  <2>4. ~ (K < A)  BY <1>1, <1>3, <1>13
  <2> HIDE DEF r
  <2>5. flags = (IF inexact THEN {"NX"} ELSE {})
                 \cup (IF inexact /\ q < A THEN {"UF"} ELSE {})
    <3>1. CASE inexact  BY <2>1, <2>4, <3>1
    <3>2. CASE ~ inexact  BY <3>2
    <3> QED  BY <3>1, <3>2
  <2>6. z + field * A + (q % A) = z + K
    <3>1. z + (j + 1) * A + r = z + K  BY <1>1, <2>1, <2>3
    <3> QED  BY <2>1, <2>2, <3>1
  <2> HIDE DEF field, flags
  <2>7. CASE j + 1 >= N
    <3>1. K >= I
      <4>1. N * A <= (j + 1) * A
        <5>1. j + 1 \in Nat /\ A \in Nat /\ A <= A  BY <1>1
        <5> QED  BY <1>2, <2>7, <5>1, TimesMonotone
      <4> QED  BY <1>1, <1>2, <2>1, <2>3, <4>1
    <3> QED  BY <1>5, <1>6, <1>7, <1>9, <2>1, <2>7, <3>1
  <2>8. CASE ~ (j + 1 >= N)
    <3>1. ~ (K >= I) /\ K # I
      <4>1. (j + 2) * A <= N * A
        <5>1. j + 2 \in Nat /\ A \in Nat /\ A <= A /\ j + 2 <= N  BY <1>1, <1>2, <2>8
        <5> QED  BY <1>2, <5>1, TimesMonotone
      <4>2. (j + 2) * A = (j + 1) * A + A  BY <1>1
      <4> QED  BY <1>1, <1>2, <2>1, <2>3, <4>1, <4>2
    <3> QED  BY <1>5, <1>6, <1>7, <2>1, <2>5, <2>6, <2>8, <3>1
  <2> QED  BY <2>7, <2>8
<1> QED  BY <1>1, <1>12, <1>13

\* The same for a rounded quotient, which may carry into the next binade.
LEMMA RoundAtIs ==
    ASSUME NEW f \in Formats, NEW sign \in BOOLEAN, NEW rm \in Rms, NEW j \in Nat,
           NEW q \in Nat, NEW guard \in BOOLEAN, NEW sticky \in BOOLEAN,
           q < 2 * 2^f.sig, j = 0 \/ q >= 2^f.sig, q = 0 => guard \/ sticky
    PROVE  LET s == [q |-> q, guard |-> guard, sticky |-> sticky]
           IN  RoundAt(f, sign, rm, min_e(f) + j, s)
                 = PackedAt(f, sign, rm, At(f, j, q + IF round_up(rm, sign, s) THEN 1 ELSE 0),
                            guard \/ sticky)
<1> DEFINE A == 2^f.sig
           s == [q |-> q, guard |-> guard, sticky |-> sticky]
           Q == q + IF round_up(rm, sign, s) THEN 1 ELSE 0
           inexact == guard \/ sticky
           L == min_e(f) + j
           L1 == min_e(f) + (j + 1)
<1>1. A \in Nat \ {0} /\ 2^(f.sig + 1) = 2 * A  BY FormatPowers
<1>2. RoundAt(f, sign, rm, L, s) = Carry(f, sign, rm, inexact, Q, L)
  BY DEF RoundAt, Inexact, RoundedQuotient
<1>3. Carry(f, sign, rm, inexact, Q, L) =
        IF Q >= 2 * A THEN Pack(f, sign, rm, inexact, Q \div 2, L + 1)
        ELSE Pack(f, sign, rm, inexact, Q, L)
  BY <1>1 DEF Carry
<1>4. Q \in Nat /\ Q \in {q, q + 1}  OBVIOUS
<1>5. q < 2 * A /\ (j = 0 \/ q >= A) /\ (q = 0 => inexact)  OBVIOUS
<1>6. L + 1 = L1
  <2>1. min_e(f) \in Int  BY FormatFacts, FormatPowers DEF min_e
  <2> QED  BY <2>1
<1>7. SUFFICES RoundAt(f, sign, rm, L, s) = PackedAt(f, sign, rm, At(f, j, Q), inexact)  OBVIOUS
<1> HIDE DEF Q, A, s, L, L1, inexact
<1>8. inexact \in BOOLEAN  BY DEF inexact
<1>9. CASE Q >= 2 * A
  <2>1. Q = 2 * A /\ Q \div 2 = A  BY <1>1, <1>4, <1>5, <1>9
  <2>2. At(f, j + 1, A) = At(f, j, Q)
    <3>1. (j + 1) * A + A = j * A + 2 * A  BY <1>1
    <3> QED  BY <2>1, <3>1 DEF At, A
  <2>3. j + 1 \in Nat /\ A \in Nat /\ A < 2 * A /\ A >= A /\ A # 0  BY <1>1
  <2>4. Pack(f, sign, rm, inexact, A, L1) = PackedAt(f, sign, rm, At(f, j + 1, A), inexact)
    BY <1>8, <2>3, PackIs DEF A, L1
  <2> QED  BY <1>2, <1>3, <1>6, <1>9, <2>1, <2>2, <2>4
<1>10. CASE ~ (Q >= 2 * A)
  <2>1. Q < 2 * A /\ (j = 0 \/ Q >= A) /\ (Q = 0 => inexact)  BY <1>1, <1>4, <1>5, <1>10
  <2>2. Pack(f, sign, rm, inexact, Q, L) = PackedAt(f, sign, rm, At(f, j, Q), inexact)
    BY <1>4, <1>8, <2>1, PackIs DEF A, L
  <2> QED  BY <1>2, <1>3, <1>10, <2>2
<1> QED  BY <1>9, <1>10

-----------------------------------------------------------------------------
(* Rounding: the guard and sticky bits decide as the exact value would *)

\* An exact value is on a scale of half-units.
Sorted(exact) ==
    /\ \A h \in Nat : Compare(exact, h) \in {-1, 0, 1}
    /\ \A h \in Nat : \A i \in Nat :
         h <= i /\ Compare(exact, i) >= 0 => Compare(exact, h) >= 0

\* An encoding is even as its quotient is, and the next one follows.
LEMMA EvenAt ==
    ASSUME NEW f \in Formats, NEW j \in Nat, NEW q \in Nat
    PROVE  At(f, j, q) % 2 = q % 2 /\ At(f, j, q) \in Nat /\ At(f, j, q) + 1 = At(f, j, q + 1)
<1> DEFINE A == 2^f.sig
           B == 2^(f.sig - 1)
           z == j * B
<1>1. A \in Nat \ {0} /\ B \in Nat /\ A = 2 * B  BY FormatPowers
<1>2. At(f, j, q) = j * A + q /\ At(f, j, q + 1) = j * A + (q + 1)  BY DEF At
<1> HIDE DEF A, B
<1>3. z \in Nat /\ j * A = 2 * z  BY <1>1
<1> HIDE DEF z
<1> QED  BY <1>2, <1>3

\* What the bits below the quotient say of the value says how it rounds.
LEMMA RoundsUp ==
    ASSUME NEW rm \in Rms, NEW sign \in BOOLEAN, NEW q \in Nat,
           NEW guard \in BOOLEAN, NEW sticky \in BOOLEAN, NEW half,
           half = IF ~ guard THEN -1 ELSE IF sticky THEN 1 ELSE 0
    PROVE  round_up(rm, sign, [q |-> q, guard |-> guard, sticky |-> sticky])
             <=> (guard \/ sticky) /\ Away(sign, rm, q % 2 = 1, half)
<1> DEFINE s == [q |-> q, guard |-> guard, sticky |-> sticky]
           up == round_up(rm, sign, s)
           aw == Away(sign, rm, q % 2 = 1, half)
<1>1. s.q = q /\ s.guard = guard /\ s.sticky = sticky  OBVIOUS
<1>2. up <=> \/ rm = "Rne" /\ guard /\ (sticky \/ q % 2 = 1)
             \/ rm = "Rdn" /\ sign /\ (guard \/ sticky)
             \/ rm = "Rup" /\ ~ sign /\ (guard \/ sticky)
             \/ rm = "Rmm" /\ guard
  BY <1>1 DEF round_up, Inexact
<1>3. rm \in {"Rne", "Rtz", "Rdn", "Rup", "Rmm"}  BY DEF Rms
<1>4. SUFFICES up <=> (guard \/ sticky) /\ aw  OBVIOUS
<1>5. /\ half > 0 <=> guard /\ sticky
      /\ half = 0 <=> guard /\ ~ sticky
      /\ half >= 0 <=> guard
  <2>1. CASE ~ guard  BY <2>1
  <2>2. CASE guard /\ sticky  BY <2>2
  <2>3. CASE guard /\ ~ sticky  BY <2>3
  <2> QED  BY <2>1, <2>2, <2>3
<1>6. CASE rm = "Rne"
  <2>1. aw <=> half > 0 \/ (half = 0 /\ q % 2 = 1)  BY <1>6 DEF Away
  <2> HIDE DEF up, aw
  <2> QED  BY <1>2, <1>5, <1>6, <2>1
<1>7. CASE rm = "Rtz"
  <2>1. ~ aw  BY <1>7 DEF Away
  <2> HIDE DEF up, aw
  <2> QED  BY <1>2, <1>7, <2>1
<1>8. CASE rm = "Rdn"
  <2>1. aw <=> sign  BY <1>8 DEF Away
  <2> HIDE DEF up, aw
  <2> QED  BY <1>2, <1>8, <2>1
<1>9. CASE rm = "Rup"
  <2>1. aw <=> ~ sign  BY <1>9 DEF Away
  <2> HIDE DEF up, aw
  <2> QED  BY <1>2, <1>9, <2>1
<1>10. CASE rm = "Rmm"
  <2>1. aw <=> half >= 0  BY <1>10 DEF Away
  <2> HIDE DEF up, aw
  <2> QED  BY <1>2, <1>5, <1>10, <2>1
<1> QED  BY <1>3, <1>6, <1>7, <1>8, <1>9, <1>10

\* The largest encoding not above an exact value.
LEMMA LargestBelow ==
    ASSUME NEW f \in Formats, NEW exact, Sorted(exact), NEW k \in 0 .. Infinity(f),
           Compare(exact, 2 * Units(f, k)) >= 0,
           k < Infinity(f) => Compare(exact, 2 * Units(f, k + 1)) = -1
    PROVE  Max({i \in 0 .. Infinity(f) : Compare(exact, 2 * Units(f, i)) >= 0}) = k
<1> DEFINE I == Infinity(f)
           T == {i \in 0 .. I : Compare(exact, 2 * Units(f, i)) >= 0}
<1>1. I \in Nat  BY InfinityIs
<1>2. \A i \in 0 .. I : Units(f, i) \in Nat /\ \A n \in 0 .. i - 1 : Units(f, n) < Units(f, i)
  BY UnitsOrdered
<1>3. k \in T  OBVIOUS
<1>4. ASSUME NEW i \in T PROVE k >= i
  <2> SUFFICES ASSUME ~ (k >= i) PROVE FALSE  OBVIOUS
  <2>1. i \in 0 .. I /\ k \in 0 .. I /\ k + 1 \in 0 .. I /\ k < I /\ k + 1 <= i  BY <1>1
  <2>2. Units(f, k + 1) <= Units(f, i) /\ Units(f, i) \in Nat /\ Units(f, k + 1) \in Nat
    <3>1. Units(f, i) \in Nat /\ Units(f, k + 1) \in Nat  BY <1>2, <2>1
    <3>2. CASE i = k + 1  BY <3>1, <3>2
    <3>3. CASE i # k + 1
      <4>1. k + 1 \in 0 .. i - 1  BY <2>1, <3>3
      <4>2. Units(f, k + 1) < Units(f, i)  BY <1>2, <2>1, <4>1
      <4> QED  BY <3>1, <4>2
    <3> QED  BY <3>2, <3>3
  <2> DEFINE a == 2 * Units(f, k + 1)
             b == 2 * Units(f, i)
  <2>3. a \in Nat /\ b \in Nat /\ a <= b  BY <2>2
  <2>4. Compare(exact, b) >= 0 /\ Compare(exact, a) = -1  BY <2>1
  <2> HIDE DEF a, b, T
  <2>5. Compare(exact, a) >= 0  BY <2>3, <2>4 DEF Sorted
  <2> QED  BY <2>4, <2>5
<1> HIDE DEF T
<1>5. T \subseteq Int  BY <1>1 DEF T
<1>6. Max(T) = k
  <2>1. Max(T) \in T /\ \A y \in T : Max(T) >= y  BY <1>3, <1>4 DEF Max
  <2>2. Max(T) >= k /\ k >= Max(T) /\ Max(T) \in Int /\ k \in Int  BY <1>3, <1>4, <1>5, <2>1
  <2> HIDE DEF Max
  <2> QED  BY <2>2
<1> QED  BY <1>6 DEF T

\* A quotient with a guard and a sticky bit that tell where the exact value lies
\* above it rounds as the value does.
LEMMA RoundNearest ==
    ASSUME NEW f \in Formats, NEW sign \in BOOLEAN, NEW rm \in Rms, NEW exact, Sorted(exact),
           NEW j \in 0 .. Reach, j + 1 <= Reach, NEW q \in Nat,
           NEW guard \in BOOLEAN, NEW sticky \in BOOLEAN,
           q < 2 * 2^f.sig, j = 0 \/ q >= 2^f.sig, q = 0 => guard \/ sticky,
           Compare(exact, 2 * (q * 2^j)) = IF guard \/ sticky THEN 1 ELSE 0,
           Compare(exact, 2 * ((q + 1) * 2^j)) = -1,
           Compare(exact, (2 * q + 1) * 2^j) = IF ~ guard THEN -1 ELSE IF sticky THEN 1 ELSE 0
    PROVE  RoundAt(f, sign, rm, min_e(f) + j, [q |-> q, guard |-> guard, sticky |-> sticky])
             = Rounded(f, sign, rm, exact)
<1> DEFINE A == 2^f.sig
           P == 2^j
           N == max_field(f)
           I == Infinity(f)
           s == [q |-> q, guard |-> guard, sticky |-> sticky]
           up == round_up(rm, sign, s)
           inexact == guard \/ sticky
           lo == At(f, j, q)
           half == IF ~ guard THEN -1 ELSE IF sticky THEN 1 ELSE 0
           got == RoundAt(f, sign, rm, min_e(f) + j, s)
           set == {i \in 0 .. I : Compare(exact, 2 * Units(f, i)) >= 0}
<1>1. A \in Nat \ {0} /\ P \in Nat \ {0} /\ I \in Nat  BY FormatPowers, ReachPowers, InfinityIs
<1>2. got = PackedAt(f, sign, rm, At(f, j, q + IF up THEN 1 ELSE 0), inexact)
  BY RoundAtIs
<1>3. /\ At(f, j, q) % 2 = q % 2 /\ lo \in Nat /\ lo + 1 = At(f, j, q + 1)
  <2>1. j \in Nat  OBVIOUS
  <2> QED  BY <2>1, EvenAt
<1>4. At(f, j, q + IF up THEN 1 ELSE 0) = IF up THEN lo + 1 ELSE lo
  <2>1. CASE up  BY <1>3, <2>1
  <2>2. CASE ~ up  BY <2>2
  <2> QED  BY <2>1, <2>2
<1>5. up <=> inexact /\ Away(sign, rm, lo % 2 = 1, half)
  <2>1. up <=> inexact /\ Away(sign, rm, q % 2 = 1, half)  BY RoundsUp
  <2> QED  BY <1>3, <2>1
<1>6. Units(f, lo) = q * P /\ Units(f, lo + 1) = (q + 1) * P
  <2>1. q <= 2 * A /\ q + 1 <= 2 * A /\ q + 1 \in Nat /\ (j = 0 \/ q + 1 >= A)
    <3> HIDE DEF A
    <3>1. q < 2 * A /\ (j = 0 \/ q >= A)  BY DEF A
    <3> QED  BY <1>1, <3>1
  <2>2. Units(f, lo) = q * P  BY <2>1, UnitsAt
  <2>3. Units(f, At(f, j, q + 1)) = (q + 1) * P  BY <2>1, UnitsAt
  <2> QED  BY <1>3, <2>2, <2>3
<1>7. Rounded(f, sign, rm, exact) = Around(f, sign, rm, exact, Max(set))  BY DEF Rounded
<1>8. CASE lo >= I
  <2>1. got = Overflowed(f, sign, rm)
    <3> DEFINE k == IF up THEN lo + 1 ELSE lo
    <3>1. got = PackedAt(f, sign, rm, k, inexact)  BY <1>2, <1>4
    <3>2. k >= I  BY <1>1, <1>3, <1>8
    <3> HIDE DEF k, got
    <3> QED  BY <3>1, <3>2 DEF PackedAt
  <2>2. I = N * A /\ N \in Nat /\ N >= 3 /\ N = 2 * bias(f) + 1
    <3>1. N = 2^exp_bits(f) - 1 /\ 2^exp_bits(f) >= 4 /\ 2^exp_bits(f) \in Nat
          /\ I = (2^exp_bits(f) - 1) * A
      BY InfinityIs, FormatPowers
    <3>2. N = 2 * bias(f) + 1  BY Reaches
    <3> HIDE DEF I, N
    <3>3. I = N * A  BY <3>1
    <3> QED  BY <3>1, <3>2, <3>3
  <2> DEFINE n == N - 1
             M == 2^n
  <2>3. n \in 0 .. Reach /\ n + 1 <= Reach /\ n >= 2
    <3>1. bias(f) \in Nat /\ f.sig \in Nat /\ f.sig >= 2 /\ 3 * (bias(f) + f.sig) <= Reach /\ Reach \in Nat
      BY Reaches, FormatFacts
    <3> HIDE DEF N
    <3> QED  BY <2>2, <3>1
  <2>4. M \in Nat \ {0}  BY <2>3, ReachPowers
  <2>5. lo = j * A + q /\ q < 2 * A  BY DEF At
  <2>6. n <= j
    <3> SUFFICES ASSUME ~ (n <= j) PROVE FALSE  OBVIOUS
    <3> HIDE DEF A, N, I, lo
    <3>1. j + 2 \in Nat /\ j + 2 <= N  BY <2>2
    <3>2. (j + 2) * A <= N * A  BY <1>1, <2>2, <3>1, TimesMonotone
    <3>3. (j + 2) * A = j * A + 2 * A /\ j * A \in Nat  BY <1>1
    <3> QED  BY <1>1, <1>8, <2>2, <2>5, <3>2, <3>3
  <2>7. q >= A
    <3>1. j # 0  BY <2>3, <2>6
    <3> QED  BY <3>1
  <2>8. Units(f, I) = A * M
    <3>1. At(f, n, A) = I
      <4>1. At(f, n, A) = (N - 1) * A + A  BY DEF At
      <4> HIDE DEF A, N, I
      <4>2. (N - 1) * A + A = N * A  BY <1>1, <2>2
      <4> QED  BY <2>2, <4>1, <4>2
    <3>2. A \in Nat /\ A <= 2 * A /\ A >= A
      <4> HIDE DEF A
      <4> QED  BY <1>1
    <3> HIDE DEF n
    <3>3. Units(f, At(f, n, A)) = A * 2^n  BY <2>3, <3>2, UnitsAt
    <3> QED  BY <3>1, <3>3 DEF n
  <2>9. M <= P  BY <2>3, <2>6, ReachMonotone
  <2> DEFINE a == 2 * (A * M)
             b == 2 * (q * P)
  <2>10. a \in Nat /\ b \in Nat /\ a <= b
    <3> HIDE DEF A, M, P
    <3>1. A * M <= q * P  BY <1>1, <2>4, <2>7, <2>9, TimesMonotone DEF A
    <3>2. A * M \in Nat /\ q * P \in Nat  BY <1>1, <2>4
    <3> QED  BY <3>1, <3>2
  <2>11. Compare(exact, b) >= 0
    <3>1. Compare(exact, b) = IF inexact THEN 1 ELSE 0  OBVIOUS
    <3> HIDE DEF b
    <3> QED  BY <3>1
  <2>12. Compare(exact, a) >= 0
    <3> HIDE DEF a, b
    <3> QED  BY <2>10, <2>11 DEF Sorted
  <2>13. Compare(exact, 2 * Units(f, I)) >= 0  BY <2>8, <2>12
  <2>14. Max(set) = I
    <3>1. I \in 0 .. I /\ ~ (I < I)
      <4> HIDE DEF I
      <4> QED  BY <1>1
    <3> QED  BY <2>13, <3>1, LargestBelow
  <2> QED  BY <1>7, <2>1, <2>14 DEF Around
<1>9. CASE ~ (lo >= I)
  <2>1. lo \in 0 .. I /\ lo < I /\ lo # I
    <3> HIDE DEF lo, I
    <3> QED  BY <1>1, <1>3, <1>9
  <2>2. Compare(exact, 2 * Units(f, lo)) = IF inexact THEN 1 ELSE 0  BY <1>6
  <2>3. Compare(exact, 2 * Units(f, lo)) >= 0
    <3> DEFINE c == Compare(exact, 2 * Units(f, lo))
    <3>1. c = IF inexact THEN 1 ELSE 0  BY <2>2
    <3> HIDE DEF c
    <3>2. c >= 0  BY <3>1
    <3> QED  BY <3>2 DEF c
  <2>4. Compare(exact, 2 * Units(f, lo + 1)) = -1  BY <1>6
  <2> HIDE DEF lo, I
  <2>5. Max(set) = lo  BY <2>1, <2>3, <2>4, LargestBelow DEF I
  <2>6. Units(f, lo) + Units(f, lo + 1) = (2 * q + 1) * P
    <3> HIDE DEF P
    <3>1. q * P + (q + 1) * P = (2 * q + 1) * P  BY <1>1
    <3> QED  BY <1>6, <3>1
  <2>7. Compare(exact, Units(f, lo) + Units(f, lo + 1)) = half  BY <2>6
  <2>8. (Compare(exact, 2 * Units(f, lo)) = 0) <=> ~ inexact
    <3>1. CASE inexact  BY <2>2, <3>1
    <3>2. CASE ~ inexact  BY <2>2, <3>2
    <3> QED  BY <3>1, <3>2
  <2> DEFINE e == Compare(exact, 2 * Units(f, lo)) = 0
             up2 == ~ e /\ Away(sign, rm, lo % 2 = 1, half)
  <2>9. Rounded(f, sign, rm, exact) = Packed(f, sign, rm, IF up2 THEN lo + 1 ELSE lo, ~ e)
    <3>1. Rounded(f, sign, rm, exact) = Around(f, sign, rm, exact, lo)  BY <1>7, <2>5
    <3>2. Around(f, sign, rm, exact, lo) = Between(f, sign, rm, lo, e, half)
      BY <2>1, <2>7 DEF Around, I
    <3> HIDE DEF e, half
    <3> QED  BY <3>1, <3>2 DEF Between
  <2>10. e \in BOOLEAN /\ (up2 <=> up)
    <3> HIDE DEF up, half, inexact
    <3> QED  BY <1>5, <2>8
  <2>11. (~ e) = inexact
    <3>1. inexact \in BOOLEAN /\ (~ e) \in BOOLEAN  OBVIOUS
    <3> HIDE DEF inexact, e
    <3> QED  BY <2>8, <3>1 DEF e
  <2> DEFINE k == IF up THEN lo + 1 ELSE lo
  <2>12. Rounded(f, sign, rm, exact) = Packed(f, sign, rm, k, inexact)
    <3>1. (IF up2 THEN lo + 1 ELSE lo) = k
      <4> HIDE DEF up2, up
      <4> QED  BY <2>10
    <3> HIDE DEF up2, k, e, inexact
    <3> QED  BY <2>9, <2>11, <3>1
  <2>13. got = PackedAt(f, sign, rm, k, inexact)  BY <1>2, <1>4
  <2>14. PackedAt(f, sign, rm, k, inexact) = Packed(f, sign, rm, k, inexact)
    <3>1. CASE k >= I
      <4>1. k = I
        <5>1. k \in Nat /\ k <= lo + 1  BY <1>3
        <5> HIDE DEF k
        <5> QED  BY <1>1, <1>3, <2>1, <3>1, <5>1
      <4> HIDE DEF k, inexact
      <4>2. I >= I  BY <1>1
      <4> QED  BY <4>1, <4>2 DEF PackedAt, Packed, I
    <3>2. CASE ~ (k >= I)
      <4> HIDE DEF k, inexact
      <4> QED  BY <3>2 DEF PackedAt, I
    <3> QED  BY <3>1, <3>2
  <2> HIDE DEF got, k, inexact
  <2>15. got = Rounded(f, sign, rm, exact)  BY <2>12, <2>13, <2>14
  <2> QED  BY <2>15 DEF got
<1> QED  BY <1>8, <1>9

-----------------------------------------------------------------------------
(* round_pack: what the significand must tell of the exact value *)

Sgn(x) == IF x > 0 THEN 1 ELSE IF x = 0 THEN 0 ELSE -1

\* The significand m, its last bit t places below the rounded one, compares with
\* c as the exact value does; if bits were lost below m, only with even c.
Stands(exact, m, j, t, lost) ==
    \A c \in Nat : \A h \in Nat :
        h * 2^t = 2 * (c * 2^j) /\ (lost => c % 2 = 0) => Compare(exact, h) = Sgn(m - c)

\* Dividing by a power and by half of it.
LEMMA HalvesOf ==
    ASSUME NEW m \in Nat, NEW H \in Nat \ {0}
    PROVE  LET q == m \div (2 * H)
               g == (m \div H) % 2
           IN  /\ q \in Nat /\ g \in {0, 1} /\ m % H \in 0 .. H - 1
               /\ m = q * (2 * H) + g * H + (m % H)
<1> DEFINE b == m \div H
           r == m % H
           p == b \div 2
           g == b % 2
           rest == g * H + r
           T == 2 * H
<1>1. b \in Nat /\ r \in 0 .. H - 1 /\ m = H * b + r  OBVIOUS
<1> HIDE DEF b, r
<1>2. p \in Nat /\ g \in {0, 1} /\ b = 2 * p + g  BY <1>1
<1> HIDE DEF p, g
<1>3. H * b = p * (2 * H) + g * H
  <2>1. H * (2 * p + g) = p * (2 * H) + g * H  BY <1>2
  <2> QED  BY <1>2, <2>1
<1>4. g * H \in Nat /\ g * H <= H
  <2>1. CASE g = 0  BY <2>1
  <2>2. CASE g = 1  BY <2>2
  <2> QED  BY <1>2, <2>1, <2>2
<1>5. p * T \in Nat  BY <1>2
<1>6. m = T * p + rest /\ rest \in 0 .. T - 1
  <2>1. p * T = T * p  BY <1>2
  <2>2. m = p * T + g * H + r  BY <1>1, <1>3
  <2> HIDE DEF T
  <2>3. T = 2 * H  BY DEF T
  <2> QED  BY <1>1, <1>4, <1>5, <2>1, <2>2, <2>3
<1>7. T \in Nat \ {0}  OBVIOUS
<1> HIDE DEF T, rest
<1>8. m \div T = p  BY <1>2, <1>6, <1>7
<1>9. m = p * T + g * H + r  BY <1>1, <1>3 DEF T
<1> QED  BY <1>1, <1>2, <1>8, <1>9 DEF b, r, g, T

\* The bits a split leaves tell where the exact value lies.
LEMMA SplitNear ==
    ASSUME NEW exact, NEW m \in Nat \ {0}, NEW j \in 0 .. Reach, NEW t \in 1 .. Word - 1,
           NEW lost \in BOOLEAN, lost => t >= 2, Stands(exact, m, j, t, lost)
    PROVE  LET s == Split(m, t)
           IN  /\ s = [q |-> s.q, guard |-> s.guard, sticky |-> s.sticky]
               /\ s.q \in Nat /\ s.guard \in BOOLEAN /\ s.sticky \in BOOLEAN
               /\ s.q = m \div 2^t /\ m >= s.q * 2^t /\ m < (s.q + 1) * 2^t
               /\ s.q = 0 => s.guard \/ s.sticky
               /\ Compare(exact, 2 * (s.q * 2^j)) = IF s.guard \/ s.sticky THEN 1 ELSE 0
               /\ Compare(exact, 2 * ((s.q + 1) * 2^j)) = -1
               /\ Compare(exact, (2 * s.q + 1) * 2^j)
                    = IF ~ s.guard THEN -1 ELSE IF s.sticky THEN 1 ELSE 0
<1> DEFINE T == 2^t
           H == 2^(t - 1)
           P == 2^j
           s == Split(m, t)
           g == (m \div H) % 2
           r == m % H
           q == m \div T
<1>0. /\ Word \in Nat /\ Reach \in Nat /\ Word <= Reach
      /\ t \in 0 .. Reach /\ t - 1 \in 0 .. Reach /\ 1 \in 0 .. Reach /\ (t - 1) + 1 = t
  <2>1. Word \in Nat /\ Reach \in Nat /\ Word + bias(S) + S.sig <= Reach /\ bias(S) \in Nat /\ S.sig \in Nat
    BY WideInWord, Reaches, FormatFacts DEF Formats
  <2> QED  BY <2>1
<1>1. T \in Nat \ {0} /\ H \in Nat \ {0} /\ P \in Nat \ {0} /\ T = 2 * H
  <2>1. T \in Nat \ {0} /\ H \in Nat \ {0} /\ P \in Nat \ {0} /\ T = H * 2^1 /\ 2^1 = 2
    BY <1>0, ReachPowers, ReachSum
  <2> HIDE DEF T, H, P
  <2> QED  BY <2>1
<1>2. s = [q |-> q, guard |-> g = 1, sticky |-> r # 0]
  <2>1. ~ (t <= 0) /\ ~ (t >= Word)  BY <1>0
  <2> QED  BY <2>1 DEF Split
<1>3. lost => \E Q4 \in Nat : H = 2 * Q4
  <2> SUFFICES ASSUME lost PROVE \E Q4 \in Nat : H = 2 * Q4  OBVIOUS
  <2> DEFINE Q4 == 2^(t - 2)
  <2>1. t - 2 \in 0 .. Reach /\ (t - 2) + 1 = t - 1  BY <1>0
  <2>2. H = Q4 * 2^1 /\ 2^1 = 2 /\ Q4 \in Nat
    <3>1. 2^1 = 2 /\ Q4 \in Nat  BY <2>1, ReachPowers
    <3>2. t - 2 \in 0 .. Reach /\ 1 \in 0 .. Reach /\ t - 1 \in 0 .. Reach /\ t - 1 = (t - 2) + 1
      BY <1>0, <2>1
    <3>3. H = Q4 * 2^1  BY <3>2, ReachSum
    <3> QED  BY <3>1, <3>3
  <2> HIDE DEF Q4, H
  <2> QED  BY <2>2
<1>4. \A c \in Nat : \A h \in Nat :
        h * T = 2 * (c * P) /\ (lost => c % 2 = 0) => Compare(exact, h) = Sgn(m - c)
  BY DEF Stands
<1> HIDE DEF T, H, P, s
<1>5. q \in Nat /\ g \in {0, 1} /\ r \in 0 .. H - 1 /\ m = q * T + g * H + r
  BY <1>1, HalvesOf
<1> HIDE DEF q, g, r
<1>6. g * H \in {0, H} /\ (g = 0 <=> g * H = 0) /\ q * T \in Nat
  <2>1. CASE g = 0  BY <1>1, <1>5, <2>1
  <2>2. CASE g = 1  BY <1>1, <1>5, <2>2
  <2> QED  BY <1>5, <2>1, <2>2
<1>7. Compare(exact, 2 * (q * P)) = IF g = 1 \/ r # 0 THEN 1 ELSE 0
  <2> DEFINE c == q * T
             h == 2 * (q * P)
  <2>1. c \in Nat /\ h \in Nat  BY <1>1, <1>5
  <2>2. h * T = 2 * (c * P)
    <3>1. (2 * (q * P)) * T = 2 * ((q * T) * P)  BY <1>1, <1>5
    <3> QED  BY <3>1
  <2>3. c % 2 = 0
    <3> DEFINE z == q * H
    <3>1. z \in Nat /\ c = 2 * z  BY <1>1, <1>5
    <3> HIDE DEF c, z
    <3> QED  BY <3>1
  <2>4. m - c = g * H + r  BY <1>1, <1>5, <1>6
  <2> HIDE DEF c, h
  <2>5. Compare(exact, h) = Sgn(m - c)  BY <1>4, <2>1, <2>2, <2>3
  <2>6. Sgn(m - c) = IF g = 1 \/ r # 0 THEN 1 ELSE 0
    <3>1. CASE g = 1
      <4>1. m - c > 0  BY <1>1, <1>5, <1>6, <2>4, <3>1
      <4> QED  BY <3>1, <4>1 DEF Sgn
    <3>2. CASE g = 0 /\ r # 0
      <4>1. m - c > 0  BY <1>1, <1>5, <1>6, <2>4, <3>2
      <4> QED  BY <3>2, <4>1 DEF Sgn
    <3>3. CASE g = 0 /\ r = 0
      <4>1. m - c = 0  BY <1>1, <1>5, <1>6, <2>4, <3>3
      <4> QED  BY <3>3, <4>1 DEF Sgn
    <3> QED  BY <1>5, <3>1, <3>2, <3>3
  <2> QED  BY <2>5, <2>6 DEF h
<1>8. Compare(exact, 2 * ((q + 1) * P)) = -1 /\ m < (q + 1) * T
  <2> DEFINE c == (q + 1) * T
             h == 2 * ((q + 1) * P)
  <2>1. c \in Nat /\ h \in Nat  BY <1>1, <1>5
  <2>2. h * T = 2 * (c * P)
    <3>1. (2 * ((q + 1) * P)) * T = 2 * (((q + 1) * T) * P)  BY <1>1, <1>5
    <3> QED  BY <3>1
  <2>3. c % 2 = 0
    <3> DEFINE z == (q + 1) * H
    <3>1. z \in Nat /\ c = 2 * z  BY <1>1, <1>5
    <3> HIDE DEF c, z
    <3> QED  BY <3>1
  <2>4. c = q * T + T  BY <1>1, <1>5
  <2> HIDE DEF c, h
  <2>5. Compare(exact, h) = Sgn(m - c)  BY <1>4, <2>1, <2>2, <2>3
  <2>6. m < c /\ m - c < 0  BY <1>1, <1>5, <1>6, <2>1, <2>4
  <2>7. Sgn(m - c) = -1  BY <2>6, <2>1 DEF Sgn
  <2> QED  BY <2>5, <2>6, <2>7 DEF h, c
<1>9. Compare(exact, (2 * q + 1) * P) = IF g # 1 THEN -1 ELSE IF r # 0 THEN 1 ELSE 0
  <2> DEFINE c == (2 * q + 1) * H
             h == (2 * q + 1) * P
  <2>1. c \in Nat /\ h \in Nat  BY <1>1, <1>5
  <2>2. h * T = 2 * (c * P)
    <3>1. ((2 * q + 1) * P) * (2 * H) = 2 * (((2 * q + 1) * H) * P)  BY <1>1, <1>5
    <3> QED  BY <1>1, <3>1
  <2>3. lost => c % 2 = 0
    <3> SUFFICES ASSUME lost PROVE c % 2 = 0  OBVIOUS
    <3>1. PICK Q4 \in Nat : H = 2 * Q4  BY <1>3
    <3> DEFINE z == (2 * q + 1) * Q4
    <3>2. z \in Nat /\ c = 2 * z  BY <1>5, <3>1
    <3> HIDE DEF c, z
    <3> QED  BY <3>2
  <2>4. c = q * T + H
    <3>1. (2 * q + 1) * H = q * (2 * H) + H  BY <1>1, <1>5
    <3> QED  BY <1>1, <3>1
  <2> HIDE DEF c, h
  <2>5. Compare(exact, h) = Sgn(m - c)  BY <1>4, <2>1, <2>2, <2>3
  <2>6. CASE g = 0
    <3>1. m - c < 0  BY <1>1, <1>5, <1>6, <2>1, <2>4, <2>6
    <3>2. Sgn(m - c) = -1  BY <2>1, <3>1 DEF Sgn
    <3> QED  BY <2>5, <2>6, <3>2 DEF h
  <2>7. CASE g = 1
    <3>1. m - c = r  BY <1>1, <1>5, <1>6, <2>1, <2>4, <2>7
    <3>2. Sgn(m - c) = IF r # 0 THEN 1 ELSE 0  BY <1>1, <1>5, <3>1 DEF Sgn
    <3> QED  BY <2>5, <2>7, <3>2 DEF h
  <2> QED  BY <1>5, <2>6, <2>7
<1>10. q = 0 => g = 1 \/ r # 0
  <2> SUFFICES ASSUME q = 0, g = 0, r = 0 PROVE FALSE  BY <1>5
  <2>1. 0 * T = 0 /\ 0 * H = 0  BY <1>1
  <2> QED  BY <1>5, <2>1
<1>11. m >= q * T  BY <1>1, <1>5, <1>6
<1>12. /\ s.q = q /\ s.guard = (g = 1) /\ s.sticky = (r # 0)
       /\ s = [q |-> s.q, guard |-> s.guard, sticky |-> s.sticky]
  BY <1>2
<1> QED  BY <1>5, <1>7, <1>8, <1>9, <1>10, <1>11, <1>12 DEF P, T, q, s

\* What a significand must tell of the exact value, its last bit t places below
\* the rounded one: everything if no bit is dropped, that it is below half a
\* unit if all are.
Tells(exact, m, j, t) ==
    IF t <= 0 THEN \A h \in Nat : Compare(exact, h) = Sgn(2 * ((m * 2^(- t)) * 2^j) - h)
    ELSE IF t >= Word
    THEN Compare(exact, 0) = 1 /\ Compare(exact, 1) = -1 /\ Compare(exact, 2) = -1
    ELSE \E lost \in BOOLEAN : (lost => t >= 2) /\ Stands(exact, m, j, t, lost)

\* Where round_pack rounds a significand of b bits.
LEMMA LsbIs ==
    ASSUME NEW f \in Formats, NEW m \in Nat \ {0}, m < 2^Word, NEW e \in Int
    PROVE  LET L == Lsb(f, m, e)
               b == bit_len(m)
           IN  /\ L \in Int /\ L - min_e(f) \in Nat /\ b \in 1 .. Word
               /\ L - e >= b - 1 - f.sig
               /\ L - min_e(f) > 0 => L - e = b - 1 - f.sig
               /\ L - e >= min_e(f) - e
               /\ min_e(f) \in Int
<1> DEFINE L == Lsb(f, m, e)
           b == bit_len(m)
           low == b - 1 + e - f.sig
<1>1. f.sig \in Nat /\ min_e(f) \in Int /\ Word \in Nat
  BY FormatFacts, FormatPowers, WideInWord DEF min_e
<1>2. b \in 1 .. Word
  <2>1. m \in Nat /\ m > 0  OBVIOUS
  <2>2. b \in 0 .. Word /\ b > 0  BY <2>1, BitLength
  <2> HIDE DEF b
  <2> QED  BY <1>1, <2>2
<1> HIDE DEF b
<1>3. L = Max({low, min_e(f)})  BY DEF Lsb, b
<1>4. low \in Int  BY <1>1, <1>2
<1> HIDE DEF L
<1>5. L \in Int /\ L >= low /\ L >= min_e(f) /\ L \in {low, min_e(f)}  BY <1>1, <1>3, <1>4, MaxOfTwo
<1>6. SUFFICES /\ L \in Int /\ L - min_e(f) \in Nat /\ b \in 1 .. Word
               /\ L - e >= b - 1 - f.sig
               /\ L - min_e(f) > 0 => L - e = b - 1 - f.sig
               /\ L - e >= min_e(f) - e
               /\ min_e(f) \in Int
  BY DEF L, b
<1> QED  BY <1>1, <1>2, <1>5

\* The facts on exponents a rounding needs.
LEMMA WordReach ==
    ASSUME NEW f \in Formats
    PROVE  /\ Word \in Nat /\ Reach \in Nat /\ f.sig \in Nat /\ f.sig >= 2 /\ f.sig + 4 <= Word \div 2
           /\ Word + f.sig + 1 <= Reach /\ 2 * f.sig + 8 <= Word /\ bias(f) \in Nat \ {0}
           /\ Word + bias(f) + f.sig <= Reach /\ 3 * (bias(f) + f.sig) <= Reach
           /\ min_e(f) = 1 - bias(f) - f.sig /\ min_e(f) \in Int
           /\ max_field(f) = 2 * bias(f) + 1
<1>1. /\ Word \in Nat /\ Reach \in Nat /\ f.sig \in Nat /\ f.sig >= 2 /\ f.sig + 4 <= Word \div 2
      /\ 2 * f.sig + 8 <= Word /\ bias(f) \in Nat \ {0}
      /\ Word + bias(f) + f.sig <= Reach /\ 3 * (bias(f) + f.sig) <= Reach
      /\ max_field(f) = 2 * bias(f) + 1
  BY Reaches, FormatFacts, WideInWord
<1>2. min_e(f) = 1 - bias(f) - f.sig  BY DEF min_e
<1> QED  BY <1>1, <1>2

\* round_pack rounds the exact value a significand tells of.
LEMMA RoundPackIs ==
    ASSUME NEW f \in Formats, NEW sign \in BOOLEAN, NEW rm \in Rms, NEW exact, Sorted(exact),
           NEW m \in Nat \ {0}, m < 2^Word, NEW e \in Int,
           Lsb(f, m, e) - min_e(f) + 1 <= Reach,
           Tells(exact, m, Lsb(f, m, e) - min_e(f), Lsb(f, m, e) - e)
    PROVE  round_pack(f, sign, m, e, rm) = Rounded(f, sign, rm, exact)
<1> DEFINE L == Lsb(f, m, e)
           b == bit_len(m)
           j == L - min_e(f)
           t == L - e
           A == 2^f.sig
           P == 2^j
           s == Split(m, t)
<1>1. /\ L \in Int /\ j \in Nat /\ b \in 1 .. Word /\ t >= b - 1 - f.sig
      /\ (j > 0 => t = b - 1 - f.sig) /\ min_e(f) \in Int
  BY LsbIs
<1>2. round_pack(f, sign, m, e, rm) = RoundAt(f, sign, rm, L, s)  BY DEF round_pack
<1>3. min_e(f) + j = L  BY <1>1
<1>4. j + 1 <= Reach /\ Tells(exact, m, j, t)  OBVIOUS
<1>5. A \in Nat \ {0} /\ 2^(f.sig + 1) = 2 * A  BY FormatPowers
<1>6. /\ Word \in Nat /\ Reach \in Nat /\ f.sig \in Nat /\ f.sig >= 2 /\ Word + f.sig + 1 <= Reach
  BY WordReach
<1>7. m < 2^b /\ m >= 2^(b - 1)
  <2>1. m \in Nat /\ m > 0  OBVIOUS
  <2> QED  BY <2>1, BitLength
<1> HIDE DEF L, b
<1>8. t \in Int  BY <1>1
<1> HIDE DEF j, t
<1>9. j \in 0 .. Reach  BY <1>1, <1>4, <1>6
<1>10. P \in Nat \ {0}  BY <1>9, ReachPowers
<1>11. CASE t <= 0
  <2> DEFINE d == - t
             E == 2^d
             q == m * E
             B == 2^b
             C == 2^(b - 1)
  <2>1. d \in Nat /\ d \in 0 .. Reach /\ b \in 0 .. Reach /\ b - 1 \in 0 .. Reach /\ b + d \in 0 .. Reach
        /\ b - 1 + d \in 0 .. Reach /\ b + d <= f.sig + 1 /\ f.sig + 1 \in 0 .. Reach
    BY <1>1, <1>6, <1>8, <1>11
  <2>2. E \in Nat \ {0} /\ B \in Nat /\ C \in Nat /\ m < B /\ m >= C  BY <1>7, <2>1, ReachPowers
  <2>3. B * E = 2^(b + d) /\ C * E = 2^(b - 1 + d)  BY <2>1, ReachPowers
  <2>4. 2^(b + d) <= 2 * A  BY <1>5, <2>1, ReachMonotone
  <2>5. j > 0 => b - 1 + d = f.sig  BY <1>1, <1>6, <1>8
  <2>6. s = [q |-> q, guard |-> FALSE, sticky |-> FALSE]  BY <1>11 DEF Split
  <2>7. \A h \in Nat : Compare(exact, h) = Sgn(2 * (q * P) - h)
    BY <1>4, <1>11 DEF Tells
  <2>8. B * E <= 2 * A /\ (j > 0 => C * E = A)
    <3>1. B * E <= 2 * A  BY <2>3, <2>4
    <3>2. j > 0 => C * E = A  BY <2>3, <2>5
    <3> QED  BY <3>1, <3>2
  <2> HIDE DEF A, B, C, E, P
  <2>9. q \in Nat /\ q # 0 /\ q < 2 * A
    <3>1. (m + 1) * E <= B * E
      <4>1. m + 1 <= B /\ m + 1 \in Nat  BY <2>2
      <4> QED  BY <2>2, <4>1, TimesMonotone
    <3>2. (m + 1) * E = q + E /\ q \in Nat  BY <2>2
    <3>3. q # 0
      <4>1. m * E = E + (m - 1) * E /\ (m - 1) * E \in Nat  BY <2>2
      <4> QED  BY <2>2, <4>1
    <3> HIDE DEF q
    <3>4. B * E \in Int  BY <2>2
    <3> QED  BY <1>5, <2>2, <2>8, <3>1, <3>2, <3>3, <3>4
  <2>10. j = 0 \/ q >= A
    <3> SUFFICES ASSUME j # 0 PROVE q >= A  OBVIOUS
    <3>1. j > 0  BY <1>9
    <3>2. C * E <= m * E  BY <2>2, TimesMonotone
    <3>3. C * E \in Int /\ q \in Int  BY <2>2, <2>9
    <3> QED  BY <1>5, <2>8, <3>1, <3>2, <3>3
  <2> HIDE DEF q
  <2> DEFINE h0 == 2 * (q * P)
             h1 == (2 * q + 1) * P
             h2 == 2 * ((q + 1) * P)
  <2>11. h0 \in Nat /\ h1 \in Nat /\ h2 \in Nat /\ h1 = h0 + P /\ h2 = h0 + 2 * P
    <3>1. q * P \in Nat /\ (2 * q + 1) * P = 2 * (q * P) + P /\ (q + 1) * P = q * P + P
      BY <1>10, <2>9
    <3> QED  BY <1>10, <3>1
  <2>12. Compare(exact, h0) = 0 /\ Compare(exact, h1) = -1 /\ Compare(exact, h2) = -1
    <3> HIDE DEF h1, h2
    <3>1. h0 - h0 = 0 /\ h0 - h1 < 0 /\ h0 - h2 < 0  BY <1>10, <2>11
    <3>2. /\ Compare(exact, h0) = Sgn(h0 - h0)
          /\ Compare(exact, h1) = Sgn(h0 - h1)
          /\ Compare(exact, h2) = Sgn(h0 - h2)
      BY <2>7, <2>11
    <3> HIDE DEF h0
    <3>3. Sgn(h0 - h0) = 0 /\ Sgn(h0 - h1) = -1 /\ Sgn(h0 - h2) = -1  BY <2>11, <3>1 DEF Sgn
    <3> QED  BY <3>2, <3>3
  <2>13. RoundAt(f, sign, rm, min_e(f) + j, [q |-> q, guard |-> FALSE, sticky |-> FALSE])
           = Rounded(f, sign, rm, exact)
    <3> DEFINE guard == FALSE
               sticky == FALSE
    <3>1. /\ guard \in BOOLEAN /\ sticky \in BOOLEAN /\ (q = 0 => guard \/ sticky)
          /\ Compare(exact, 2 * (q * P)) = IF guard \/ sticky THEN 1 ELSE 0
          /\ Compare(exact, 2 * ((q + 1) * P)) = -1
          /\ Compare(exact, (2 * q + 1) * P) = IF ~ guard THEN -1 ELSE IF sticky THEN 1 ELSE 0
      BY <2>9, <2>12
    <3> HIDE DEF guard, sticky
    <3>2. RoundAt(f, sign, rm, min_e(f) + j, [q |-> q, guard |-> guard, sticky |-> sticky])
            = Rounded(f, sign, rm, exact)
      BY <1>4, <1>9, <2>9, <2>10, <3>1, RoundNearest DEF A, P
    <3> QED  BY <3>2 DEF guard, sticky
  <2> QED  BY <1>2, <1>3, <2>6, <2>13
<1>12. CASE t > 0 /\ t >= Word
  <2>1. s = [q |-> 0, guard |-> FALSE, sticky |-> TRUE]
    <3>1. ~ (t <= 0)  BY <1>8, <1>12
    <3> QED  BY <1>12, <3>1 DEF Split
  <2>2. j = 0
    <3> SUFFICES ASSUME j # 0 PROVE FALSE  OBVIOUS
    <3>1. j > 0  BY <1>9
    <3> QED  BY <1>1, <1>6, <1>8, <1>12, <3>1
  <2>3. P = 1  BY <2>2, ReachPowers DEF P
  <2>4. Compare(exact, 0) = 1 /\ Compare(exact, 1) = -1 /\ Compare(exact, 2) = -1
    <3>1. ~ (t <= 0)  BY <1>8, <1>12
    <3> QED  BY <1>4, <1>12, <3>1 DEF Tells
  <2>5. 2 * (0 * P) = 0 /\ (2 * 0 + 1) * P = 1 /\ 2 * ((0 + 1) * P) = 2  BY <2>3
  <2>6. /\ Compare(exact, 2 * (0 * P)) = 1 /\ Compare(exact, (2 * 0 + 1) * P) = -1
        /\ Compare(exact, 2 * ((0 + 1) * P)) = -1
    BY <2>4, <2>5
  <2>7. 0 < 2 * A  BY <1>5
  <2>8. RoundAt(f, sign, rm, min_e(f) + j, [q |-> 0, guard |-> FALSE, sticky |-> TRUE])
           = Rounded(f, sign, rm, exact)
    <3> DEFINE q == 0
               guard == FALSE
               sticky == TRUE
    <3>1. /\ guard \in BOOLEAN /\ sticky \in BOOLEAN /\ (q = 0 => guard \/ sticky) /\ q \in Nat
          /\ q < 2 * A /\ (j = 0 \/ q >= A)
          /\ Compare(exact, 2 * (q * P)) = IF guard \/ sticky THEN 1 ELSE 0
          /\ Compare(exact, 2 * ((q + 1) * P)) = -1
          /\ Compare(exact, (2 * q + 1) * P) = IF ~ guard THEN -1 ELSE IF sticky THEN 1 ELSE 0
      BY <2>2, <2>6, <2>7
    <3> HIDE DEF q, guard, sticky
    <3>2. RoundAt(f, sign, rm, min_e(f) + j, [q |-> q, guard |-> guard, sticky |-> sticky])
            = Rounded(f, sign, rm, exact)
      BY <1>4, <1>9, <3>1, RoundNearest DEF A, P
    <3> QED  BY <3>2 DEF q, guard, sticky
  <2> QED  BY <1>2, <1>3, <2>1, <2>8
<1>13. CASE t > 0 /\ ~ (t >= Word)
  <2> DEFINE T == 2^t
             B == 2^b
             C == 2^(b - 1)
             q == s.q
             guard == s.guard
             sticky == s.sticky
  <2>1. t \in 1 .. Word - 1 /\ ~ (t <= 0)  BY <1>6, <1>8, <1>13
  <2>2. PICK lost \in BOOLEAN : (lost => t >= 2) /\ Stands(exact, m, j, t, lost)
    BY <1>4, <1>13, <2>1 DEF Tells
  <2>3. /\ s = [q |-> q, guard |-> guard, sticky |-> sticky]
        /\ q \in Nat /\ guard \in BOOLEAN /\ sticky \in BOOLEAN
        /\ q = m \div T /\ m >= q * T /\ m < (q + 1) * T
        /\ q = 0 => guard \/ sticky
        /\ Compare(exact, 2 * (q * P)) = IF guard \/ sticky THEN 1 ELSE 0
        /\ Compare(exact, 2 * ((q + 1) * P)) = -1
        /\ Compare(exact, (2 * q + 1) * P)
             = IF ~ guard THEN -1 ELSE IF sticky THEN 1 ELSE 0
    BY <1>9, <2>1, <2>2, SplitNear
  <2>4. /\ t \in 0 .. Reach /\ b \in 0 .. Reach /\ b - 1 \in 0 .. Reach
        /\ t + f.sig \in 0 .. Reach /\ t + (f.sig + 1) \in 0 .. Reach
        /\ f.sig \in 0 .. Reach /\ f.sig + 1 \in 0 .. Reach
        /\ b <= t + (f.sig + 1)
    BY <1>1, <1>6, <2>1
  <2>5. T \in Nat \ {0} /\ B \in Nat /\ C \in Nat /\ m < B /\ m >= C  BY <1>7, <2>4, ReachPowers
  <2>6. 2^(t + f.sig) = T * A /\ 2^(t + (f.sig + 1)) = T * (2 * A)
    <3>1. 2^(t + f.sig) = T * A /\ 2^(t + (f.sig + 1)) = T * 2^(f.sig + 1)  BY <2>4, ReachPowers
    <3> QED  BY <1>5, <3>1
  <2>7. B <= T * (2 * A)
    <3>1. B <= 2^(t + (f.sig + 1))  BY <2>4, ReachMonotone
    <3> QED  BY <2>6, <3>1
  <2>8. j > 0 => C = T * A
    <3> SUFFICES ASSUME j > 0 PROVE C = T * A  OBVIOUS
    <3>1. b - 1 = t + f.sig  BY <1>1, <1>6, <1>8
    <3> QED  BY <2>6, <3>1
  <2> HIDE DEF A, B, C, T, P
  <2>9. q < 2 * A
    <3> HIDE DEF q
    <3> SUFFICES ASSUME ~ (q < 2 * A) PROVE FALSE  OBVIOUS
    <3>1. 2 * A <= q  BY <1>5, <2>3
    <3>2. T * (2 * A) <= T * q  BY <1>5, <2>3, <2>5, <3>1, TimesMonotone
    <3>3. T * q = q * T /\ T * q \in Nat /\ T * (2 * A) \in Nat  BY <1>5, <2>3, <2>5
    <3> QED  BY <2>3, <2>5, <2>7, <3>2, <3>3
  <2>10. j = 0 \/ q >= A
    <3> SUFFICES ASSUME j # 0, ~ (q >= A) PROVE FALSE  OBVIOUS
    <3>1. j > 0  BY <1>9
    <3> HIDE DEF q
    <3>2. q + 1 <= A /\ q + 1 \in Nat  BY <1>5, <2>3
    <3>3. (q + 1) * T <= A * T  BY <1>5, <2>5, <3>2, TimesMonotone
    <3>4. A * T = T * A /\ (q + 1) * T \in Nat /\ A * T \in Nat  BY <1>5, <2>5, <3>2
    <3> QED  BY <2>3, <2>5, <2>8, <3>1, <3>3, <3>4
  <2> HIDE DEF q, guard, sticky
  <2>11. RoundAt(f, sign, rm, min_e(f) + j, [q |-> q, guard |-> guard, sticky |-> sticky])
           = Rounded(f, sign, rm, exact)
    BY <1>4, <1>9, <2>3, <2>9, <2>10, RoundNearest DEF A, P
  <2> QED  BY <1>2, <1>3, <2>3, <2>11
<1> QED  BY <1>8, <1>11, <1>12, <1>13

-----------------------------------------------------------------------------
(* Exact ratios, and a word near one *)

\* Signs of products and differences.
LEMMA SgnTimes ==
    ASSUME NEW x \in Int, NEW k \in Nat \ {0}
    PROVE  Sgn(x * k) = Sgn(x)
<1>1. CASE x > 0
  <2>1. x * k > 0
    <3>1. x \in Nat  BY <1>1
    <3>2. x * k = k + (x - 1) * k /\ (x - 1) * k \in Nat  BY <1>1, <3>1
    <3> QED  BY <3>2
  <2> QED  BY <1>1, <2>1 DEF Sgn
<1>2. CASE x = 0
  <2>1. x * k = 0  BY <1>2
  <2> QED  BY <1>2, <2>1 DEF Sgn
<1>3. CASE x < 0
  <2> DEFINE y == - x
  <2>1. y \in Nat /\ y > 0 /\ x = - y  BY <1>3
  <2> HIDE DEF y
  <2>2. x * k = - (y * k)  BY <2>1
  <2>3. y * k = k + (y - 1) * k /\ (y - 1) * k \in Nat  BY <2>1
  <2>4. x * k < 0  BY <2>1, <2>2, <2>3
  <2>5. x * k \in Int  OBVIOUS
  <2> QED  BY <1>3, <2>4, <2>5 DEF Sgn
<1> QED  BY <1>1, <1>2, <1>3

LEMMA SgnRange == ASSUME NEW x PROVE Sgn(x) \in {-1, 0, 1}
BY DEF Sgn

\* How a ratio compares with half-units.
LEMMA RatioOrder ==
    ASSUME NEW n \in Nat, NEW d \in Nat \ {0}, NEW h \in Nat
    PROVE  Compare(Ratio(n, d), h) = Sgn(2 * n - h * d)
<1> DEFINE v == (2 * n) \div d
           r == (2 * n) % d
<1>1. Compare(Ratio(n, d), h) = Order(v, h, r # 0)
  <2>1. Ratio(n, d).n = n /\ Ratio(n, d).d = d  BY DEF Ratio
  <2>2. Compare(Ratio(n, d), h) =
          IF d > 0 THEN Order(v, h, r # 0)
          ELSE IF h = 0 THEN Order(n, 0, FALSE) ELSE Order((4 * n) \div h, h, (4 * n) % h # 0)
    BY <2>1 DEF Compare
  <2>3. d > 0  OBVIOUS
  <2> HIDE DEF v, r
  <2> QED  BY <2>2, <2>3
<1>2. v \in Nat /\ r \in 0 .. d - 1 /\ 2 * n = d * v + r  OBVIOUS
<1> HIDE DEF v, r
<1>3. h * d \in Nat /\ d * v \in Nat  BY <1>2
<1>4. CASE v > h
  <2> DEFINE i == v - h
  <2>1. i \in Nat /\ i >= 1 /\ v = h + i  BY <1>2, <1>4
  <2> HIDE DEF i
  <2>2. d * v = h * d + d * i /\ d * i = d + d * (i - 1) /\ d * (i - 1) \in Nat  BY <1>2, <2>1
  <2>3. 2 * n - h * d > 0  BY <1>2, <1>3, <2>2
  <2> QED  BY <1>1, <1>2, <1>4, <2>3 DEF Order, Sgn
<1>5. CASE v = h
  <2>1. d * v = h * d  BY <1>2, <1>5
  <2>2. 2 * n - h * d = r  BY <1>2, <1>3, <2>1
  <2> QED  BY <1>1, <1>2, <1>5, <2>2 DEF Order, Sgn
<1>6. CASE v < h
  <2> DEFINE i == h - v
  <2>1. i \in Nat /\ i >= 1 /\ h = v + i  BY <1>2, <1>6
  <2> HIDE DEF i
  <2>2. h * d = d * v + d * i /\ d * i = d + d * (i - 1) /\ d * (i - 1) \in Nat  BY <1>2, <2>1
  <2>3. 2 * n - h * d < 0  BY <1>2, <1>3, <2>2
  <2>4. 2 * n - h * d \in Int /\ ~ (2 * n - h * d > 0) /\ 2 * n - h * d # 0  BY <1>3, <2>3
  <2>5. ~ (v > h) /\ v # h  BY <1>2, <1>6
  <2> QED  BY <1>1, <2>4, <2>5 DEF Order, Sgn
<1> QED  BY <1>2, <1>4, <1>5, <1>6

\* A ratio has its place on the scale.
LEMMA RatioSorted ==
    ASSUME NEW n \in Nat, NEW d \in Nat \ {0}
    PROVE  Sorted(Ratio(n, d))
<1> DEFINE x == Ratio(n, d)
<1>1. \A h \in Nat : Compare(x, h) = Sgn(2 * n - h * d)  BY RatioOrder
<1>2. ASSUME NEW h \in Nat, NEW i \in Nat, h <= i, Compare(x, i) >= 0 PROVE Compare(x, h) >= 0
  <2>1. h * d <= i * d  BY <1>2, TimesMonotone
  <2>2. h * d \in Nat /\ i * d \in Nat  OBVIOUS
  <2>3. Sgn(2 * n - i * d) >= 0  BY <1>1, <1>2
  <2>4. 2 * n - i * d >= 0
    <3> SUFFICES ASSUME ~ (2 * n - i * d >= 0) PROVE FALSE  OBVIOUS
    <3>1. ~ (2 * n - i * d > 0) /\ 2 * n - i * d # 0  BY <2>2
    <3>2. Sgn(2 * n - i * d) = -1  BY <3>1 DEF Sgn
    <3> QED  BY <2>3, <3>2
  <2>5. 2 * n - h * d >= 0  BY <2>1, <2>2, <2>4
  <2>6. Sgn(2 * n - h * d) >= 0  BY <2>2, <2>5 DEF Sgn
  <2> QED  BY <1>1, <2>6
<1>3. \A h \in Nat : Compare(x, h) \in {-1, 0, 1}  BY <1>1, SgnRange
<1> QED  BY <1>2, <1>3 DEF Sorted

\* n / d units are m * 2^g, or strictly between the values next to an odd m.
Near(n, d, m, g, lost) ==
    \A j \in 0 .. Reach : \A t \in 0 .. Reach : j - t = g =>
        IF lost
        THEN ((m - 1) * 2^j) * d < n * 2^t /\ n * 2^t < ((m + 1) * 2^j) * d
        ELSE n * 2^t = (m * 2^j) * d

\* A word near a ratio tells of it.
LEMMA RatioStands ==
    ASSUME NEW n \in Nat, NEW d \in Nat \ {0}, NEW m \in Nat \ {0}, NEW lost \in BOOLEAN,
           NEW j \in 0 .. Reach, NEW t \in 0 .. Reach, lost => m % 2 = 1, Near(n, d, m, j - t, lost)
    PROVE  Stands(Ratio(n, d), m, j, t, lost)
<1> DEFINE T == 2^t
           P == 2^j
<1>1. T \in Nat \ {0} /\ P \in Nat \ {0}  BY ReachPowers
<1>2. IF lost THEN ((m - 1) * P) * d < n * T /\ n * T < ((m + 1) * P) * d
      ELSE n * T = (m * P) * d
  BY DEF Near
<1>3. SUFFICES ASSUME NEW c \in Nat, NEW h \in Nat, h * T = 2 * (c * P), lost => c % 2 = 0
               PROVE  Compare(Ratio(n, d), h) = Sgn(m - c)
  BY DEF Stands
<1> HIDE DEF T, P
<1>4. Compare(Ratio(n, d), h) = Sgn(2 * n - h * d)  BY RatioOrder
<1> DEFINE x == 2 * n - h * d
           y == n * T - (c * P) * d
<1>5. x * T = y * 2
  <2>1. (2 * n - h * d) * T = 2 * (n * T) - (h * T) * d  BY <1>1
  <2>2. (2 * (c * P)) * d = 2 * ((c * P) * d)  BY <1>1
  <2>3. n * T \in Int /\ (c * P) * d \in Int  BY <1>1
  <2>4. (h * T) * d = 2 * ((c * P) * d)  BY <1>3, <2>2
  <2> QED  BY <2>1, <2>3, <2>4
<1>6. x \in Int /\ y \in Int /\ 2 \in Nat \ {0}  BY <1>1
<1>7. Sgn(x) = Sgn(y)
  <2> HIDE DEF x, y
  <2>1. Sgn(x * T) = Sgn(x) /\ Sgn(y * 2) = Sgn(y)  BY <1>1, <1>6, SgnTimes
  <2> QED  BY <1>5, <2>1
<1>8. Sgn(y) = Sgn(m - c)
  <2>1. CASE ~ lost
    <3> DEFINE k == P * d
               z == m - c
    <3>1. k \in Nat \ {0} /\ z \in Int
      <4>1. P * d = P + P * (d - 1) /\ P * (d - 1) \in Nat  BY <1>1
      <4> QED  BY <1>1, <4>1
    <3>2. y = z * k
      <4>1. (m * P) * d - (c * P) * d = (m - c) * (P * d)  BY <1>1
      <4> QED  BY <1>2, <2>1, <4>1
    <3> HIDE DEF k, z, y
    <3>3. Sgn(z * k) = Sgn(z)  BY <3>1, SgnTimes
    <3> QED  BY <3>2, <3>3 DEF z
  <2>2. CASE lost
    <3> DEFINE a == ((m - 1) * P) * d
               b == ((m + 1) * P) * d
               u == (c * P) * d
               w == n * T
    <3>1. a \in Int /\ b \in Int /\ u \in Int /\ w \in Int /\ a < w /\ w < b /\ y = w - u
      BY <1>1, <1>2, <2>2
    <3>2. m % 2 = 1 /\ c % 2 = 0  BY <1>3, <2>2
    <3>3. CASE c < m
      <4>1. c <= m - 1 /\ m - 1 \in Nat  BY <3>3
      <4>2. c * P <= (m - 1) * P  BY <1>1, <4>1, TimesMonotone
      <4>3. c * P \in Nat /\ (m - 1) * P \in Nat  BY <1>1, <4>1
      <4>4. u <= a  BY <4>2, <4>3, TimesMonotone
      <4> HIDE DEF a, b, u, w, y
      <4>5. y > 0  BY <3>1, <4>4
      <4> QED  BY <3>3, <4>5 DEF Sgn
    <3>4. CASE c > m
      <4>1. m + 1 <= c /\ m + 1 \in Nat  BY <3>4
      <4>2. (m + 1) * P <= c * P  BY <1>1, <4>1, TimesMonotone
      <4>3. c * P \in Nat /\ (m + 1) * P \in Nat  BY <1>1, <4>1
      <4>4. b <= u  BY <4>2, <4>3, TimesMonotone
      <4> HIDE DEF a, b, u, w, y
      <4>5. y < 0  BY <3>1, <4>4
      <4>6. ~ (y > 0) /\ y # 0 /\ ~ (m - c > 0) /\ m - c # 0  BY <3>1, <3>4, <4>5
      <4> QED  BY <4>6 DEF Sgn
    <3>5. c # m  BY <3>2
    <3> QED  BY <3>3, <3>4, <3>5
  <2> QED  BY <2>1, <2>2
<1> QED  BY <1>4, <1>7, <1>8

\* A word that is exact, or has a sticky bit deep enough, rounds to the number
\* it stands for.
LEMMA RoundRatio ==
    ASSUME NEW f \in Formats, NEW sign \in BOOLEAN, NEW rm \in Rms,
           NEW m \in Nat \ {0}, m < 2^(Word - 1), NEW e \in Int,
           NEW n \in Nat, NEW d \in Nat \ {0}, NEW g \in Exponents, g = e - min_e(f),
           bit_len(m) + g <= Reach, NEW lost \in BOOLEAN,
           lost => m % 2 = 1 /\ (bit_len(m) >= f.sig + 3 \/ g <= -2),
           Near(n, d, m, g, lost)
    PROVE  round_pack(f, sign, m, e, rm) = Rounded(f, sign, rm, Ratio(n, d))
<1> DEFINE L == Lsb(f, m, e)
           b == bit_len(m)
           j == L - min_e(f)
           t == L - e
           x == Ratio(n, d)
           V == 2^(Word - 1)
           W == 2^Word
<1>0. /\ Word \in Nat /\ Reach \in Nat /\ f.sig \in Nat /\ f.sig >= 2 /\ Word + f.sig + 1 <= Reach
      /\ 2 * f.sig + 8 <= Word /\ min_e(f) \in Int
  BY WordReach
<1>1. V \in Nat \ {0} /\ W = 2 * V /\ m < V
  <2>1. Word - 1 \in 0 .. Reach /\ 1 \in 0 .. Reach /\ Word \in 0 .. Reach /\ Word = (Word - 1) + 1
    BY <1>0
  <2>2. V \in Nat \ {0} /\ W = V * 2^1 /\ 2^1 = 2  BY <2>1, ReachPowers, ReachSum
  <2> HIDE DEF V, W
  <2>3. W = 2 * V  BY <2>2
  <2> QED  BY <2>2, <2>3 DEF V
<1>2. m < 2^Word
  <2> HIDE DEF V, W
  <2>1. m < W  BY <1>1
  <2> QED  BY <2>1 DEF W
<1>3. /\ L \in Int /\ j \in Nat /\ b \in 1 .. Word /\ t >= b - 1 - f.sig
      /\ (j > 0 => t = b - 1 - f.sig) /\ t >= min_e(f) - e
  BY <1>2, LsbIs
<1>4. b + g <= Reach /\ (lost => m % 2 = 1 /\ (b >= f.sig + 3 \/ g <= -2))  OBVIOUS
<1>5. j - t = g /\ t \in Int /\ - g = min_e(f) - e
  <2> HIDE DEF L
  <2> QED  BY <1>0, <1>3
<1> HIDE DEF L, b, j, t
<1>6. g \in Int /\ - Reach <= g /\ g <= Reach  BY <1>0 DEF Exponents
<1>7. j + 1 <= Reach /\ t <= Reach
  <2>1. CASE j = 0  BY <1>0, <1>5, <1>6, <2>1
  <2>2. CASE j > 0  BY <1>0, <1>3, <1>4, <1>5, <1>6, <2>2
  <2> QED  BY <1>3, <2>1, <2>2
<1>8. j \in 0 .. Reach  BY <1>0, <1>3, <1>7
<1>9. lost => t >= 2  BY <1>0, <1>3, <1>4, <1>5, <1>6
<1>10. Sorted(x)  BY RatioSorted
<1>11. CASE t <= 0
  <2> DEFINE c == - t
             C == 2^c
             P == 2^j
             Q4 == 2^g
             q == m * C
  <2>1. ~ lost  BY <1>5, <1>9, <1>11
  <2>2. c \in 0 .. Reach /\ g \in 0 .. Reach /\ 0 \in 0 .. Reach /\ g - 0 = g /\ g = c + j
    BY <1>0, <1>3, <1>5, <1>6, <1>11
  <2>3. C \in Nat \ {0} /\ P \in Nat \ {0} /\ Q4 = C * P  BY <1>8, <2>2, ReachPowers, ReachSum
  <2>4. n * 2^0 = (m * Q4) * d  BY <2>1, <2>2 DEF Near
  <2>5. n = (q * P) * d
    <3>1. n * 1 = (m * Q4) * d  BY <2>4, ReachPowers
    <3> HIDE DEF C, P, Q4
    <3>2. (m * (C * P)) * d = ((m * C) * P) * d  BY <2>3
    <3> QED  BY <2>3, <3>1, <3>2
  <2>6. ASSUME NEW h \in Nat PROVE Compare(x, h) = Sgn(2 * (q * P) - h)
    <3>1. Compare(x, h) = Sgn(2 * n - h * d)  BY RatioOrder
    <3> DEFINE z == 2 * (q * P) - h
    <3> HIDE DEF C, P
    <3>2. q * P \in Nat  BY <2>3
    <3>3. z \in Int  BY <3>2
    <3>4. 2 * n - h * d = z * d
      <4> DEFINE y == q * P
      <4> HIDE DEF y
      <4>1. y \in Nat  BY <3>2 DEF y
      <4>2. 2 * (y * d) - h * d = (2 * y - h) * d  BY <4>1
      <4> QED  BY <2>5, <4>2 DEF y
    <3> HIDE DEF z
    <3>5. Sgn(z * d) = Sgn(z)  BY <3>3, SgnTimes
    <3> QED  BY <3>1, <3>4, <3>5 DEF z
  <2>7. Tells(x, m, j, t)  BY <1>11, <2>6 DEF Tells
  <2> HIDE DEF x
  <2> QED  BY <1>2, <1>7, <1>10, <2>7, RoundPackIs DEF x, j, t, L
<1>12. CASE t > 0 /\ ~ (t >= Word)
  <2>1. t \in 0 .. Reach /\ ~ (t <= 0)  BY <1>0, <1>5, <1>12
  <2>2. lost => m % 2 = 1  BY <1>4
  <2>3. Near(n, d, m, j - t, lost)  BY <1>5
  <2>4. Stands(x, m, j, t, lost)  BY <1>8, <2>1, <2>2, <2>3, RatioStands
  <2> HIDE DEF x
  <2>5. Tells(x, m, j, t)  BY <1>9, <1>12, <2>1, <2>4 DEF Tells
  <2> QED  BY <1>2, <1>7, <1>10, <2>5, RoundPackIs DEF x, j, t, L
<1>13. CASE t > 0 /\ t >= Word
  <2> DEFINE T == 2^t
  <2>1. j = 0
    <3> SUFFICES ASSUME j > 0 PROVE FALSE  BY <1>3
    <3> QED  BY <1>0, <1>3, <1>13
  <2>2. t \in 0 .. Reach /\ Word \in 0 .. Reach /\ 0 \in 0 .. Reach /\ 0 - t = g
    BY <1>0, <1>5, <1>7, <1>13, <2>1
  <2>3. T \in Nat \ {0} /\ W <= T  BY <1>13, <2>2, ReachMonotone, ReachPowers
  <2>4. IF lost THEN ((m - 1) * 2^0) * d < n * T /\ n * T < ((m + 1) * 2^0) * d
        ELSE n * T = (m * 2^0) * d
    BY <2>2 DEF Near
  <2>5. IF lost THEN (m - 1) * d < n * T /\ n * T < (m + 1) * d ELSE n * T = m * d
    <3>1. (m - 1) * 1 = m - 1 /\ (m + 1) * 1 = m + 1 /\ m * 1 = m  OBVIOUS
    <3> QED  BY <2>4, <3>1, ReachPowers
  <2> HIDE DEF T, V, W
  <2>6. n > 0
    <3> SUFFICES ASSUME n = 0 PROVE FALSE  OBVIOUS
    <3>1. n * T = 0  BY <2>3
    <3>2. (m - 1) * d \in Nat /\ m * d = (m - 1) * d + d  OBVIOUS
    <3> QED  BY <2>5, <3>1, <3>2
  <2>7. 2 * n < d
    <3>1. n * T < (m + 1) * d
      <4>1. (m + 1) * d = m * d + d /\ m * d \in Nat  OBVIOUS
      <4> QED  BY <2>5, <4>1
    <3>2. (m + 1) * d <= V * d
      <4>1. m + 1 <= V /\ m + 1 \in Nat  BY <1>1
      <4> QED  BY <1>1, <4>1, TimesMonotone
    <3>3. W * d <= T * d
      <4>1. W \in Nat  BY <1>1
      <4> QED  BY <2>3, <4>1, TimesMonotone
    <3>4. W * d = 2 * (V * d)  BY <1>1
    <3>5. n * T \in Nat /\ V * d \in Nat /\ T * d \in Nat /\ (m + 1) * d \in Nat  BY <1>1, <2>3
    <3>6. 2 * (n * T) < T * d  BY <3>1, <3>2, <3>3, <3>4, <3>5
    <3> SUFFICES ASSUME d <= 2 * n PROVE FALSE  OBVIOUS
    <3>7. d * T <= (2 * n) * T
      <4>1. 2 * n \in Nat  OBVIOUS
      <4> QED  BY <2>3, <4>1, TimesMonotone
    <3>8. (2 * n) * T = 2 * (n * T) /\ d * T = T * d  BY <2>3
    <3> QED  BY <3>5, <3>6, <3>7, <3>8
  <2>8. 2 * n - 0 * d > 0 /\ 2 * n - 1 * d < 0 /\ 2 * n - 2 * d < 0  BY <2>6, <2>7
  <2>9. /\ Compare(x, 0) = Sgn(2 * n - 0 * d) /\ Compare(x, 1) = Sgn(2 * n - 1 * d)
        /\ Compare(x, 2) = Sgn(2 * n - 2 * d)
    BY RatioOrder
  <2>10. Compare(x, 0) = 1 /\ Compare(x, 1) = -1 /\ Compare(x, 2) = -1
    <3> HIDE DEF x
    <3> QED  BY <2>8, <2>9 DEF Sgn
  <2> HIDE DEF x
  <2>11. ~ (t <= 0)  BY <1>5, <1>13
  <2>12. Tells(x, m, j, t)  BY <1>13, <2>10, <2>11 DEF Tells
  <2> QED  BY <1>2, <1>7, <1>10, <2>12, RoundPackIs DEF x, j, t, L
<1> QED  BY <1>5, <1>11, <1>12, <1>13

\* A product with a power is exact.
LEMMA ScaledNear ==
    ASSUME NEW n \in Nat, NEW d \in Nat, NEW m \in Nat, NEW g \in Exponents, Scaled(n, m * d, g)
    PROVE  Near(n, d, m, g, FALSE)
<1> SUFFICES ASSUME NEW j \in 0 .. Reach, NEW t \in 0 .. Reach, j - t = g
             PROVE  n * 2^t = (m * 2^j) * d
  BY DEF Near
<1> DEFINE T == 2^t
           P == 2^j
           md == m * d
<1>1. T \in Nat \ {0} /\ P \in Nat \ {0} /\ md \in Nat  BY ReachPowers
<1>2. Reach \in Nat /\ t \in Exponents /\ j \in Exponents /\ j = g + t /\ md \in Int
      /\ - j \in Exponents /\ -j = -g - t /\ j = t + g
  BY ReachNat DEF Exponents
<1>3. Scaled(n * T, n, t)
  <2>1. t >= 0  OBVIOUS
  <2> QED  BY <2>1 DEF Scaled
<1>4. n * T \in Int
  <2> HIDE DEF T
  <2> QED  BY <1>1
<1>5. Scaled(n * T, md, j)
  <2> HIDE DEF T, md
  <2>1. Scaled(n, md, g)  BY DEF md
  <2> QED  BY <1>2, <1>3, <1>4, <2>1, ScaledCompose
<1>6. n * T = md * P
  <2>1. j >= 0  OBVIOUS
  <2> QED  BY <1>5, <2>1 DEF Scaled
<1>7. md * P = (m * P) * d
  <2> HIDE DEF P
  <2> QED  BY <1>1
<1> QED  BY <1>6, <1>7

-----------------------------------------------------------------------------
(* Operands *)

\* The fields of a magnitude.
LEMMA FieldsOf ==
    ASSUME NEW f \in Formats, NEW x \in Int
    PROVE  LET A == 2^f.sig
               mag == Magnitude(f, x)
               field == mag \div A
               frac == Masked(f, x) % A
           IN  /\ mag \in Nat /\ field \in 0 .. max_field(f) /\ frac \in 0 .. A - 1
               /\ mag = A * field + frac /\ mag % A = frac
<1> DEFINE A == 2^f.sig
           E == 2^exp_bits(f)
           K == 2^(f.bits - 1)
           y == Masked(f, x)
           mag == Magnitude(f, x)
           field == mag \div A
           frac == y % A
<1>1. /\ A \in Nat \ {0} /\ E \in Nat /\ E >= 4 /\ K \in Nat \ {0} /\ K = E * A
  BY FormatPowers
<1>2. max_field(f) = E - 1  BY DEF max_field
<1>3. y \in Nat /\ mag = y % K /\ mag \in 0 .. K - 1
  BY MaskedType DEF Magnitude, sign_mask
<1>4. SUFFICES /\ mag \in Nat /\ field \in 0 .. E - 1 /\ frac \in 0 .. A - 1
               /\ mag = A * field + frac /\ mag % A = frac
  BY <1>2
<1> HIDE DEF A, E, K, y, mag
<1>6. frac = mag % A
  <2> DEFINE t == y \div K
             z == E * t
  <2>1. t \in Nat /\ y = K * t + mag
    <3>1. K \in Nat \ {0} /\ y \in Nat  BY <1>1, <1>3
    <3>2. t \in Nat /\ y = K * t + (y % K)  BY <3>1
    <3> QED  BY <1>3, <3>2
  <2> HIDE DEF t
  <2>2. z \in Int  BY <1>1, <2>1
  <2>3. K * t = A * (E * t)  BY <1>1, <2>1
  <2>4. y = mag + A * z
    <3>1. A * z \in Int  BY <1>1, <2>2
    <3> QED  BY <1>1, <1>3, <2>1, <2>3, <3>1
  <2> HIDE DEF z
  <2>5. mag \in Int /\ y \in Int  BY <1>1, <1>3
  <2> QED  BY <1>1, <2>2, <2>4, <2>5, SameRemainder, Zenon DEF frac
<1>7. mag \in Nat /\ field \in Nat /\ frac \in 0 .. A - 1 /\ mag = A * field + frac
  <2>1. mag \in Nat  BY <1>1, <1>3
  <2>2. field \in Nat  BY <1>1, <2>1
  <2>3. mag % A \in 0 .. A - 1  BY <1>1, <2>1
  <2>4. mag = A * field + (mag % A)  BY <1>1, <2>1
  <2> QED  BY <1>6, <2>1, <2>2, <2>3, <2>4
<1> HIDE DEF field, frac
<1>8. field <= E - 1
  <2> SUFFICES ASSUME field >= E PROVE FALSE  BY <1>1, <1>7
  <2> DEFINE d == field - E
  <2>1. d \in Nat /\ field = E + d  BY <1>1, <1>7
  <2> HIDE DEF d
  <2>2. A * field = E * A + A * d  BY <1>1, <2>1
  <2>3. A * d \in Nat  BY <1>1, <2>1
  <2> QED  BY <1>1, <1>3, <1>7, <2>2, <2>3
<1> QED  BY <1>1, <1>6, <1>7, <1>8

\* A number unpacks to a full significand and an exponent that make its value.
Means(f, x, p) ==
    /\ p.m \in Nat /\ p.m >= 2^f.sig /\ p.m < 2 * 2^f.sig
    /\ p.e \in Int /\ p.e - min_e(f) \in - f.sig .. max_field(f) - 2
    /\ Scaled(UnitsOf(f, x), p.m, p.e - min_e(f))
    /\ UnitsOf(f, x) \in Nat \ {0}

\* What unpack returns means the number the pattern stands for.
LEMMA UnpackMeans ==
    ASSUME NEW f \in Formats, NEW x \in Int
    PROVE  LET p == unpack(f, x)
           IN  /\ p.sign = Negative(f, x)
               /\ is_inf(p) <=> IsInf(f, x)
               /\ ~ is_nan(p) /\ ~ is_inf(p) /\ ~ is_zero(p) => p.cls = "Num" /\ Means(f, x, p)
               /\ is_zero(p) => UnitsOf(f, x) = 0
<1> DEFINE s == f.sig
           A == 2^s
           N == max_field(f)
           sign == Negative(f, x)
           mag == Magnitude(f, x)
           field == mag \div A
           frac == Masked(f, x) % A
           p == unpack(f, x)
           U == UnitsOf(f, x)
<1>0. /\ s \in Nat /\ s >= 2 /\ Word \in Nat /\ s + 1 <= Word /\ Word <= Reach /\ Reach \in Nat
      /\ bias(f) \in Nat \ {0} /\ min_e(f) = 1 - bias(f) - s /\ min_e(f) \in Int
      /\ N = 2 * bias(f) + 1 /\ N - 1 <= Reach
  <2>1. /\ f.sig \in Nat /\ f.sig >= 2 /\ Word \in Nat /\ 2 * f.sig + 8 <= Word /\ Reach \in Nat
        /\ Word + bias(f) + f.sig <= Reach /\ bias(f) \in Nat \ {0}
        /\ 3 * (bias(f) + f.sig) <= Reach
        /\ min_e(f) = 1 - bias(f) - f.sig /\ min_e(f) \in Int
        /\ max_field(f) = 2 * bias(f) + 1
    BY WordReach
  <2> QED  BY <2>1
<1>1. A \in Nat \ {0}  BY FormatPowers
<1>2. /\ mag \in Nat /\ field \in 0 .. N /\ frac \in 0 .. A - 1
      /\ mag = A * field + frac /\ mag % A = frac
  BY FieldsOf
<1>3. p = Unpacked(f, sign, field, frac)  BY DEF unpack
<1>4. Infinity(f) = N * A
  <2>1. N = 2^exp_bits(f) - 1 /\ Infinity(f) = (2^exp_bits(f) - 1) * A  BY InfinityIs
  <2> QED  BY <2>1
<1>5. U = IF mag < A THEN mag ELSE (A + (mag % A)) * 2^(field - 1)  BY DEF UnitsOf, Units
<1>6. IsInf(f, x) <=> mag = N * A  BY <1>4 DEF IsInf
<1>7. SUFFICES /\ p.sign = sign
               /\ is_inf(p) <=> IsInf(f, x)
               /\ ~ is_nan(p) /\ ~ is_inf(p) /\ ~ is_zero(p) => p.cls = "Num" /\ Means(f, x, p)
               /\ is_zero(p) => U = 0
  OBVIOUS
<1> HIDE DEF sign, mag, field, frac
<1>8. CASE field = N
  <2>1. p = Special(sign, IF frac = 0 THEN "Inf" ELSE IF frac < quiet_bit(f) THEN "Snan" ELSE "Qnan")
    BY <1>3, <1>8 DEF Unpacked
  <2>2. p.cls = (IF frac = 0 THEN "Inf" ELSE IF frac < quiet_bit(f) THEN "Snan" ELSE "Qnan")
        /\ p.sign = sign
    BY <2>1 DEF Special
  <2>3. mag = N * A <=> frac = 0
    <3> HIDE DEF A, N
    <3>1. A * field = N * A /\ N * A \in Nat  BY <1>0, <1>1, <1>8
    <3> QED  BY <1>1, <1>2, <3>1
  <2> HIDE DEF p, U
  <2>4. (is_inf(p) <=> frac = 0) /\ (is_nan(p) <=> frac # 0) /\ ~ is_zero(p)
    BY <2>2 DEF is_inf, is_nan, is_zero
  <2> QED  BY <1>6, <2>2, <2>3, <2>4
<1>9. CASE field # N
  <2>1. mag # N * A
    <3> HIDE DEF A, N
    <3>1. field + 1 <= N /\ field + 1 \in Nat  BY <1>0, <1>2, <1>9
    <3>2. (field + 1) * A <= N * A  BY <1>0, <1>1, <3>1, TimesMonotone
    <3>3. (field + 1) * A = A * field + A /\ A * field \in Nat /\ N * A \in Nat  BY <1>0, <1>1, <1>2
    <3> QED  BY <1>1, <1>2, <3>2, <3>3
  <2>2. CASE field > 0
    <3> DEFINE m == A + frac
               e == field - bias(f) - s
               u == field - 1
               P == 2^u
    <3>1. p = Num(sign, m, e)  BY <1>3, <1>9, <2>2 DEF Unpacked
    <3>2. p.cls = "Num" /\ p.m = m /\ p.e = e /\ p.sign = sign  BY <3>1 DEF Num
    <3>3. e \in Int /\ e - min_e(f) = u /\ u \in 0 .. N - 2 /\ u \in - s .. N - 2 /\ u \in 0 .. Reach
      <4> HIDE DEF N
      <4> QED  BY <1>0, <1>2, <1>9, <2>2
    <3>4. P \in Nat \ {0}  BY <3>3, ReachPowers
    <3>5. ~ (mag < A)
      <4> HIDE DEF A
      <4>1. A * field = A + A * (field - 1) /\ A * (field - 1) \in Nat  BY <1>1, <1>2, <2>2
      <4> QED  BY <1>1, <1>2, <4>1
    <3>6. U = m * P  BY <1>2, <1>5, <3>5
    <3>7. m \in Nat /\ m >= A /\ m < 2 * A /\ m > 0
      <4> HIDE DEF A
      <4> QED  BY <1>1, <1>2
    <3>8. U \in Nat \ {0}
      <4> HIDE DEF m, P, U
      <4>1. m * P = P + (m - 1) * P /\ (m - 1) * P \in Nat  BY <3>4, <3>7
      <4> QED  BY <3>4, <3>6, <4>1
    <3>9. Scaled(U, m, u)
      <4>1. u >= 0  BY <3>3
      <4> HIDE DEF u, m, U
      <4> QED  BY <3>6, <4>1 DEF Scaled, P
    <3>10. Means(f, x, p)
      <4>1. p.e - min_e(f) = u  BY <3>2, <3>3
      <4> HIDE DEF p, m, e, u, U
      <4> QED  BY <3>2, <3>3, <3>7, <3>8, <3>9, <4>1 DEF Means, U, N
    <3> HIDE DEF p, U
    <3> QED  BY <1>6, <2>1, <3>2, <3>10 DEF is_inf, is_zero
  <2>3. CASE ~ (field > 0) /\ frac = 0
    <3>1. p = Special(sign, "Zero")  BY <1>3, <1>9, <2>3 DEF Unpacked
    <3>2. p.cls = "Zero" /\ p.sign = sign  BY <3>1 DEF Special
    <3>3. mag = 0 /\ mag < A
      <4> HIDE DEF A
      <4>1. field = 0  BY <1>2, <2>3
      <4>2. A * 0 = 0  BY <1>1
      <4> QED  BY <1>1, <1>2, <2>3, <4>1, <4>2
    <3>4. U = 0  BY <1>5, <3>3
    <3> HIDE DEF p, U
    <3> QED  BY <1>6, <2>1, <3>2, <3>4 DEF is_inf, is_zero
  <2>4. CASE ~ (field > 0) /\ frac # 0
    <3> DEFINE b == bit_len(frac)
               k == s + 1 - b
               J == 2^k
               H == 2^(b - 1)
               m == frac * J
               e == min_e(f) - k
    <3>1. p = Num(sign, m, e)  BY <1>3, <1>9, <2>4 DEF Unpacked, Subnormal
    <3>2. p.cls = "Num" /\ p.m = m /\ p.e = e /\ p.sign = sign  BY <3>1 DEF Num
    <3>3. mag = frac /\ mag < A /\ frac \in Nat /\ frac > 0 /\ frac < A
      <4> HIDE DEF A
      <4>1. field = 0  BY <1>2, <2>4
      <4>2. A * 0 = 0  BY <1>1
      <4> QED  BY <1>1, <1>2, <2>4, <4>1, <4>2
    <3>4. frac < 2^Word
      <4> DEFINE W == 2^Word
      <4>1. W \in Nat /\ A <= W
        <5>1. s \in 0 .. Reach /\ Word \in 0 .. Reach /\ s <= Word  BY <1>0
        <5> QED  BY <5>1, ReachMonotone, ReachPowers
      <4> HIDE DEF W, A
      <4>2. frac < W  BY <1>1, <3>3, <4>1
      <4> QED  BY <4>2 DEF W
    <3>5. b \in 0 .. Word /\ b > 0 /\ frac >= H  BY <3>3, <3>4, BitLength
    <3> HIDE DEF b
    <3>6. b <= s
      <4> SUFFICES ASSUME ~ (b <= s) PROVE FALSE  OBVIOUS
      <4>1. b - 1 \in 0 .. Reach /\ s \in 0 .. Reach /\ s <= b - 1  BY <1>0, <3>5
      <4>2. A <= H /\ H \in Nat  BY <4>1, ReachMonotone, ReachPowers
      <4> HIDE DEF A, H
      <4> QED  BY <1>1, <3>3, <3>5, <4>2
    <3>7. /\ k \in 1 .. s /\ k \in 0 .. Reach /\ b - 1 \in 0 .. Reach /\ s \in 0 .. Reach /\ s = (b - 1) + k
          /\ e \in Int /\ e - min_e(f) = - k /\ - k \in - s .. N - 2 /\ - (- k) = k /\ ~ (- k >= 0)
      <4> HIDE DEF N
      <4> QED  BY <1>0, <3>5, <3>6
    <3>8. J \in Nat \ {0} /\ H \in Nat /\ A = H * J  BY <3>7, ReachPowers, ReachSum
    <3>9. Operand(p, s + 1) /\ 2^(s + 1) = 2 * A  BY UnpackOperand, FormatPowers
    <3>10. m \in Nat /\ m >= A
      <4> HIDE DEF A, H, J
      <4>1. m \in Nat  BY <3>3, <3>8
      <4>2. H * J <= frac * J  BY <3>3, <3>5, <3>8, TimesMonotone
      <4> HIDE DEF m
      <4>3. H * J <= m  BY <4>2 DEF m
      <4> QED  BY <1>1, <3>8, <4>1, <4>3
    <3>11. m < 2 * A
      <4>1. p.m < 2 * A  BY <3>9 DEF Operand
      <4> HIDE DEF p
      <4> QED  BY <3>2, <4>1
    <3>12. U = frac  BY <1>5, <3>3
    <3>13. Scaled(U, m, - k)
      <4> HIDE DEF k
      <4>1. U * 2^(- (- k)) = m  BY <3>7, <3>12
      <4> QED  BY <3>7, <4>1 DEF Scaled
    <3>14. Means(f, x, p)
      <4>1. p.e - min_e(f) = - k  BY <3>2, <3>7
      <4>2. U \in Nat \ {0}  BY <3>3, <3>12
      <4> HIDE DEF p, m, e, k, U
      <4> QED  BY <3>2, <3>7, <3>10, <3>11, <3>13, <4>1, <4>2 DEF Means, U, N
    <3> HIDE DEF p, U
    <3> QED  BY <1>6, <2>1, <3>2, <3>14 DEF is_inf, is_zero
  <2> QED  BY <2>2, <2>3, <2>4
<1> QED  BY <1>8, <1>9

-----------------------------------------------------------------------------
(* Conversion between formats and from integers *)

\* The length of a word bounds it.
LEMMA BitLenBounds ==
    ASSUME NEW m \in Nat, m < 2^Word
    PROVE  /\ \A k \in 0 .. Word : m < 2^k => bit_len(m) <= k
           /\ \A k \in 0 .. Word : m >= 2^k => bit_len(m) >= k + 1
<1> DEFINE b == bit_len(m)
           B == 2^b
           H == 2^(b - 1)
<1>0. Word \in Nat  BY WideInWord
<1>1. b \in 0 .. Word /\ m < B /\ (m > 0 => b > 0 /\ m >= H)  BY BitLength
<1>2. B \in Nat  BY <1>1, WordPowerType
<1> HIDE DEF b
<1>3. ASSUME NEW k \in 0 .. Word, m < 2^k PROVE b <= k
  <2> SUFFICES ASSUME ~ (b <= k) PROVE FALSE  OBVIOUS
  <2> DEFINE K == 2^k
  <2>1. b - 1 \in 0 .. Word /\ k <= b - 1  BY <1>0, <1>1
  <2>2. K \in Nat \ {0} /\ H \in Nat /\ K <= H /\ m < K  BY <1>3, <2>1, PowerMonotone, WordPowerType
  <2>3. m > 0
    <3> SUFFICES ASSUME m = 0 PROVE FALSE  OBVIOUS
    <3>1. b = 0
      <4> DEFINE O == 0
      <4>1. 0 \in 0 .. Word /\ 0 < 2^0  BY <1>0, PowerAssumption
      <4>2. bit_len(0) = 0
        <5> DEFINE Q(n) == 0 < 2^n /\ (n > 0 => 0 >= 2^(n - 1))
        <5>1. Q(0)  BY <4>1
        <5>2. \A n \in 0 .. Word : Q(n) => n = 0
          <6> SUFFICES ASSUME NEW n \in 0 .. Word, Q(n), n # 0 PROVE FALSE  OBVIOUS
          <6>1. n > 0 /\ n - 1 \in 0 .. Word  BY <1>0
          <6> DEFINE M == 2^(n - 1)
          <6>2. M \in Nat \ {0} /\ 0 >= M  BY <6>1, WordPowerType
          <6> HIDE DEF M
          <6> QED  BY <6>2
        <5>3. bit_len(0) = CHOOSE n \in 0 .. Word : Q(n)  BY DEF bit_len
        <5> HIDE DEF Q
        <5> QED  BY <4>1, <5>1, <5>2, <5>3
      <4> QED  BY <4>2 DEF b
    <3> QED  BY <2>1, <3>1
  <2> HIDE DEF K, H
  <2> QED  BY <1>1, <2>2, <2>3
<1>4. ASSUME NEW k \in 0 .. Word, m >= 2^k PROVE b >= k + 1
  <2> SUFFICES ASSUME ~ (b >= k + 1) PROVE FALSE  OBVIOUS
  <2> DEFINE K == 2^k
  <2>1. b <= k  BY <1>0, <1>1
  <2>2. K \in Nat /\ B <= K /\ m >= K  BY <1>1, <1>4, <2>1, PowerMonotone, WordPowerType
  <2> HIDE DEF K, B
  <2> QED  BY <1>1, <1>2, <2>2
<1> QED  BY <1>3, <1>4 DEF b

\* The same for an exact word of at most k bits.
LEMMA RoundScaled ==
    ASSUME NEW f \in Formats, NEW sign \in BOOLEAN, NEW rm \in Rms,
           NEW k \in 0 .. Word - 1, NEW m \in Nat \ {0}, m < 2^k, NEW e \in Int,
           NEW n \in Nat, NEW d \in Nat \ {0}, NEW g \in Exponents, g = e - min_e(f),
           k + g <= Reach, Scaled(n, m * d, g)
    PROVE  round_pack(f, sign, m, e, rm) = Rounded(f, sign, rm, Ratio(n, d))
<1> DEFINE K == 2^k
           V == 2^(Word - 1)
           W == 2^Word
           b == bit_len(m)
           lost == FALSE
<1>0. Word \in Nat /\ Word > 0  BY WordReach
<1>1. k \in 0 .. Word /\ Word - 1 \in 0 .. Word /\ Word \in 0 .. Word  BY <1>0
<1>2. K \in Nat /\ V \in Nat /\ W \in Nat /\ K <= V /\ V <= W /\ m < K
  BY <1>0, <1>1, PowerMonotone, WordPowerType
<1>3. m < V /\ m < W
  <2> HIDE DEF K, V, W
  <2> QED  BY <1>2
<1>4. b <= k /\ b \in 0 .. Word
  <2>1. m \in Nat /\ m < 2^Word /\ m < 2^k  BY <1>3
  <2> QED  BY <1>1, <2>1, BitLenBounds, BitLength
<1>5. b + g <= Reach
  <2>1. g \in Int /\ Reach \in Nat  BY ReachNat DEF Exponents
  <2> HIDE DEF b
  <2> QED  BY <1>1, <1>4, <2>1
<1>6. Near(n, d, m, g, lost)  BY ScaledNear
<1>7. lost \in BOOLEAN /\ ~ lost  OBVIOUS
<1> HIDE DEF lost
<1> QED  BY <1>3, <1>5, <1>6, <1>7, RoundRatio

\* The units in one.
LEMMA ScaleIs ==
    ASSUME NEW f \in Formats
    PROVE  LET z == - min_e(f)
           IN  /\ Scale(f) \in Nat \ {0} /\ z \in 0 .. Reach /\ z = bias(f) + f.sig - 1
               /\ \A x \in Int : Scaled(x * Scale(f), x, z)
<1> DEFINE z == - min_e(f)
<1>1. z = bias(f) + f.sig - 1 /\ z \in 0 .. Reach /\ z >= 0  BY WordReach
<1>2. Scale(f) = 2^z  BY DEF Scale
<1> HIDE DEF z
<1>3. Scale(f) \in Nat \ {0}  BY <1>1, <1>2, ReachPowers
<1>4. \A x \in Int : Scaled(x * Scale(f), x, z)  BY <1>1, <1>2 DEF Scaled
<1> QED  BY <1>1, <1>3, <1>4 DEF z

\* The sign of a rounded ratio is its numerator's.
LEMMA RatioSign ==
    ASSUME NEW f, NEW sign \in BOOLEAN, NEW n \in Nat \ {0}, NEW d, NEW z, NEW rm
    PROVE  RoundedRatio(f, IF sign THEN - n ELSE n, d, z, rm) = Rounded(f, sign, rm, Ratio(n, d))
<1> DEFINE x == IF sign THEN - n ELSE n
<1>1. x # 0 /\ Abs(x) = n /\ (x < 0) = sign
  <2>1. CASE sign = TRUE
    <3>1. x = - n /\ x < 0  BY <2>1
    <3> HIDE DEF x
    <3>2. x # 0 /\ Abs(x) = n  BY <3>1 DEF Abs
    <3> QED  BY <2>1, <3>1, <3>2
  <2>2. CASE sign = FALSE
    <3>1. x = n /\ ~ (x < 0)  BY <2>2
    <3> HIDE DEF x
    <3>2. x # 0 /\ Abs(x) = n  BY <3>1 DEF Abs
    <3> QED  BY <2>2, <3>1, <3>2
  <2> QED  BY <2>1, <2>2
<1> HIDE DEF x
<1>2. RoundedRatio(f, x, d, z, rm) = Rounded(f, sign, rm, Ratio(n, d))
  BY <1>1 DEF RoundedRatio
<1> QED  BY <1>2 DEF x

\* A product of positive numbers is positive.
LEMMA PositiveProduct ==
    ASSUME NEW x \in Nat \ {0}, NEW y \in Nat \ {0} PROVE x * y \in Nat \ {0}
<1>1. x * y = y + (x - 1) * y /\ (x - 1) * y \in Nat  OBVIOUS
<1> QED  BY <1>1

\* Significands of a format's numbers are short.
LEMMA SignificandFits ==
    ASSUME NEW f \in Formats, NEW x, NEW p, Means(f, x, p)
    PROVE  p.m \in Nat \ {0} /\ p.m < 2^(f.sig + 1)
<1> DEFINE A == 2^f.sig
<1>1. A \in Nat \ {0} /\ 2^(f.sig + 1) = 2 * A  BY FormatPowers
<1>2. p.m \in Nat /\ p.m >= A /\ p.m < 2 * A  BY DEF Means
<1>3. p.m \in Nat \ {0}
  <2> HIDE DEF A
  <2> QED  BY <1>1, <1>2
<1> QED  BY <1>1, <1>2, <1>3

\* Converting a number rounds it once.
LEMMA ConvertRounds ==
    ASSUME NEW from \in Formats, NEW to \in Formats, NEW a \in Int, NEW rm \in Rms
    PROVE  convert(from, to, a, rm) = ConvertSpec(from, to, a, rm)
<1> DEFINE p == unpack(from, a)
           U == UnitsOf(from, a)
           neg == Negative(from, a)
<1>1. convert(from, to, a, rm) = ConvertUnpacked(to, p, rm)  BY DEF convert
<1>2. /\ is_nan(p) <=> IsNan(from, a)
      /\ is_snan(p) <=> IsSignalling(from, a)
      /\ is_zero(p) <=> IsZero(from, a)
  BY ClassMeans
<1>3. /\ p.sign = neg /\ (is_inf(p) <=> IsInf(from, a))
      /\ (~ is_nan(p) /\ ~ is_inf(p) /\ ~ is_zero(p) => p.cls = "Num" /\ Means(from, a, p))
      /\ (is_zero(p) => U = 0)
  BY UnpackMeans
<1>4. neg \in BOOLEAN  BY MaskedType
<1> HIDE DEF p
<1>5. CASE is_nan(p)
  <2>1. ConvertUnpacked(to, p, rm) = [v |-> nan(to), flags |-> IF is_snan(p) THEN {"NV"} ELSE {}]
    BY <1>5 DEF ConvertUnpacked, nan_result
  <2>2. ConvertSpec(from, to, a, rm)
          = [v |-> nan(to), flags |-> IF IsSignalling(from, a) THEN {"NV"} ELSE {}]
    BY <1>2, <1>5 DEF ConvertSpec
  <2> QED  BY <1>1, <1>2, <2>1, <2>2
<1>6. CASE ~ is_nan(p) /\ is_inf(p)
  <2>1. ConvertUnpacked(to, p, rm) = Exact(inf(to, neg))  BY <1>3, <1>6 DEF ConvertUnpacked
  <2>2. ConvertSpec(from, to, a, rm) = Exact(inf(to, neg))  BY <1>2, <1>3, <1>6 DEF ConvertSpec
  <2> QED  BY <1>1, <2>1, <2>2
<1> DEFINE F == Scale(from)
           T == Scale(to)
           zf == - min_e(from)
           zt == - min_e(to)
<1>7. F \in Nat \ {0} /\ T \in Nat \ {0} /\ zf \in 0 .. Reach /\ zt \in 0 .. Reach
      /\ zf = bias(from) + from.sig - 1 /\ zt = bias(to) + to.sig - 1
      /\ (\A x \in Int : Scaled(x * F, x, zf)) /\ (\A x \in Int : Scaled(x * T, x, zt))
  BY ScaleIs
<1>8. ~ is_nan(p) /\ ~ is_inf(p) =>
        ConvertSpec(from, to, a, rm) = RoundedRatio(to, (IF neg THEN - U ELSE U) * T, F, neg, rm)
  BY <1>2, <1>3 DEF ConvertSpec, SignedUnits
<1>9. CASE ~ is_nan(p) /\ ~ is_inf(p) /\ is_zero(p)
  <2>1. ConvertUnpacked(to, p, rm) = Exact(zero(to, neg))  BY <1>3, <1>9 DEF ConvertUnpacked
  <2>2. (IF neg THEN - U ELSE U) * T = 0
    <3>1. U = 0  BY <1>3, <1>9
    <3> HIDE DEF U, T, neg
    <3> QED  BY <1>7, <3>1
  <2>3. RoundedRatio(to, 0, F, neg, rm) = Exact(zero(to, neg))  BY DEF RoundedRatio
  <2> QED  BY <1>1, <1>8, <1>9, <2>1, <2>2, <2>3
<1>10. CASE ~ is_nan(p) /\ ~ is_inf(p) /\ ~ is_zero(p)
  <2> DEFINE m == p.m
             u == p.e - min_e(from)
             g == p.e - min_e(to)
             k == from.sig + 1
             n == U * T
             md == m * F
             h == u + zt
  <2>1. ConvertUnpacked(to, p, rm) = round_pack(to, neg, m, p.e, rm)
    BY <1>3, <1>10 DEF ConvertUnpacked
  <2>2. Means(from, a, p)  BY <1>3, <1>10
  <2>3. m \in Nat \ {0} /\ m < 2^k  BY <2>2, SignificandFits
  <2>4. p.e \in Int /\ u \in - from.sig .. max_field(from) - 2 /\ Scaled(U, m, u) /\ U \in Nat \ {0}
    BY <2>2 DEF Means
  <2>5. /\ Word \in Nat /\ Reach \in Nat /\ from.sig \in Nat /\ 2 * from.sig + 8 <= Word
        /\ bias(from) \in Nat \ {0} /\ bias(to) \in Nat \ {0} /\ to.sig \in Nat /\ to.sig >= 2
        /\ 3 * (bias(from) + from.sig) <= Reach /\ 3 * (bias(to) + to.sig) <= Reach
        /\ min_e(from) \in Int /\ min_e(to) \in Int /\ max_field(from) = 2 * bias(from) + 1
    BY WordReach
  <2> HIDE DEF U, F, T, neg
  <2>6. /\ g = h - zf /\ g \in Exponents /\ h \in Exponents /\ u \in Exponents /\ zt \in Exponents
        /\ - zf \in Exponents /\ zf \in Exponents /\ k + g <= Reach /\ k \in 0 .. Word - 1
        /\ h = zt + u /\ g = h + (- zf)
    <3> DEFINE e == p.e
               mf == min_e(from)
               mt == min_e(to)
               sf == from.sig
               st == to.sig
               bf == bias(from)
               bt == bias(to)
    <3>1. /\ e \in Int /\ mf \in Int /\ mt \in Int /\ e - mf >= - sf /\ e - mf <= 2 * bf - 1
          /\ - mf = bf + sf - 1 /\ - mt = bt + st - 1
          /\ Word \in Nat /\ Reach \in Nat /\ sf \in Nat /\ 2 * sf + 8 <= Word
          /\ bf \in Nat \ {0} /\ bt \in Nat \ {0} /\ st \in Nat /\ st >= 2
          /\ 3 * (bf + sf) <= Reach /\ 3 * (bt + st) <= Reach
      BY <1>7, <2>4, <2>5
    <3> HIDE DEF e, mf, mt, sf, st, bf, bt
    <3>2. /\ e - mt = (e - mf) + (- mt) - (- mf) /\ (e - mf) + (- mt) = (- mt) + (e - mf)
          /\ e - mt = ((e - mf) + (- mt)) + (- (- mf))
      BY <3>1
    <3>3. /\ e - mt \in - Reach .. Reach /\ (e - mf) + (- mt) \in - Reach .. Reach
          /\ e - mf \in - Reach .. Reach
      BY <3>1
    <3>4. - mt \in - Reach .. Reach /\ - mf \in - Reach .. Reach /\ - (- mf) \in - Reach .. Reach
      BY <3>1
    <3>5. (sf + 1) + (e - mt) <= Reach /\ sf + 1 \in 0 .. Word - 1  BY <3>1
    <3> QED  BY <3>2, <3>3, <3>4, <3>5 DEF Exponents, e, mf, mt, sf
  <2>7. n \in Nat \ {0} /\ md \in Nat \ {0}  BY <1>7, <2>3, <2>4, PositiveProduct
  <2> HIDE DEF u, g, h, zf, zt, k
  <2>8. Scaled(n, U, zt) /\ Scaled(md, m, zf)  BY <1>7, <2>3, <2>4
  <2>9. n \in Int /\ md \in Int /\ m \in Int /\ U \in Int  BY <2>3, <2>4, <2>7
  <2> HIDE DEF n, md, m
  <2>10. Scaled(n, m, h)  BY <2>4, <2>6, <2>8, <2>9, ScaledCompose
  <2>11. Scaled(m, md, - zf)  BY <2>6, <2>8, <2>9, ScaledBack
  <2>12. Scaled(n, m * F, g)
    <3>1. Scaled(n, md, g)  BY <2>6, <2>9, <2>10, <2>11, ScaledCompose
    <3> QED  BY <3>1 DEF md
  <2>13. n \in Nat /\ g = p.e - min_e(to)  BY <2>7 DEF g
  <2>14. round_pack(to, neg, m, p.e, rm) = Rounded(to, neg, rm, Ratio(n, F))
    <3>1. \A sg \in BOOLEAN : round_pack(to, sg, m, p.e, rm) = Rounded(to, sg, rm, Ratio(n, F))
      <4> DEFINE e == p.e
      <4>1. /\ F \in Nat \ {0} /\ m \in Nat \ {0} /\ m < 2^k /\ e \in Int /\ g \in Exponents
            /\ k \in 0 .. Word - 1 /\ k + g <= Reach /\ n \in Nat /\ g = e - min_e(to)
            /\ Scaled(n, m * F, g)
        BY <1>7, <2>3, <2>4, <2>6, <2>12, <2>13
      <4> HIDE DEF e
      <4>2. \A sg \in BOOLEAN : round_pack(to, sg, m, e, rm) = Rounded(to, sg, rm, Ratio(n, F))
        BY <4>1, RoundScaled
      <4> QED  BY <4>2 DEF e
    <3> QED  BY <1>4, <3>1
  <2>15. (IF neg THEN - U ELSE U) * T = IF neg THEN - n ELSE n
    <3>1. (- U) * T = - (U * T)  BY <1>7, <2>4
    <3> QED  BY <3>1 DEF n
  <2>16. ConvertSpec(from, to, a, rm) = Rounded(to, neg, rm, Ratio(n, F))
    <3>1. RoundedRatio(to, IF neg THEN - n ELSE n, F, neg, rm) = Rounded(to, neg, rm, Ratio(n, F))
      <4>1. \A sg \in BOOLEAN : RoundedRatio(to, IF sg THEN - n ELSE n, F, neg, rm)
                                   = Rounded(to, sg, rm, Ratio(n, F))
        BY <2>7, RatioSign
      <4> QED  BY <1>4, <4>1
    <3> QED  BY <1>8, <1>10, <2>15, <3>1
  <2> QED  BY <1>1, <2>1, <2>14, <2>16
<1> QED  BY <1>5, <1>6, <1>9, <1>10

\* Conversion of an integer rounds it once.
LEMMA FromIntRounds ==
    ASSUME NEW f \in Formats, NEW x \in Int, Abs(x) < 2^Wide, NEW rm \in Rms
    PROVE  from_int(f, x < 0, Abs(x), rm) = RoundedRatio(f, x * Scale(f), 1, FALSE, rm)
<1> DEFINE m == Abs(x)
           T == Scale(f)
           z == - min_e(f)
           k == Wide
<1>1. from_int(f, x < 0, m, rm) = round_pack(f, x < 0, m, 0, rm)  BY DEF from_int
<1>2. /\ T \in Nat \ {0} /\ z \in 0 .. Reach /\ z = bias(f) + f.sig - 1
      /\ \A y \in Int : Scaled(y * T, y, z)
  BY ScaleIs
<1>3. k \in 0 .. Word - 1 /\ Word \in Nat /\ k \in Nat
  BY AluAssumption, FormatAssumption, FpuAssumption
<1>4. m < 2^k /\ m \in Nat  BY DEF Abs
<1> HIDE DEF k, T
<1>5. CASE x = 0
  <2>1. m = 0 /\ x * T = 0 /\ ~ (x < 0)  BY <1>2, <1>5 DEF Abs
  <2>2. round_pack(f, x < 0, m, 0, rm) = Exact(zero(f, FALSE))
    <3>1. round_pack(f, x < 0, m, 0, rm) = Exact(zero(f, x < 0))  BY <2>1 DEF round_pack
    <3>2. zero(f, x < 0) = zero(f, FALSE)  BY <2>1 DEF zero
    <3> QED  BY <3>1, <3>2
  <2>3. RoundedRatio(f, 0, 1, FALSE, rm) = Exact(zero(f, FALSE))  BY DEF RoundedRatio
  <2> HIDE DEF m
  <2> QED  BY <1>1, <2>1, <2>2, <2>3 DEF m, T
<1>6. CASE x # 0
  <2> DEFINE n == m * T
             sg == x < 0
             e == 0
             d == 1
             no == FALSE
  <2>1. m \in Nat \ {0} /\ m \in Int  BY <1>4, <1>6 DEF Abs
  <2>2. x * T = IF sg THEN - n ELSE n
    <3>1. CASE x < 0
      <4>1. m = - x  BY <3>1 DEF Abs
      <4> HIDE DEF m
      <4>2. x = - m  BY <2>1, <4>1
      <4>3. (- m) * T = - (m * T)  BY <1>2, <2>1
      <4> QED  BY <3>1, <4>2, <4>3
    <3>2. CASE ~ (x < 0)  BY <3>2 DEF Abs
    <3> QED  BY <3>1, <3>2
  <2> HIDE DEF m
  <2>3. n \in Nat \ {0}  BY <1>2, <2>1, PositiveProduct
  <2>4. m * d = m  BY <2>1
  <2>5. Scaled(n, m * d, z)  BY <1>2, <2>1, <2>4
  <2>6. /\ z \in Exponents /\ k + z <= Reach /\ z = e - min_e(f) /\ e \in Int /\ d \in Nat \ {0}
    <3>1. /\ Word \in Nat /\ Reach \in Nat /\ Word + bias(f) + f.sig <= Reach
          /\ bias(f) \in Nat /\ f.sig \in Nat /\ min_e(f) \in Int
      BY WordReach
    <3>2. z = 0 - min_e(f)  BY <3>1
    <3> HIDE DEF z
    <3> QED  BY <1>2, <1>3, <3>1, <3>2 DEF Exponents
  <2>7. sg \in BOOLEAN /\ n \in Nat  BY <2>3
  <2> HIDE DEF n, e, d, z, sg, no
  <2>8. \A s \in BOOLEAN : round_pack(f, s, m, e, rm) = Rounded(f, s, rm, Ratio(n, d))
    <3>1. /\ k \in 0 .. Word - 1 /\ m \in Nat \ {0} /\ m < 2^k /\ e \in Int /\ n \in Nat
          /\ d \in Nat \ {0} /\ z \in Exponents /\ z = e - min_e(f) /\ k + z <= Reach
          /\ Scaled(n, m * d, z)
      BY <1>3, <1>4, <2>1, <2>5, <2>6, <2>7
    <3> QED  BY <3>1, RoundScaled
  <2>9. \A s \in BOOLEAN : RoundedRatio(f, IF s THEN - n ELSE n, d, no, rm)
                             = Rounded(f, s, rm, Ratio(n, d))
    BY <2>3, RatioSign
  <2>10. RoundedRatio(f, x * T, d, no, rm) = round_pack(f, sg, m, e, rm)
    BY <2>2, <2>7, <2>8, <2>9
  <2> QED  BY <1>1, <2>10 DEF e, d, sg, T, m, no
<1> QED  BY <1>5, <1>6

\* The exact product, in units.
LEMMA ProductScaled ==
    ASSUME NEW f \in Formats, NEW a, NEW p, Means(f, a, p), NEW b, NEW q, Means(f, b, q)
    PROVE  LET g == (p.e + q.e) - min_e(f)
               k == 2 * f.sig + 2
           IN  /\ p.m * q.m \in Nat \ {0} /\ p.m * q.m < 2^k /\ k \in 0 .. Word - 1
               /\ UnitsOf(f, a) * UnitsOf(f, b) \in Nat \ {0}
               /\ g \in Exponents /\ k + g <= Reach /\ p.e \in Int /\ q.e \in Int
               /\ g >= - 2 * f.sig - (bias(f) + f.sig - 1)
               /\ Scaled(UnitsOf(f, a) * UnitsOf(f, b), (p.m * q.m) * Scale(f), g)
<1> DEFINE A == 2 * 2^f.sig
           T == Scale(f)
           z == - min_e(f)
           U == UnitsOf(f, a)
           V == UnitsOf(f, b)
           m == p.m
           w == q.m
           u == p.e - min_e(f)
           v == q.e - min_e(f)
           g == (p.e + q.e) - min_e(f)
           k == 2 * f.sig + 2
           h == v - z
<1>1. /\ T \in Nat \ {0} /\ z \in 0 .. Reach /\ z = bias(f) + f.sig - 1
      /\ \A y \in Int : Scaled(y * T, y, z)
  BY ScaleIs
<1>2. m \in Nat \ {0} /\ w \in Nat \ {0} /\ m < 2^(f.sig + 1) /\ w < 2^(f.sig + 1)
  BY SignificandFits
<1>3. /\ p.e \in Int /\ u \in - f.sig .. max_field(f) - 2 /\ Scaled(U, m, u) /\ U \in Nat \ {0}
      /\ q.e \in Int /\ v \in - f.sig .. max_field(f) - 2 /\ Scaled(V, w, v) /\ V \in Nat \ {0}
  BY DEF Means
<1>4. /\ Word \in Nat /\ Reach \in Nat /\ f.sig \in Nat /\ f.sig >= 2 /\ 2 * f.sig + 8 <= Word
      /\ bias(f) \in Nat \ {0} /\ 3 * (bias(f) + f.sig) <= Reach
      /\ Word + bias(f) + f.sig <= Reach
      /\ min_e(f) \in Int /\ max_field(f) = 2 * bias(f) + 1
  BY WordReach
<1>5. /\ g = u + h /\ g \in Exponents /\ u \in Exponents /\ v \in Exponents /\ h \in Exponents
      /\ z \in Exponents /\ - z \in Exponents /\ h = v + (- z) /\ k + g <= Reach
      /\ k \in 0 .. Word - 1 /\ g >= - 2 * f.sig - (bias(f) + f.sig - 1)
  <2> DEFINE e == p.e
             i == q.e
             me == min_e(f)
             s == f.sig
             x == bias(f)
  <2>1. /\ e \in Int /\ i \in Int /\ me \in Int /\ e - me >= - s /\ e - me <= 2 * x - 1
        /\ i - me >= - s /\ i - me <= 2 * x - 1 /\ - me = x + s - 1
        /\ Word \in Nat /\ Reach \in Nat /\ s \in Nat /\ s >= 2 /\ 2 * s + 8 <= Word
        /\ x \in Nat \ {0} /\ 3 * (x + s) <= Reach
    BY <1>1, <1>3, <1>4
  <2> HIDE DEF e, i, me, s, x
  <2>2. (e + i) - me = (e - me) + ((i - me) - (- me)) /\ (i - me) - (- me) = (i - me) + (- (- me))
    BY <2>1
  <2>3. e - me \in - Reach .. Reach /\ i - me \in - Reach .. Reach /\ - me \in - Reach .. Reach
        /\ - (- me) \in - Reach .. Reach
    BY <2>1
  <2>4. (i - me) - (- me) \in - Reach .. Reach /\ (e + i) - me \in - Reach .. Reach  BY <2>1
  <2>5. (2 * s + 2) + ((e + i) - me) <= Reach /\ 2 * s + 2 \in 0 .. Word - 1
        /\ (e + i) - me >= - 2 * s - (x + s - 1)
    BY <2>1
  <2> QED  BY <2>2, <2>3, <2>4, <2>5 DEF Exponents, e, i, me, s, x
<1>6. m * w < 2^k
  <2> DEFINE B == 2^(f.sig + 1)
  <2>1. f.sig + 1 \in 0 .. Word /\ k \in 0 .. Word /\ k = (f.sig + 1) + (f.sig + 1)  BY <1>4
  <2>2. B \in Nat \ {0} /\ 2^k = B * B
    <3> HIDE DEF k
    <3> QED  BY <2>1, WordPowerType, WordPowerSum
  <2> HIDE DEF B, m, w
  <2>3. m + 1 <= B /\ w <= B /\ m + 1 \in Nat /\ w \in Nat  BY <1>2, <2>2 DEF B
  <2>4. (m + 1) * w <= B * B  BY <2>2, <2>3, TimesMonotone
  <2>5. (m + 1) * w = m * w + w /\ m * w \in Nat  BY <1>2
  <2>6. m * w < B * B
    <3>1. B * B \in Nat  BY <2>2
    <3> QED  BY <1>2, <2>4, <2>5, <3>1
  <2> QED  BY <2>2, <2>6
<1>7. m * w \in Nat \ {0} /\ U * V \in Nat \ {0} /\ w * T \in Nat \ {0}
  BY <1>1, <1>2, <1>3, PositiveProduct
<1>8. SUFFICES Scaled(U * V, (m * w) * T, g)
  BY <1>3, <1>5, <1>6, <1>7
<1> HIDE DEF U, V, T, m, w, u, v, g, h, k, z
<1> DEFINE wT == w * T
           UV == U * V
           mV == m * V
           mwT == m * wT
<1>9. /\ U \in Int /\ V \in Int /\ m \in Int /\ w \in Int /\ wT \in Int /\ UV \in Int /\ mV \in Int
      /\ mwT \in Int
  BY <1>1, <1>2, <1>3
<1>10. mwT = (m * w) * T  BY <1>1, <1>9
<1>11. Scaled(UV, mV, u)  BY <1>3, <1>5, <1>9, ScaledTimes
<1>12. Scaled(wT, w, z)  BY <1>1, <1>9
<1> HIDE DEF wT
<1>13. Scaled(w, wT, - z)  BY <1>5, <1>9, <1>12, ScaledBack
<1>14. Scaled(V, wT, h)  BY <1>3, <1>5, <1>9, <1>13, ScaledCompose
<1>15. Scaled(mV, mwT, h)  BY <1>5, <1>9, <1>14, ScaledTimes
<1> HIDE DEF UV, mV, mwT
<1>16. Scaled(UV, mwT, g)  BY <1>5, <1>9, <1>11, <1>15, ScaledCompose
<1> QED  BY <1>10, <1>16 DEF UV

\* The word a product makes rounds as the product.
LEMMA ProductRounds ==
    ASSUME NEW f \in Formats, NEW a, NEW p, Means(f, a, p), NEW b, NEW q, Means(f, b, q),
           NEW sign \in BOOLEAN, NEW rm \in Rms
    PROVE  round_pack(f, sign, p.m * q.m, p.e + q.e, rm)
             = Rounded(f, sign, rm, Ratio(UnitsOf(f, a) * UnitsOf(f, b), Scale(f)))
<1> DEFINE e == p.e + q.e
           g == e - min_e(f)
           k == 2 * f.sig + 2
           m == p.m * q.m
           n == UnitsOf(f, a) * UnitsOf(f, b)
           T == Scale(f)
<1>1. /\ m \in Nat \ {0} /\ m < 2^k /\ k \in 0 .. Word - 1
      /\ n \in Nat \ {0} /\ g \in Exponents /\ k + g <= Reach /\ p.e \in Int /\ q.e \in Int
      /\ Scaled(n, m * T, g)
  BY ProductScaled
<1>2. T \in Nat \ {0}  BY ScaleIs
<1>3. e \in Int /\ n \in Nat /\ g = e - min_e(f)  BY <1>1
<1> HIDE DEF e, g, k, m, n, T
<1>4. round_pack(f, sign, m, e, rm) = Rounded(f, sign, rm, Ratio(n, T))
  BY <1>1, <1>2, <1>3, RoundScaled
<1> QED  BY <1>4 DEF e, m, n, T

-----------------------------------------------------------------------------
(* Multiplication *)

\* What unpacking says of a pattern, in the terms of the definitions.
Unpacks(f, x, p) ==
    /\ p.sign \in BOOLEAN
    /\ is_nan(p) <=> IsNan(f, x)
    /\ is_snan(p) <=> IsSignalling(f, x)
    /\ is_inf(p) <=> IsInf(f, x)
    /\ is_zero(p) <=> IsZero(f, x)
    /\ is_zero(p) => UnitsOf(f, x) = 0
    /\ ~ is_nan(p) /\ ~ is_inf(p) /\ ~ is_zero(p) => p.cls = "Num" /\ Means(f, x, p)
    /\ ~ (is_nan(p) /\ is_inf(p)) /\ ~ (is_nan(p) /\ is_zero(p)) /\ ~ (is_inf(p) /\ is_zero(p))

\* Unpacking, put together.
LEMMA UnpackIs ==
    ASSUME NEW f \in Formats, NEW x \in Int
    PROVE  Unpacks(f, x, unpack(f, x)) /\ unpack(f, x).sign = Negative(f, x)
           /\ Negative(f, x) \in BOOLEAN
<1> DEFINE p == unpack(f, x)
<1>1. Negative(f, x) \in BOOLEAN  BY MaskedType
<1>2. /\ is_nan(p) <=> IsNan(f, x)
      /\ is_snan(p) <=> IsSignalling(f, x)
      /\ is_zero(p) <=> IsZero(f, x)
  BY ClassMeans
<1>3. /\ p.sign = Negative(f, x) /\ (is_inf(p) <=> IsInf(f, x))
      /\ (~ is_nan(p) /\ ~ is_inf(p) /\ ~ is_zero(p) => p.cls = "Num" /\ Means(f, x, p))
      /\ (is_zero(p) => UnitsOf(f, x) = 0)
  BY UnpackMeans
<1> HIDE DEF p
<1>4. ~ (is_nan(p) /\ is_inf(p)) /\ ~ (is_nan(p) /\ is_zero(p)) /\ ~ (is_inf(p) /\ is_zero(p))
  BY DEF is_nan, is_inf, is_zero
<1>5. p.sign \in BOOLEAN  BY <1>1, <1>3
<1>6. Unpacks(f, x, p)  BY <1>2, <1>3, <1>4, <1>5 DEF Unpacks
<1> QED  BY <1>1, <1>3, <1>6 DEF p

\* A NaN among the operands gives the canonical one.
LEMMA NanIs ==
    ASSUME NEW f, NEW a, NEW b, NEW p, NEW q,
           is_snan(p) <=> IsSignalling(f, a), is_snan(q) <=> IsSignalling(f, b)
    PROVE  nan_result(f, {p, q}) = Nan(f, {a, b})
<1>1. (\E r \in {p, q} : is_snan(r)) <=> (\E v \in {a, b} : IsSignalling(f, v))
  BY DEF is_snan, IsSignalling
<1>2. nan_result(f, {p, q}) =
        [v |-> nan(f), flags |-> IF \E r \in {p, q} : is_snan(r) THEN {"NV"} ELSE {}]
  BY DEF nan_result
<1>3. Nan(f, {a, b}) =
        [v |-> nan(f), flags |-> IF \E v \in {a, b} : IsSignalling(f, v) THEN {"NV"} ELSE {}]
  BY DEF Nan
<1> QED  BY <1>1, <1>2, <1>3

\* Multiplication rounds the exact product once.
LEMMA MulRounds ==
    ASSUME NEW f \in Formats, NEW a \in Int, NEW b \in Int, NEW rm \in Rms
    PROVE  mul(f, a, b, rm) = ProductSpec(f, a, b, rm)
<1> DEFINE p == unpack(f, a)
           q == unpack(f, b)
           sg == Negative(f, a) # Negative(f, b)
           U == UnitsOf(f, a)
           V == UnitsOf(f, b)
           T == Scale(f)
           SU == SignedUnits(f, a)
           SV == SignedUnits(f, b)
<1>1. mul(f, a, b, rm) = MulUnpacked(f, p, q, sg, rm)  BY DEF mul
<1>2. Unpacks(f, a, p) /\ Unpacks(f, b, q)  BY UnpackIs
<1>3. ProductSign(f, a, b) = sg  BY DEF ProductSign
<1>4. sg \in BOOLEAN  OBVIOUS
<1>5. Negative(f, a) \in BOOLEAN /\ Negative(f, b) \in BOOLEAN  BY UnpackIs
<1>6. SU = (IF Negative(f, a) THEN - U ELSE U) /\ SV = (IF Negative(f, b) THEN - V ELSE V)
  BY DEF SignedUnits
<1>7. T \in Nat \ {0}  BY ScaleIs
<1>8. ProductSpec(f, a, b, rm) =
        IF IsNan(f, a) \/ IsNan(f, b) THEN Nan(f, {a, b})
        ELSE IF NoProduct(f, a, b) THEN Invalid(f)
        ELSE IF IsInf(f, a) \/ IsInf(f, b) THEN Exact(inf(f, sg))
        ELSE RoundedRatio(f, SU * SV, T, sg, rm)
  BY <1>3 DEF ProductSpec
<1> HIDE DEF p, q, sg, U, V, T, SU, SV
<1>9. CASE is_nan(p) \/ is_nan(q)
  <2>1. MulUnpacked(f, p, q, sg, rm) = nan_result(f, {p, q})  BY <1>9 DEF MulUnpacked
  <2>2. nan_result(f, {p, q}) = Nan(f, {a, b})  BY <1>2, NanIs DEF Unpacks
  <2>3. IsNan(f, a) \/ IsNan(f, b)  BY <1>2, <1>9 DEF Unpacks
  <2> QED  BY <1>1, <1>8, <2>1, <2>2, <2>3
<1>10. CASE ~ (is_nan(p) \/ is_nan(q))
  <2>1. ~ (IsNan(f, a) \/ IsNan(f, b))  BY <1>2, <1>10 DEF Unpacks
  <2>2. ZeroTimesInf(p, q) <=> NoProduct(f, a, b)  BY <1>2 DEF Unpacks, ZeroTimesInf, NoProduct
  <2>3. CASE ZeroTimesInf(p, q)
    <3>1. MulUnpacked(f, p, q, sg, rm) = invalid(f)  BY <1>10, <2>3 DEF MulUnpacked
    <3>2. invalid(f) = Invalid(f)  BY DEF invalid, Invalid
    <3> QED  BY <1>1, <1>8, <2>1, <2>2, <2>3, <3>1, <3>2
  <2>4. CASE ~ ZeroTimesInf(p, q) /\ (is_inf(p) \/ is_inf(q))
    <3>1. MulUnpacked(f, p, q, sg, rm) = Exact(inf(f, sg))  BY <1>10, <2>4 DEF MulUnpacked
    <3>2. IsInf(f, a) \/ IsInf(f, b)  BY <1>2, <2>4 DEF Unpacks
    <3> QED  BY <1>1, <1>8, <2>1, <2>2, <2>4, <3>1, <3>2
  <2>5. CASE ~ ZeroTimesInf(p, q) /\ ~ (is_inf(p) \/ is_inf(q))
    <3>1. ~ (IsInf(f, a) \/ IsInf(f, b))  BY <1>2, <2>5 DEF Unpacks
    <3>2. ProductSpec(f, a, b, rm) = RoundedRatio(f, SU * SV, T, sg, rm)
      BY <1>8, <2>1, <2>2, <2>5, <3>1
    <3>3. CASE is_zero(p) \/ is_zero(q)
      <4>1. MulUnpacked(f, p, q, sg, rm) = Exact(zero(f, sg))  BY <1>10, <2>5, <3>3 DEF MulUnpacked
      <4>2. SU * SV = 0
        <5>1. ASSUME NEW c, NEW r, Unpacks(f, c, r), ~ is_nan(r), ~ is_inf(r)
              PROVE  UnitsOf(f, c) \in Nat
          BY <5>1 DEF Unpacks, Means
        <5>2. U \in Nat /\ V \in Nat  BY <1>2, <1>10, <2>5, <5>1 DEF U, V
        <5>3. (is_zero(p) => U = 0) /\ (is_zero(q) => V = 0)  BY <1>2 DEF Unpacks, U, V
        <5>4. SU \in Int /\ SV \in Int /\ (U = 0 => SU = 0) /\ (V = 0 => SV = 0)  BY <1>6, <5>2
        <5> QED  BY <3>3, <5>3, <5>4
      <4>3. RoundedRatio(f, 0, T, sg, rm) = Exact(zero(f, sg))  BY DEF RoundedRatio
      <4> QED  BY <1>1, <3>2, <4>1, <4>2, <4>3
    <3>4. CASE ~ (is_zero(p) \/ is_zero(q))
      <4> DEFINE n == U * V
      <4>1. MulUnpacked(f, p, q, sg, rm) = round_pack(f, sg, p.m * q.m, p.e + q.e, rm)
        BY <1>10, <2>5, <3>4 DEF MulUnpacked
      <4>2. Means(f, a, p) /\ Means(f, b, q)  BY <1>2, <1>10, <2>5, <3>4 DEF Unpacks
      <4>3. U \in Nat \ {0} /\ V \in Nat \ {0}  BY <4>2 DEF Means, U, V
      <4>4. n \in Nat \ {0}  BY <4>3, PositiveProduct
      <4>5. \A s \in BOOLEAN : round_pack(f, s, p.m * q.m, p.e + q.e, rm)
                                 = Rounded(f, s, rm, Ratio(n, T))
        BY <4>2, ProductRounds DEF U, V, T
      <4>6. SU * SV = IF sg THEN - n ELSE n
        <5>1. (- U) * V = - (U * V) /\ U * (- V) = - (U * V) /\ (- U) * (- V) = U * V  BY <4>3
        <5>2. CASE Negative(f, a) /\ Negative(f, b)
          <6>1. ~ sg  BY <5>2 DEF sg
          <6> QED  BY <1>6, <5>1, <5>2, <6>1
        <5>3. CASE Negative(f, a) /\ ~ Negative(f, b)
          <6>1. sg  BY <5>3 DEF sg
          <6> QED  BY <1>6, <5>1, <5>3, <6>1
        <5>4. CASE ~ Negative(f, a) /\ Negative(f, b)
          <6>1. sg  BY <5>4 DEF sg
          <6> QED  BY <1>6, <5>1, <5>4, <6>1
        <5>5. CASE ~ Negative(f, a) /\ ~ Negative(f, b)
          <6>1. ~ sg  BY <1>5, <5>5 DEF sg
          <6> QED  BY <1>6, <5>5, <6>1
        <5> QED  BY <5>2, <5>3, <5>4, <5>5
      <4> HIDE DEF n
      <4>7. \A s \in BOOLEAN : \A z \in BOOLEAN : RoundedRatio(f, IF s THEN - n ELSE n, T, z, rm)
                                 = Rounded(f, s, rm, Ratio(n, T))
        BY <4>4, RatioSign
      <4> QED  BY <1>1, <1>4, <3>2, <4>1, <4>5, <4>6, <4>7
    <3> QED  BY <3>3, <3>4
  <2> QED  BY <2>3, <2>4, <2>5
<1> QED  BY <1>9, <1>10

-----------------------------------------------------------------------------
(* Conversion to integers *)

\* Equal ratios have the same whole part, and their remainders compare alike.
SameParts(U, d, m, M) ==
    /\ U \div d = m \div M /\ U \div d \in Nat
    /\ U % d = 0 <=> m % M = 0
    /\ Compare(Ratio(U % d, d), 1) = Sgn(2 * (m % M) - M)

\* Two fractions that are one number have the same parts.
LEMMA SameRatio ==
    ASSUME NEW U \in Nat, NEW d \in Nat \ {0}, NEW m \in Nat, NEW M \in Nat \ {0}, U * M = m * d
    PROVE  SameParts(U, d, m, M)
<1> DEFINE Q == U \div d
           R == U % d
           q == m \div M
           r == m % M
<1>1. Q \in Nat /\ R \in 0 .. d - 1 /\ U = d * Q + R  OBVIOUS
<1>2. q \in Nat /\ r \in 0 .. M - 1 /\ m = M * q + r  OBVIOUS
<1> HIDE DEF Q, R, q, r
<1>3. (d * M) * Q + R * M = (d * M) * q + r * d
  <2>1. (d * Q + R) * M = (d * M) * Q + R * M  BY <1>1
  <2>2. (M * q + r) * d = (d * M) * q + r * d  BY <1>2
  <2> QED  BY <1>1, <1>2, <2>1, <2>2
<1> DEFINE K == d * M
           x == R * M
           y == r * d
<1>4. K \in Nat \ {0}  BY PositiveProduct
<1>5. x \in 0 .. K - 1
  <2>1. R + 1 <= d /\ R + 1 \in Nat /\ M \in Nat /\ R \in Nat  BY <1>1
  <2>2. (R + 1) * M <= d * M  BY <2>1, TimesMonotone
  <2>3. (R + 1) * M = x + M /\ x \in Nat  BY <2>1
  <2> HIDE DEF x
  <2>4. x + M <= K  BY <2>2, <2>3
  <2> HIDE DEF K
  <2> QED  BY <1>4, <2>3, <2>4
<1>6. y \in 0 .. K - 1
  <2>1. r + 1 <= M /\ r + 1 \in Nat /\ d \in Nat /\ r \in Nat  BY <1>2
  <2>2. (r + 1) * d <= M * d  BY <2>1, TimesMonotone
  <2>3. (r + 1) * d = y + d /\ y \in Nat /\ M * d = K  BY <2>1
  <2> HIDE DEF y
  <2>4. y + d <= K  BY <2>2, <2>3
  <2> HIDE DEF K
  <2> QED  BY <1>4, <2>3, <2>4
<1>7. Q = q /\ x = y
  <2> DEFINE a == K * Q + x
  <2>1. a = K * q + y  BY <1>3
  <2>2. a \in Nat  BY <1>1, <1>4, <1>5
  <2> HIDE DEF K, x, y
  <2>3. a = K * Q + x  OBVIOUS
  <2> HIDE DEF a
  <2>4. a \div K = Q /\ a % K = x  BY <1>1, <1>4, <1>5, <2>2, <2>3
  <2>5. a \div K = q /\ a % K = y  BY <1>2, <1>4, <1>6, <2>2, <2>1
  <2> QED  BY <2>4, <2>5
<1>8. R = 0 <=> r = 0
  <2>1. R = 0 => x = 0  BY <1>1
  <2>2. r = 0 => y = 0  BY <1>2
  <2>3. R # 0 => x # 0
    <3>1. R # 0 => R \in Nat \ {0}  BY <1>1
    <3> QED  BY <3>1, PositiveProduct
  <2>4. r # 0 => y # 0
    <3>1. r # 0 => r \in Nat \ {0}  BY <1>2
    <3> QED  BY <3>1, PositiveProduct
  <2> QED  BY <1>7, <2>1, <2>2, <2>3, <2>4
<1>9. Compare(Ratio(R, d), 1) = Sgn(2 * r - M)
  <2> DEFINE v == 2 * R - 1 * d
             w == 2 * r - M
  <2>1. R \in Nat /\ 1 \in Nat  BY <1>1
  <2>2. Compare(Ratio(R, d), 1) = Sgn(v)  BY <2>1, RatioOrder
  <2>3. v \in Int /\ w \in Int  BY <1>1, <1>2
  <2>4. v * M = w * d
    <3>1. (2 * R - d) * M = 2 * (R * M) - d * M  BY <1>1
    <3>2. (2 * r - M) * d = 2 * (r * d) - d * M  BY <1>2
    <3>3. 1 * d = d  OBVIOUS
    <3> QED  BY <1>7, <3>1, <3>2, <3>3
  <2> HIDE DEF v, w
  <2>5. Sgn(v * M) = Sgn(v) /\ Sgn(w * d) = Sgn(w)  BY <2>3, SgnTimes
  <2>6. Sgn(v) = Sgn(w)  BY <2>4, <2>5
  <2> QED  BY <2>2, <2>6 DEF w
<1> QED  BY <1>1, <1>7, <1>8, <1>9 DEF SameParts, Q, R, q, r

\* The bits below the point say how the fraction compares with a half.
LEMMA SplitInteger ==
    ASSUME NEW m \in Nat \ {0}, m < 2^(Word - 1), NEW t \in Nat \ {0}, t <= Reach
    PROVE  LET s == Split(m, t)
               M == 2^t
           IN  /\ s = [q |-> s.q, guard |-> s.guard, sticky |-> s.sticky]
               /\ s.q = m \div M /\ s.q \in Nat /\ s.guard \in BOOLEAN /\ s.sticky \in BOOLEAN
               /\ (s.guard \/ s.sticky) <=> m % M # 0
               /\ Sgn(2 * (m % M) - M) = IF ~ s.guard THEN -1 ELSE IF s.sticky THEN 1 ELSE 0
<1> DEFINE s == Split(m, t)
           M == 2^t
           H == 2^(t - 1)
           r == m % M
<1>0. Word \in Nat /\ Reach \in Nat /\ Word > 0 /\ Word <= Reach
  <2>1. S \in Formats  BY DEF Formats
  <2>2. /\ Word \in Nat /\ Reach \in Nat /\ S.sig \in Nat /\ Word + S.sig + 1 <= Reach
        /\ 2 * S.sig + 8 <= Word
    BY <2>1, WordReach
  <2> QED  BY <2>2
<1>1. t \in 0 .. Reach /\ t - 1 \in 0 .. Reach /\ 1 \in 0 .. Reach /\ t = (t - 1) + 1 /\ ~ (t <= 0)
  BY <1>0
<1>2. M \in Nat \ {0} /\ H \in Nat \ {0} /\ M = 2 * H
  <2>1. M \in Nat \ {0} /\ H \in Nat \ {0} /\ M = H * 2^1 /\ 2^1 = 2  BY <1>1, ReachPowers, ReachSum
  <2> HIDE DEF M, H
  <2> QED  BY <2>1
<1>3. CASE t >= Word
  <2> DEFINE V == 2^(Word - 1)
  <2>1. s = [q |-> 0, guard |-> FALSE, sticky |-> TRUE]  BY <1>1, <1>3 DEF Split
  <2>2. V \in Nat /\ V <= H /\ m < V
    <3>1. Word - 1 \in 0 .. Reach /\ Word - 1 <= t - 1  BY <1>0, <1>3
    <3> QED  BY <1>1, <3>1, ReachMonotone, ReachPowers
  <2> HIDE DEF M, H, V
  <2>3. m < H /\ m < M /\ m \in 0 .. M - 1  BY <1>2, <2>2
  <2>4. m = M * 0 + m  BY <1>2
  <2>5. m \div M = 0 /\ m % M = m  BY <1>2, <2>3, <2>4
  <2>6. 2 * m - M < 0 /\ 2 * m - M \in Int  BY <1>2, <2>3
  <2>7. Sgn(2 * m - M) = -1  BY <2>6 DEF Sgn
  <2> HIDE DEF s
  <2>8. s.q = 0 /\ s.guard = FALSE /\ s.sticky = TRUE  BY <2>1
  <2> QED  BY <2>1, <2>5, <2>7, <2>8 DEF s, M
<1>4. CASE t < Word
  <2> DEFINE b == (m \div H) % 2
             l == m % H
             q == m \div M
  <2>1. s = [q |-> q, guard |-> b = 1, sticky |-> l # 0]
    <3>1. ~ (t >= Word)  BY <1>0, <1>4
    <3> QED  BY <1>1, <3>1 DEF Split
  <2> HIDE DEF M, H
  <2>2. q \in Nat /\ b \in {0, 1} /\ l \in 0 .. H - 1 /\ m = q * M + b * H + l  BY <1>2, HalvesOf
  <2>3. r \in 0 .. M - 1 /\ m = M * q + r  BY <1>2
  <2> HIDE DEF b, l, q, r
  <2>4. r = b * H + l
    <3>1. q * M = M * q /\ M * q \in Nat /\ b * H \in Nat  BY <1>2, <2>2
    <3> QED  BY <1>2, <2>2, <2>3, <3>1
  <2>5. /\ (b = 1 \/ l # 0) <=> r # 0
        /\ Sgn(2 * r - M) = IF ~ (b = 1) THEN -1 ELSE IF l # 0 THEN 1 ELSE 0
    <3>1. CASE b = 0
      <4>1. r = l  BY <1>2, <2>2, <2>4, <3>1
      <4>2. 2 * r - M < 0 /\ 2 * r - M \in Int  BY <1>2, <2>2, <4>1
      <4>3. Sgn(2 * r - M) = -1  BY <4>2 DEF Sgn
      <4> QED  BY <3>1, <4>1, <4>3
    <3>2. CASE b = 1
      <4>1. r = H + l /\ r # 0  BY <1>2, <2>2, <2>4, <3>2
      <4>2. 2 * r - M = 2 * l  BY <1>2, <2>2, <4>1
      <4>3. Sgn(2 * r - M) = IF l # 0 THEN 1 ELSE 0
        <5>1. l \in Nat  BY <1>2, <2>2
        <5> QED  BY <4>2, <5>1 DEF Sgn
      <4> QED  BY <3>2, <4>1, <4>3
    <3> QED  BY <2>2, <3>1, <3>2
  <2> HIDE DEF s
  <2>6. s.q = q /\ s.guard = (b = 1) /\ s.sticky = (l # 0)  BY <2>1
  <2> QED  BY <2>1, <2>2, <2>5, <2>6 DEF s, M, q, r
<1> QED  BY <1>0, <1>3, <1>4

\* The range check is the clamp of the definition.
LEMMA SaturatedIs ==
    ASSUME NEW w \in Widths, NEW signed \in BOOLEAN
    PROVE  /\ Saturated(FALSE, w, signed) = [v |-> Largest(w, signed), flags |-> {"NV"}]
           /\ Saturated(TRUE, w, signed) = [v |-> Smallest(w, signed), flags |-> {"NV"}]
           /\ Largest(w, signed) \in Nat /\ - Smallest(w, signed) \in Nat
           /\ Smallest(w, signed) = - min_mag(w, signed) /\ Largest(w, signed) = max_pos(w, signed)
           /\ min_mag(w, signed) \in Nat
           /\ min_mag(w, signed) < 2^Wide /\ max_pos(w, signed) < 2^Wide
<1> DEFINE M == 2^w
           H == 2^(w - 1)
           W == 2^Wide
           lo == min_mag(w, signed)
           hi == max_pos(w, signed)
<1>1. M \in Nat /\ H \in Nat /\ M = 2 * H /\ H >= 2  BY WidthPowers
<1>2. W \in Nat /\ M <= W
  <2>1. w \in 0 .. Word /\ Wide \in 0 .. Word /\ w <= Wide
    BY AluAssumption, FormatAssumption, FpuAssumption DEF Widths
  <2> QED  BY <2>1, PowerMonotone, WordPowerType
<1>3. lo = (IF signed THEN H ELSE 0) /\ hi = (IF signed THEN H - 1 ELSE M - 1)
  BY DEF min_mag, max_pos
<1>4. Smallest(w, signed) = (IF signed THEN - H ELSE 0) /\ Largest(w, signed) = hi
  BY <1>3 DEF Smallest, Largest
<1> HIDE DEF M, H, W, lo, hi
<1>5. Smallest(w, signed) = - lo /\ lo \in Nat /\ hi \in Nat /\ lo < W /\ hi < W
  <2>1. CASE signed = TRUE  BY <1>1, <1>2, <1>3, <1>4, <2>1
  <2>2. CASE signed = FALSE
    <3>1. lo = 0 /\ hi = M - 1 /\ Smallest(w, signed) = 0  BY <1>3, <1>4, <2>2
    <3>2. \A x \in Int : \A y \in Int : x + y = 0 => y = - x  OBVIOUS
    <3>3. lo \in Nat  BY <3>1
    <3>4. lo = - lo
      <4>1. lo \in Int /\ lo + lo = 0  BY <3>1
      <4> QED  BY <3>2, <4>1
    <3>5. Smallest(w, signed) = - lo  BY <3>1, <3>4
    <3>6. hi \in Nat /\ lo < W /\ hi < W  BY <1>1, <1>2, <3>1
    <3> QED  BY <3>3, <3>5, <3>6
  <2> QED  BY <2>1, <2>2
<1>6. /\ Saturated(FALSE, w, signed) = [v |-> hi, flags |-> {"NV"}]
      /\ Saturated(TRUE, w, signed) = [v |-> - lo, flags |-> {"NV"}]
  BY DEF Saturated, lo, hi
<1>7. - (- lo) \in Nat  BY <1>5
<1> QED  BY <1>4, <1>5, <1>6, <1>7 DEF lo, hi, W

\* In range an integer is returned, and outside it the nearest end.
LEMMA InRangeClamps ==
    ASSUME NEW w \in Widths, NEW signed \in BOOLEAN, NEW sign \in BOOLEAN, NEW q \in Nat,
           NEW inexact \in BOOLEAN, NEW exact \in BOOLEAN, exact <=> ~ inexact
    PROVE  InRange(sign, q, inexact, w, signed) = Clamped(WithSignOf(sign, q), exact, w, signed)
<1> DEFINE lo == min_mag(w, signed)
           hi == max_pos(w, signed)
<1>4. Smallest(w, signed) = - lo /\ Largest(w, signed) = hi  BY SaturatedIs
<1>5. lo \in Nat /\ hi \in Nat  BY SaturatedIs
<1>6. /\ Saturated(FALSE, w, signed) = [v |-> hi, flags |-> {"NV"}]
      /\ Saturated(TRUE, w, signed) = [v |-> - lo, flags |-> {"NV"}]
  BY SaturatedIs
<1> HIDE DEF lo, hi
<1>7. InRange(sign, q, inexact, w, signed) =
        IF q > (IF sign THEN lo ELSE hi) THEN Saturated(sign, w, signed)
        ELSE [v |-> IF sign THEN - q ELSE q, flags |-> IF inexact THEN {"NX"} ELSE {}]
  BY DEF InRange, lo, hi
<1>8. \A n : Clamped(n, exact, w, signed) =
        IF n > hi THEN [v |-> hi, flags |-> {"NV"}]
        ELSE IF n < - lo THEN [v |-> - lo, flags |-> {"NV"}]
        ELSE [v |-> n, flags |-> IF exact THEN {} ELSE {"NX"}]
  BY <1>4 DEF Clamped
<1>9. (IF exact THEN {} ELSE {"NX"}) = (IF inexact THEN {"NX"} ELSE {})  OBVIOUS
<1>10. InRange(sign, q, inexact, w, signed) = Clamped(WithSignOf(sign, q), exact, w, signed)
  <2>1. CASE sign = TRUE
    <3> DEFINE n == - q
    <3>1. WithSignOf(sign, q) = n  BY <2>1 DEF WithSignOf
    <3>2. ~ (n > hi) /\ (n < - lo <=> q > lo)
      <4>1. lo \in Nat /\ hi \in Nat  BY <1>5
      <4> QED  BY <4>1
    <3> HIDE DEF n
    <3>3. InRange(sign, q, inexact, w, signed) =
            IF q > lo THEN Saturated(TRUE, w, signed)
            ELSE [v |-> n, flags |-> IF inexact THEN {"NX"} ELSE {}]
      BY <1>7, <2>1 DEF n
    <3> QED  BY <1>6, <1>8, <1>9, <3>1, <3>2, <3>3
  <2>2. CASE sign = FALSE
    <3>1. WithSignOf(sign, q) = q  BY <2>2 DEF WithSignOf
    <3>2. ~ (q < - lo)  BY <1>5
    <3>3. InRange(sign, q, inexact, w, signed) =
            IF q > hi THEN Saturated(FALSE, w, signed)
            ELSE [v |-> q, flags |-> IF inexact THEN {"NX"} ELSE {}]
      BY <1>7, <2>2
    <3> QED  BY <1>6, <1>8, <1>9, <3>1, <3>2, <3>3
  <2> QED  BY <2>1, <2>2
<1> QED  BY <1>10

\* What round_to_int is given rounds to the integer of the definition.
LEMMA IntegerRounds ==
    ASSUME NEW sign \in BOOLEAN, NEW rm \in Rms, NEW U \in Nat \ {0},
           NEW n \in Int, Abs(n) = U, (n < 0) <=> sign, NEW d \in Nat \ {0},
           NEW q \in Nat, NEW guard \in BOOLEAN, NEW sticky \in BOOLEAN,
           U \div d = q, (guard \/ sticky) <=> U % d # 0,
           Compare(Ratio(U % d, d), 1) = IF ~ guard THEN -1 ELSE IF sticky THEN 1 ELSE 0,
           NEW w \in Widths, NEW signed \in BOOLEAN, NEW exact \in BOOLEAN, exact <=> U % d = 0
    PROVE  round_to_int([q |-> q, guard |-> guard, sticky |-> sticky], sign, rm, w, signed)
             = Clamped(RoundedInteger(n, d, rm), exact, w, signed)
<1> DEFINE s == [q |-> q, guard |-> guard, sticky |-> sticky]
           half == Compare(Ratio(U % d, d), 1)
           up == U % d # 0 /\ Away(sign, rm, q % 2 = 1, half)
           k == q + IF up THEN 1 ELSE 0
           lost == guard \/ sticky
<1>1. round_up(rm, sign, s) <=> lost /\ Away(sign, rm, q % 2 = 1, half)  BY RoundsUp
<1>2. s.q = q /\ s.guard = guard /\ s.sticky = sticky  OBVIOUS
<1>3. RoundedQuotient(rm, sign, s) = k
  <2>1. round_up(rm, sign, s) <=> up  BY <1>1
  <2> HIDE DEF up, s
  <2> QED  BY <1>2, <2>1 DEF RoundedQuotient
<1>4. Inexact(s) = lost /\ lost \in BOOLEAN  BY <1>2 DEF Inexact
<1>5. k \in Nat  OBVIOUS
<1>6. round_to_int(s, sign, rm, w, signed) = InRange(sign, k, lost, w, signed)
  BY <1>3, <1>4 DEF round_to_int
<1>7. Abs(n) = U /\ (n < 0) = sign  OBVIOUS
<1>8. RoundedInteger(n, d, rm) = WithSignOf(sign, k)
  <2>1. RoundedInteger(n, d, rm) =
          WithSignOf(n < 0, Abs(n) \div d
                      + IF Abs(n) % d # 0 /\ Away(n < 0, rm, (Abs(n) \div d) % 2 = 1,
                                                  Compare(Ratio(Abs(n) % d, d), 1))
                        THEN 1 ELSE 0)
    BY DEF RoundedInteger
  <2> QED  BY <1>7, <2>1
<1>9. exact <=> ~ lost  OBVIOUS
<1> HIDE DEF s, k, lost
<1>10. InRange(sign, k, lost, w, signed) = Clamped(WithSignOf(sign, k), exact, w, signed)
  <2>1. \A l \in BOOLEAN : (exact <=> ~ l) =>
          InRange(sign, k, l, w, signed) = Clamped(WithSignOf(sign, k), exact, w, signed)
    BY <1>5, InRangeClamps
  <2> QED  BY <1>4, <1>9, <2>1
<1> QED  BY <1>6, <1>8, <1>10 DEF s

\* Past the word every integer format saturates.
LEMMA FarInteger ==
    ASSUME NEW sign \in BOOLEAN, NEW rm \in Rms, NEW U \in Nat \ {0},
           NEW n \in Int, Abs(n) = U, (n < 0) <=> sign, NEW d \in Nat \ {0},
           NEW q \in Nat, U \div d = q, U % d = 0, q >= 2^Wide, NEW w \in Widths, NEW signed \in BOOLEAN,
           NEW exact \in BOOLEAN
    PROVE  Saturated(sign, w, signed)
             = Clamped(RoundedInteger(n, d, rm), exact, w, signed)
<1> DEFINE lo == min_mag(w, signed)
           hi == max_pos(w, signed)
           W == 2^Wide
<1>1. U \div d = q /\ U % d = 0  OBVIOUS
<1>2. /\ Saturated(FALSE, w, signed) = [v |-> hi, flags |-> {"NV"}]
      /\ Saturated(TRUE, w, signed) = [v |-> - lo, flags |-> {"NV"}]
      /\ Smallest(w, signed) = - lo /\ Largest(w, signed) = hi
      /\ lo \in Nat /\ hi \in Nat /\ lo < W /\ hi < W
  BY SaturatedIs
<1>3. W \in Nat  BY Powers
<1>4. q > lo /\ q > hi
  <2>1. q >= W  OBVIOUS
  <2> HIDE DEF W, lo, hi
  <2> QED  BY <1>2, <1>3, <2>1
<1>5. Abs(n) = U /\ (n < 0) = sign  OBVIOUS
<1>6. RoundedInteger(n, d, rm) = WithSignOf(sign, q)
  <2>1. RoundedInteger(n, d, rm) =
          WithSignOf(n < 0, Abs(n) \div d
                      + IF Abs(n) % d # 0 /\ Away(n < 0, rm, (Abs(n) \div d) % 2 = 1,
                                                  Compare(Ratio(Abs(n) % d, d), 1))
                        THEN 1 ELSE 0)
    BY DEF RoundedInteger
  <2>2. RoundedInteger(n, d, rm) = WithSignOf(sign, q + 0)  BY <1>1, <1>5, <2>1
  <2>3. q + 0 = q  OBVIOUS
  <2> QED  BY <2>2, <2>3
<1>7. Saturated(sign, w, signed) = Clamped(WithSignOf(sign, q), exact, w, signed)
  <2> HIDE DEF lo, hi, W
  <2>1. CASE sign = TRUE
    <3> DEFINE y == - q
    <3>1. WithSignOf(sign, q) = y  BY <2>1 DEF WithSignOf
    <3>2. ~ (y > hi) /\ y < - lo  BY <1>2, <1>4
    <3> HIDE DEF y
    <3>3. Clamped(y, exact, w, signed) = [v |-> - lo, flags |-> {"NV"}]  BY <1>2, <3>2 DEF Clamped
    <3> QED  BY <1>2, <2>1, <3>1, <3>3
  <2>2. CASE sign = FALSE
    <3>1. WithSignOf(sign, q) = q  BY <2>2 DEF WithSignOf
    <3>2. Clamped(q, exact, w, signed) = [v |-> hi, flags |-> {"NV"}]  BY <1>2, <1>4 DEF Clamped
    <3> QED  BY <1>2, <2>2, <3>1, <3>2
  <2> QED  BY <2>1, <2>2
<1> QED  BY <1>6, <1>7

\* Conversions to an integer round the number and saturate.
LEMMA ToIntRounds ==
    ASSUME NEW f \in Formats, NEW a \in Int, NEW w \in Widths, NEW signed \in BOOLEAN, NEW rm \in Rms
    PROVE  to_int(f, a, w, signed, rm) = IntegerSpec(f, a, w, signed, rm)
<1> DEFINE p == unpack(f, a)
           neg == Negative(f, a)
           U == UnitsOf(f, a)
           d == Scale(f)
           SU == SignedUnits(f, a)
           exact == U % d = 0
<1>1. to_int(f, a, w, signed, rm) = ToIntUnpacked(p, w, signed, rm)  BY DEF to_int
<1>2. Unpacks(f, a, p) /\ p.sign = neg /\ neg \in BOOLEAN  BY UnpackIs
<1>3. SU = IF neg THEN - U ELSE U  BY DEF SignedUnits
<1>4. /\ d \in Nat \ {0} /\ - min_e(f) \in 0 .. Reach /\ - min_e(f) = bias(f) + f.sig - 1
      /\ \A x \in Int : Scaled(x * d, x, - min_e(f))
  BY ScaleIs
<1>5. /\ Saturated(FALSE, w, signed) = [v |-> Largest(w, signed), flags |-> {"NV"}]
      /\ Saturated(TRUE, w, signed) = [v |-> Smallest(w, signed), flags |-> {"NV"}]
      /\ Largest(w, signed) \in Nat /\ - Smallest(w, signed) \in Nat
      /\ Smallest(w, signed) = - min_mag(w, signed) /\ min_mag(w, signed) \in Nat
  BY SaturatedIs
<1>6. IntegerSpec(f, a, w, signed, rm) =
        IF IsNan(f, a) \/ (IsInf(f, a) /\ ~ neg) THEN [v |-> Largest(w, signed), flags |-> {"NV"}]
        ELSE IF IsInf(f, a) THEN [v |-> Smallest(w, signed), flags |-> {"NV"}]
        ELSE Clamped(RoundedInteger(SU, d, rm), exact, w, signed)
  BY DEF IntegerSpec
<1>10. exact \in BOOLEAN /\ (exact <=> U % d = 0)  OBVIOUS
<1> HIDE DEF p, neg, U, d, SU, exact
<1>7. CASE is_nan(p)
  <2>1. ToIntUnpacked(p, w, signed, rm) = Saturated(FALSE, w, signed)  BY <1>7 DEF ToIntUnpacked
  <2>2. IsNan(f, a)  BY <1>2, <1>7 DEF Unpacks
  <2> QED  BY <1>1, <1>5, <1>6, <2>1, <2>2
<1>8. CASE ~ is_nan(p) /\ is_inf(p)
  <2>1. ToIntUnpacked(p, w, signed, rm) = Saturated(neg, w, signed)  BY <1>2, <1>8 DEF ToIntUnpacked
  <2>2. ~ IsNan(f, a) /\ IsInf(f, a)  BY <1>2, <1>8 DEF Unpacks
  <2>3. CASE neg = TRUE  BY <1>1, <1>5, <1>6, <2>1, <2>2, <2>3
  <2>4. CASE neg = FALSE  BY <1>1, <1>5, <1>6, <2>1, <2>2, <2>4
  <2> QED  BY <1>2, <2>3, <2>4
<1>9. CASE ~ is_nan(p) /\ ~ is_inf(p)
  <2>1. IntegerSpec(f, a, w, signed, rm) = Clamped(RoundedInteger(SU, d, rm), exact, w, signed)
    <3>1. ~ IsNan(f, a) /\ ~ IsInf(f, a)  BY <1>2, <1>9 DEF Unpacks
    <3> QED  BY <1>6, <3>1
  <2>2. CASE is_zero(p)
    <3> DEFINE o == 0
    <3>1. ToIntUnpacked(p, w, signed, rm) = Exact(o)  BY <1>9, <2>2 DEF ToIntUnpacked
    <3>2. U = 0  BY <1>2, <2>2 DEF Unpacks, U
    <3>3. SU = 0
      <4>1. \A x \in Int : \A y \in Int : x + y = 0 => y = - x  OBVIOUS
      <4>2. U \in Int /\ U + U = 0  BY <3>2
      <4>3. U = - U  BY <4>1, <4>2
      <4> QED  BY <1>3, <3>2, <4>3
    <3>4. 0 \div d = 0 /\ 0 % d = 0
      <4>1. 0 = d * 0 + 0 /\ 0 \in 0 .. d - 1  BY <1>4
      <4> QED  BY <1>4, <4>1
    <3>5. Abs(0) = 0 /\ ~ (0 < 0)  BY DEF Abs
    <3>6. RoundedInteger(0, d, rm) = WithSignOf(0 < 0, 0 + 0)
      BY <3>4, <3>5 DEF RoundedInteger
    <3>7. WithSignOf(0 < 0, 0 + 0) = o  BY DEF WithSignOf
    <3>8. ~ (o > Largest(w, signed)) /\ ~ (o < Smallest(w, signed))  BY <1>5
    <3> HIDE DEF o
    <3>9. Clamped(o, TRUE, w, signed) = Exact(o)  BY <3>8 DEF Clamped, Exact
    <3>10. exact = TRUE  BY <1>10, <3>2, <3>4
    <3> QED  BY <1>1, <2>1, <3>1, <3>3, <3>6, <3>7, <3>9, <3>10
  <2>3. CASE ~ is_zero(p)
    <3> DEFINE m == p.m
               e == p.e
               me == min_e(f)
               z == - me
               u == e - me
               s == f.sig
               b == bias(f)
    <3>1. Means(f, a, p)  BY <1>2, <1>9, <2>3 DEF Unpacks
    <3>2. m \in Nat \ {0} /\ m < 2^(s + 1)  BY <3>1, SignificandFits
    <3>3. /\ e \in Int /\ u \in - s .. max_field(f) - 2 /\ Scaled(U, m, u) /\ U \in Nat \ {0}
          /\ m >= 2^s
      BY <3>1 DEF Means, U
    <3>4. /\ Word \in Nat /\ Reach \in Nat /\ s \in Nat /\ 2 * s + 8 <= Word /\ b \in Nat \ {0}
          /\ Word + b + s <= Reach /\ 3 * (b + s) <= Reach /\ me \in Int
          /\ max_field(f) = 2 * b + 1 /\ z = b + s - 1 /\ Wide \in Nat /\ Wide < Word
      BY <1>4, WordReach, AluAssumption, FormatAssumption
    <3>5. m < 2^(Word - 1) /\ m < 2^Word /\ bit_len(m) = s + 1
      <4> DEFINE A == 2^(s + 1)
                 V == 2^(Word - 1)
                 W == 2^Word
      <4>1. s + 1 \in 0 .. Word /\ Word - 1 \in 0 .. Word /\ Word \in 0 .. Word /\ s \in 0 .. Word
            /\ s + 1 <= Word - 1 /\ Word - 1 <= Word
        BY <3>4
      <4>2. A \in Nat /\ V \in Nat /\ W \in Nat /\ A <= V /\ V <= W
        BY <4>1, PowerMonotone, WordPowerType
      <4> HIDE DEF A, V, W, m
      <4>3. m < V /\ m < W  BY <3>2, <4>2 DEF A
      <4>4. bit_len(m) <= s + 1 /\ bit_len(m) >= s + 1 /\ bit_len(m) \in 0 .. Word
        <5>1. m \in Nat /\ m < 2^Word  BY <3>2, <4>3 DEF W
        <5> HIDE DEF s
        <5> QED  BY <3>2, <3>3, <4>1, <5>1, BitLenBounds, BitLength
      <4>5. bit_len(m) = s + 1
        <5> HIDE DEF s
        <5> QED  BY <3>4, <4>4
      <4> QED  BY <4>3, <4>5 DEF V, W
    <3>6. ToIntUnpacked(p, w, signed, rm) =
            IF e >= 0 /\ (s + 1) + e > Word - 1 THEN Saturated(neg, w, signed)
            ELSE round_to_int(Split(m, - e), neg, rm, w, signed)
      BY <1>2, <1>9, <2>3, <3>5 DEF ToIntUnpacked
    <3>7. /\ u \in Exponents /\ z \in Exponents /\ e \in Exponents /\ - e \in Exponents /\ - z \in Exponents
          /\ u = e + z /\ e = u + (- z) /\ - Reach <= e /\ e <= Reach
      <4>1. e - me >= - s /\ e - me <= 2 * b - 1  BY <3>3, <3>4
      <4> HIDE DEF e, me, s, b
      <4>2. e - me \in - Reach .. Reach /\ - me \in - Reach .. Reach /\ e \in - Reach .. Reach
            /\ - e \in - Reach .. Reach /\ - (- me) \in - Reach .. Reach
        BY <3>3, <3>4, <4>1
      <4>3. e - me = e + (- me) /\ e = (e - me) + (- (- me)) /\ - Reach <= e /\ e <= Reach
        BY <3>3, <3>4, <4>2
      <4> QED  BY <4>2, <4>3 DEF Exponents
    <3> DEFINE md == m * d
    <3>8. md \in Int /\ m \in Int /\ U \in Int  BY <1>4, <3>2, <3>3
    <3>9. Scaled(U, md, e)
      <4>1. Scaled(md, m, z)  BY <1>4, <3>8
      <4> HIDE DEF md, m, z, u, e
      <4>2. Scaled(m, md, - z)  BY <3>7, <3>8, <4>1, ScaledBack
      <4> QED  BY <3>3, <3>7, <3>8, <4>2, ScaledCompose
    <3>12. md = m * d  OBVIOUS
    <3> HIDE DEF m, e, u, z, s, b, me, md
    <3>13. SU \in Int /\ Abs(SU) = U /\ ((SU < 0) <=> neg)
      <4>1. CASE neg = TRUE
        <5>1. SU = - U  BY <1>3, <4>1
        <5>2. SU \in Int /\ SU < 0  BY <3>3, <5>1
        <5>3. Abs(SU) = - SU /\ - (- U) = U  BY <3>3, <5>2 DEF Abs
        <5> QED  BY <4>1, <5>1, <5>2, <5>3
      <4>2. CASE neg = FALSE
        <5>1. SU = U  BY <1>3, <4>2
        <5>2. SU \in Int /\ ~ (SU < 0)  BY <3>3, <5>1
        <5>3. Abs(SU) = SU  BY <5>2 DEF Abs
        <5> QED  BY <4>2, <5>1, <5>2, <5>3
      <4> QED  BY <1>2, <4>1, <4>2
    <3>14. SU \in Int /\ Abs(SU) = U  BY <3>13
    <3>10. CASE e >= 0
      <4> DEFINE E == 2^e
                 q == m * E
      <4>1. e \in 0 .. Reach  BY <3>3, <3>4, <3>7, <3>10
      <4>2. E \in Nat \ {0}  BY <4>1, ReachPowers
      <4>3. U = (m * d) * E  BY <3>9, <3>10, <3>12 DEF Scaled
      <4>4. U = q * d /\ q \in Nat
        <5> HIDE DEF E
        <5>1. (m * d) * E = (m * E) * d /\ m * E \in Nat  BY <1>4, <3>2, <4>2
        <5> QED  BY <4>3, <5>1
      <4>7. U \div d = q /\ U % d = 0
        <5> HIDE DEF q
        <5>1. U = d * q + 0 /\ 0 \in 0 .. d - 1  BY <1>4, <4>4
        <5> QED  BY <1>4, <3>3, <4>4, <5>1
      <4>5. CASE (s + 1) + e > Word - 1
        <5>1. q >= 2^Wide
          <6> DEFINE A == 2^s
                     V == 2^Wide
          <6>1. s \in 0 .. Reach /\ Wide \in 0 .. Reach /\ s + e \in 0 .. Reach /\ Wide <= s + e
                /\ s + e <= Reach
            <7>1. e <= 2 * b - 1 + s + b  BY <3>3, <3>4, <3>7 DEF u, z
            <7>2. s + e <= Reach
              <8>1. e <= (2 * b - 1) - z
                <9>1. u <= 2 * b - 1 /\ u \in Int  BY <3>3, <3>4
                <9> HIDE DEF u
                <9> QED  BY <3>3, <3>4, <3>7, <9>1
              <8> QED  BY <3>3, <3>4, <8>1
            <7> QED  BY <3>3, <3>4, <3>10, <4>5, <7>2
          <6>2. A \in Nat \ {0} /\ V \in Nat /\ V <= 2^(s + e) /\ 2^(s + e) = A * E
            BY <4>1, <6>1, ReachPowers, ReachMonotone
          <6>3. A * E <= m * E
            <7> HIDE DEF E
            <7>1. m \in Nat /\ A <= m  BY <3>2, <3>3 DEF s, m
            <7> QED  BY <4>2, <6>2, <7>1, TimesMonotone
          <6>4. V <= A * E  BY <6>2
          <6> HIDE DEF A, V, E
          <6>5. A * E \in Nat /\ m * E \in Nat  BY <3>2, <4>2, <6>2
          <6>6. V <= m * E  BY <6>2, <6>3, <6>4, <6>5
          <6> QED  BY <4>4, <6>2, <6>6 DEF V
        <5> HIDE DEF q, E
        <5>2. \A sg \in BOOLEAN : \A x \in BOOLEAN : ((SU < 0) <=> sg) => Saturated(sg, w, signed)
                = Clamped(RoundedInteger(SU, d, rm), x, w, signed)
          <6>1. /\ d \in Nat \ {0} /\ U \in Nat \ {0} /\ q \in Nat /\ q >= 2^Wide
                /\ U \div d = q /\ U % d = 0
            BY <1>4, <3>3, <4>4, <4>7, <5>1
          <6> QED  BY <3>14, <6>1, FarInteger
        <5> QED  BY <1>1, <1>2, <3>13, <2>1, <1>10, <3>6, <3>10, <4>5, <5>2
      <4>6. CASE ~ ((s + 1) + e > Word - 1)
        <5> DEFINE no == FALSE
        <5>1. Split(m, - e) = [q |-> q, guard |-> no, sticky |-> no]
          <6>1. - e <= 0 /\ - (- e) = e  BY <3>3, <3>10
          <6> QED  BY <6>1 DEF Split
        <5> HIDE DEF q
        <5>2. U \div d = q /\ U % d = 0  BY <4>7
        <5>3. Compare(Ratio(U % d, d), 1) = -1
          <6>1. Compare(Ratio(0, d), 1) = Sgn(2 * 0 - 1 * d)  BY <1>4, RatioOrder
          <6>2. 2 * 0 - 1 * d < 0 /\ 2 * 0 - 1 * d \in Int  BY <1>4
          <6>3. Sgn(2 * 0 - 1 * d) = -1  BY <6>2 DEF Sgn
          <6> QED  BY <5>2, <6>1, <6>3
        <5>4. /\ no \in BOOLEAN /\ ((no \/ no) <=> U % d # 0)
              /\ Compare(Ratio(U % d, d), 1) = IF ~ no THEN -1 ELSE IF no THEN 1 ELSE 0
          BY <5>2, <5>3
        <5> HIDE DEF no
        <5>5. \A sg \in BOOLEAN : \A x \in BOOLEAN : (x <=> U % d = 0) /\ ((SU < 0) <=> sg) =>
                round_to_int([q |-> q, guard |-> no, sticky |-> no], sg, rm, w, signed)
                = Clamped(RoundedInteger(SU, d, rm), x, w, signed)
          <6>1. d \in Nat \ {0} /\ U \in Nat \ {0} /\ q \in Nat  BY <1>4, <3>3, <4>4
          <6> QED  BY <5>2, <5>4, <3>14, <6>1, IntegerRounds
        <5> QED  BY <1>1, <1>2, <3>13, <2>1, <3>6, <1>10, <4>6, <5>1, <5>5
      <4> QED  BY <4>5, <4>6
    <3>11. CASE ~ (e >= 0)
      <4> DEFINE t == - e
                 M == 2^t
                 sp == Split(m, t)
                 q == sp.q
                 guard == sp.guard
                 sticky == sp.sticky
      <4>1. t \in Nat \ {0} /\ t <= Reach /\ t \in 0 .. Reach  BY <3>3, <3>4, <3>7, <3>11
      <4>2. M \in Nat \ {0}  BY <4>1, ReachPowers
      <4>3. U * M = m * d  BY <3>9, <3>11, <3>12 DEF Scaled
      <4> HIDE DEF t
      <4>4. /\ sp = [q |-> q, guard |-> guard, sticky |-> sticky]
            /\ q = m \div M /\ q \in Nat /\ guard \in BOOLEAN /\ sticky \in BOOLEAN
            /\ (guard \/ sticky) <=> m % M # 0
            /\ Sgn(2 * (m % M) - M) = IF ~ guard THEN -1 ELSE IF sticky THEN 1 ELSE 0
        <5>1. m < 2^(Word - 1)  BY <3>5
        <5> QED  BY <3>2, <4>1, <5>1, SplitInteger
      <4>5. /\ U \div d = m \div M /\ (U % d = 0 <=> m % M = 0)
            /\ Compare(Ratio(U % d, d), 1) = Sgn(2 * (m % M) - M)
        <5> HIDE DEF M
        <5>1. U \in Nat /\ m \in Nat /\ d \in Nat \ {0} /\ M \in Nat \ {0} /\ U * M = m * d
          BY <1>4, <3>2, <3>3, <4>2, <4>3
        <5>2. SameParts(U, d, m, M)  BY <5>1, SameRatio
        <5> QED  BY <5>2 DEF SameParts
      <4>6. /\ U \div d = q /\ ((guard \/ sticky) <=> U % d # 0)
            /\ Compare(Ratio(U % d, d), 1) = IF ~ guard THEN -1 ELSE IF sticky THEN 1 ELSE 0
        BY <4>4, <4>5
      <4> HIDE DEF q, guard, sticky, sp, M
      <4>7. \A sg \in BOOLEAN : \A x \in BOOLEAN : (x <=> U % d = 0) /\ ((SU < 0) <=> sg) =>
              round_to_int([q |-> q, guard |-> guard, sticky |-> sticky], sg, rm, w, signed)
              = Clamped(RoundedInteger(SU, d, rm), x, w, signed)
        <5>1. d \in Nat \ {0} /\ U \in Nat \ {0} /\ q \in Nat /\ guard \in BOOLEAN /\ sticky \in BOOLEAN
          BY <1>4, <3>3, <4>4
        <5>2. \A gd \in BOOLEAN : \A st \in BOOLEAN : \A sg \in BOOLEAN : \A x \in BOOLEAN :
                ((gd \/ st) <=> U % d # 0) /\ (x <=> U % d = 0) /\ ((SU < 0) <=> sg)
                  /\ Compare(Ratio(U % d, d), 1) = (IF ~ gd THEN -1 ELSE IF st THEN 1 ELSE 0) =>
                round_to_int([q |-> q, guard |-> gd, sticky |-> st], sg, rm, w, signed)
                = Clamped(RoundedInteger(SU, d, rm), x, w, signed)
          <6>1. d \in Nat \ {0} /\ U \in Nat \ {0} /\ q \in Nat /\ U \div d = q  BY <4>6, <5>1
          <6> QED  BY <3>14, <6>1, IntegerRounds
        <5> QED  BY <4>6, <5>1, <5>2
      <4> QED  BY <1>1, <1>2, <3>13, <2>1, <3>6, <1>10, <3>11, <4>4, <4>7 DEF sp, t
    <3> QED  BY <3>10, <3>11
  <2> QED  BY <2>2, <2>3
<1> QED  BY <1>7, <1>8, <1>9

-----------------------------------------------------------------------------
(* Between two neighbours at every scale *)

\* A positive factor keeps a strict order.
LEMMA TimesStrict ==
    ASSUME NEW x \in Int, NEW y \in Int, NEW c \in Nat \ {0}
    PROVE  x < y <=> x * c < y * c
<1>1. ASSUME NEW u \in Int, NEW v \in Int, u < v PROVE u * c < v * c
  <2> DEFINE k == v - u
  <2>1. k \in Nat \ {0} /\ v = u + k  BY <1>1
  <2> HIDE DEF k
  <2>2. k * c \in Nat \ {0}  BY <2>1, PositiveProduct
  <2>3. (u + k) * c = u * c + k * c  BY <2>1
  <2>4. u * c \in Int /\ v * c = u * c + k * c  BY <2>1, <2>3
  <2> QED  BY <2>2, <2>4
<1>2. x * c \in Int /\ y * c \in Int  OBVIOUS
<1>3. x < y => x * c < y * c  BY <1>1
<1>4. ~ (x < y) => ~ (x * c < y * c)
  <2>1. CASE x = y  BY <1>2, <2>1
  <2>2. CASE y < x
    <3>1. y * c < x * c  BY <1>1, <2>2
    <3> QED  BY <1>2, <3>1
  <2> QED  BY <2>1, <2>2
<1> QED  BY <1>3, <1>4

\* Scaling keeps the order.
LEMMA ScaledOrder ==
    ASSUME NEW x \in Int, NEW y \in Int, NEW u \in Int, NEW v \in Int, NEW k \in Exponents,
           Scaled(x, u, k), Scaled(y, v, k), u < v
    PROVE  x < y
<1> DEFINE K == 2^k
           J == 2^(- k)
<1>0. k \in Int /\ Reach \in Nat  BY ReachNat DEF Exponents
<1>1. CASE k >= 0
  <2>1. K \in Nat \ {0}
    <3>1. k \in 0 .. Reach  BY <1>0, <1>1 DEF Exponents
    <3> QED  BY <3>1, ReachPowers
  <2>2. x = u * K /\ y = v * K  BY <1>1 DEF Scaled
  <2> HIDE DEF K
  <2>3. u * K < v * K  BY <2>1, TimesStrict
  <2> QED  BY <2>2, <2>3
<1>2. CASE ~ (k >= 0)
  <2>1. J \in Nat \ {0}
    <3>1. - k \in 0 .. Reach  BY <1>0, <1>2 DEF Exponents
    <3> QED  BY <3>1, ReachPowers
  <2>2. x * J = u /\ y * J = v  BY <1>2 DEF Scaled
  <2> HIDE DEF J
  <2>3. x * J < y * J  BY <2>2
  <2> QED  BY <2>1, <2>3, TimesStrict
<1> QED  BY <1>1, <1>2

\* y * 2^g < n and n < y * 2^g.
LiesBelow(y, n, g) == IF g >= 0 THEN y * 2^g < n ELSE y < n * 2^(- g)
LiesAbove(y, n, g) == IF g >= 0 THEN n < y * 2^g ELSE n * 2^(- g) < y

\* Where a number lies against another, at either scale.
LEMMA ScaledBetween ==
    ASSUME NEW n \in Int, NEW N \in Int, NEW y \in Int, NEW Y \in Int,
           NEW k \in Exponents, NEW g \in Exponents, NEW l \in Exponents, l = k + g,
           Scaled(n, N, l), Scaled(y, Y, k)
    PROVE  (Y < N => LiesBelow(y, n, g)) /\ (N < Y => LiesAbove(y, n, g))
<1>0. k \in Int /\ g \in Int /\ l \in Int /\ Reach \in Nat  BY ReachNat DEF Exponents
<1>1. CASE g >= 0
  <2> DEFINE Q4 == 2^g
             x == y * Q4
  <2>1. Q4 \in Nat \ {0}
    <3>1. g \in 0 .. Reach  BY <1>0, <1>1 DEF Exponents
    <3> QED  BY <3>1, ReachPowers
  <2>2. Scaled(x, y, g)  BY <1>1 DEF Scaled
  <2>3. x \in Int
    <3> HIDE DEF Q4
    <3> QED  BY <2>1
  <2> HIDE DEF x
  <2>4. l = g + k  BY <1>0
  <2>5. Scaled(x, Y, l)  BY <2>2, <2>3, <2>4, ScaledCompose
  <2>6. (Y < N => x < n) /\ (N < Y => n < x)  BY <2>3, <2>5, ScaledOrder
  <2> QED  BY <1>1, <2>6 DEF LiesBelow, LiesAbove, x
<1>2. CASE ~ (g >= 0)
  <2> DEFINE c == - g
             Q4 == 2^c
             x == n * Q4
  <2>1. c \in Exponents /\ c >= 0 /\ c \in 0 .. Reach /\ k = c + l  BY <1>0, <1>2 DEF Exponents
  <2>2. Q4 \in Nat \ {0}  BY <2>1, ReachPowers
  <2>3. Scaled(x, n, c)  BY <2>1 DEF Scaled
  <2>4. x \in Int
    <3> HIDE DEF Q4
    <3> QED  BY <2>2
  <2> HIDE DEF x
  <2>5. Scaled(x, N, k)
    <3> HIDE DEF c
    <3> QED  BY <2>1, <2>3, <2>4, ScaledCompose
  <2>6. (Y < N => y < x) /\ (N < Y => x < y)  BY <2>4, <2>5, ScaledOrder
  <2> QED  BY <1>2, <2>6 DEF LiesBelow, LiesAbove, x
<1> QED  BY <1>1, <1>2

\* Between the neighbours at one scale is between them at every scale.
LEMMA BetweenNear ==
    ASSUME NEW n \in Nat, NEW d \in Nat, NEW m \in Nat \ {0}, NEW g \in Exponents,
           LiesBelow((m - 1) * d, n, g), LiesAbove((m + 1) * d, n, g)
    PROVE  Near(n, d, m, g, TRUE)
<1> DEFINE a == m - 1
           b == m + 1
           A == a * d
           B == b * d
<1>0. a \in Nat /\ b \in Nat /\ A \in Int /\ B \in Int /\ g \in Int /\ Reach \in Nat
  BY ReachNat DEF Exponents
<1> SUFFICES ASSUME NEW j \in 0 .. Reach, NEW t \in 0 .. Reach, j - t = g
             PROVE  (a * 2^j) * d < n * 2^t /\ n * 2^t < (b * 2^j) * d
  BY DEF Near
<1> DEFINE T == 2^t
           P == 2^j
<1>1. T \in Nat \ {0} /\ P \in Nat \ {0}  BY ReachPowers
<1>2. (a * P) * d = A * P /\ (b * P) * d = B * P
  <2> HIDE DEF P, a, b
  <2> QED  BY <1>0, <1>1
<1> HIDE DEF a, b, A, B
<1>3. CASE g >= 0
  <2> DEFINE Q4 == 2^g
             x == A * Q4
             y == B * Q4
  <2>1. g \in 0 .. Reach /\ j = g + t  BY <1>0, <1>3
  <2>2. Q4 \in Nat \ {0} /\ P = Q4 * T  BY <2>1, ReachPowers
  <2>3. x < n /\ n < y  BY <1>3 DEF LiesBelow, LiesAbove, A, B, a, b
  <2> HIDE DEF T, P, Q4
  <2>4. x \in Int /\ y \in Int  BY <1>0, <2>2
  <2>5. A * P = x * T /\ B * P = y * T
    <3>1. A * (Q4 * T) = (A * Q4) * T /\ B * (Q4 * T) = (B * Q4) * T  BY <1>0, <1>1, <2>2
    <3> QED  BY <2>2, <3>1
  <2> HIDE DEF x, y
  <2>6. x * T < n * T /\ n * T < y * T  BY <1>1, <2>3, <2>4, TimesStrict
  <2> QED  BY <1>2, <2>5, <2>6 DEF T, P
<1>4. CASE ~ (g >= 0)
  <2> DEFINE c == - g
             Q4 == 2^c
             x == n * Q4
  <2>1. c \in 0 .. Reach /\ t = c + j  BY <1>0, <1>4 DEF Exponents
  <2>2. Q4 \in Nat \ {0} /\ T = Q4 * P  BY <2>1, ReachPowers
  <2>3. A < x /\ x < B  BY <1>4 DEF LiesBelow, LiesAbove, A, B, a, b
  <2> HIDE DEF T, P, Q4
  <2>4. x \in Int  BY <2>2
  <2>5. n * T = x * P
    <3>1. n * (Q4 * P) = (n * Q4) * P  BY <1>1, <2>2
    <3> QED  BY <2>2, <3>1
  <2> HIDE DEF x
  <2>6. A * P < x * P /\ x * P < B * P  BY <1>0, <1>1, <2>3, <2>4, TimesStrict
  <2> QED  BY <1>2, <2>5, <2>6 DEF T, P
<1> QED  BY <1>3, <1>4

\* A value with a remainder below it becomes its odd neighbour, or stays odd.
LEMMA StickyBetween ==
    ASSUME NEW c \in Nat, NEW lost \in BOOLEAN
    PROVE  LET m == Sticky(c, lost)
           IN  /\ m \in Nat /\ m >= c /\ m <= c + 1
               /\ lost => m % 2 = 1 /\ m - 1 <= c /\ m - 1 \in Nat
               /\ ~ lost => m = c
<1> DEFINE m == Sticky(c, lost)
<1>1. m = IF lost /\ c % 2 = 0 THEN c + 1 ELSE c  BY DEF Sticky
<1>2. c % 2 \in {0, 1} /\ (c % 2 = 0 => (c + 1) % 2 = 1)  OBVIOUS
<1>3. c % 2 = 1 => c >= 1
  <2>1. 0 % 2 = 0  OBVIOUS
  <2> QED  BY <2>1
<1>4. CASE lost /\ c % 2 = 0
  <2>1. m = c + 1  BY <1>1, <1>4
  <2> HIDE DEF m
  <2>2. m % 2 = 1  BY <1>2, <1>4, <2>1
  <2>3. m \in Nat /\ m >= c /\ m <= c + 1 /\ m - 1 <= c /\ m - 1 \in Nat  BY <2>1
  <2> QED  BY <1>4, <2>2, <2>3 DEF m
<1>5. CASE ~ (lost /\ c % 2 = 0)
  <2>1. m = c  BY <1>1, <1>5
  <2> HIDE DEF m
  <2>2. lost => m % 2 = 1 /\ m - 1 <= c /\ m - 1 \in Nat  BY <1>2, <1>3, <1>5, <2>1
  <2>3. m \in Nat /\ m >= c /\ m <= c + 1  BY <2>1
  <2> QED  BY <2>1, <2>2, <2>3 DEF m
<1> QED  BY <1>4, <1>5

-----------------------------------------------------------------------------
(* Division *)

\* The places a dividend is moved up.
LEMMA ShiftRange ==
    /\ Word \in Nat /\ Shift \in Nat /\ Shift >= 6 /\ 2 * Shift <= Word /\ Word <= 2 * Shift + 1
    /\ Shift \in 0 .. Word /\ Shift - 1 \in 0 .. Word /\ Shift + 1 \in 0 .. Word
    /\ Shift + 2 \in 0 .. Word /\ Shift + 2 <= Word - 1
<1>1. Word \in Nat /\ S \in Formats  BY FpuAssumption DEF Formats
<1>2. S.sig \in Nat /\ S.sig >= 2 /\ S.sig + 4 <= Word \div 2  BY <1>1, FormatFacts
<1> DEFINE s == S.sig
           h == Word \div 2
<1>3. s \in Nat /\ s >= 2 /\ s + 4 <= h  BY <1>2
<1>4. h \in Nat /\ 2 * h <= Word /\ Word <= 2 * h + 1  BY <1>1
<1>5. Shift = h  BY DEF Shift
<1> HIDE DEF s, h
<1>6. h >= 6  BY <1>3, <1>4
<1>7. h \in 0 .. Word /\ h - 1 \in 0 .. Word /\ h + 1 \in 0 .. Word  BY <1>1, <1>4, <1>6
<1>8. h + 2 \in 0 .. Word /\ h + 2 <= Word - 1  BY <1>1, <1>4, <1>6
<1> QED  BY <1>1, <1>4, <1>5, <1>6, <1>7, <1>8

\* They leave a significand room for its guard and sticky bits.
LEMMA ShiftDeep == ASSUME NEW f \in Formats PROVE f.sig + 4 <= Shift /\ f.sig \in Nat /\ f.sig >= 2
BY FormatFacts DEF Shift

\* Dividing with a sticky remainder keeps the quotient between its neighbours.
LEMMA QuotientBetween ==
    ASSUME NEW N \in Nat, NEW b \in Nat \ {0}
    PROVE  LET m == Quotient(N, b)
               lost == N % b # 0
           IN  /\ m \in Nat /\ m >= N \div b /\ m <= N \div b + 1
               /\ lost => m % 2 = 1 /\ m - 1 \in Nat /\ (m - 1) * b < N /\ N < (m + 1) * b
               /\ ~ lost => N = m * b
<1> DEFINE c == N \div b
           r == N % b
           lost == r # 0
           m == Quotient(N, b)
<1>1. c \in Nat /\ r \in 0 .. b - 1 /\ N = b * c + r /\ lost \in BOOLEAN  OBVIOUS
<1>2. m = Sticky(c, lost)  BY DEF Quotient
<1>3. /\ m \in Nat /\ m >= c /\ m <= c + 1
      /\ lost => m % 2 = 1 /\ m - 1 <= c /\ m - 1 \in Nat
      /\ ~ lost => m = c
  <2> HIDE DEF c
  <2>1. \A l \in BOOLEAN : LET k == Sticky(c, l)
           IN  /\ k \in Nat /\ k >= c /\ k <= c + 1
               /\ l => k % 2 = 1 /\ k - 1 <= c /\ k - 1 \in Nat
               /\ ~ l => k = c
    BY <1>1, StickyBetween
  <2> QED  BY <1>1, <1>2, <2>1
<1> HIDE DEF c, r, m
<1>4. CASE r # 0
  <2>1. m % 2 = 1 /\ m - 1 <= c /\ m - 1 \in Nat  BY <1>3, <1>4
  <2>2. (m - 1) * b <= c * b  BY <1>1, <2>1, TimesMonotone
  <2>3. (c + 1) * b <= (m + 1) * b
    <3>1. c + 1 \in Nat /\ m + 1 \in Nat /\ c + 1 <= m + 1  BY <1>1, <1>3
    <3> QED  BY <3>1, TimesMonotone
  <2>4. c * b = b * c /\ (c + 1) * b = b * c + b /\ b * c \in Int  BY <1>1
  <2>5. (m - 1) * b \in Int /\ (m + 1) * b \in Int  BY <1>3
  <2>6. (m - 1) * b < N /\ N < (m + 1) * b  BY <1>1, <1>4, <2>2, <2>3, <2>4, <2>5
  <2> QED  BY <1>3, <1>4, <2>1, <2>6 DEF c, r, m
<1>5. CASE r = 0
  <2>1. m = c  BY <1>3, <1>5
  <2>2. N = m * b
    <3>1. b * c = c * b /\ b * c \in Int  BY <1>1
    <3> QED  BY <1>1, <1>5, <2>1, <3>1
  <2> QED  BY <1>3, <1>5, <2>2 DEF c, r, m
<1> QED  BY <1>4, <1>5

\* The quotient's size: two full significands, the dividend a word's half up.
LEMMA QuotientSize ==
    ASSUME NEW f \in Formats, NEW x, NEW p, Means(f, x, p), NEW y, NEW q, Means(f, y, q)
    PROVE  LET N == p.m * 2^Shift
               m == Quotient(N, q.m)
           IN  /\ N \in Nat /\ q.m \in Nat \ {0} /\ m \in Nat \ {0} /\ m < 2^(Word - 1)
               /\ m < 2^Word /\ bit_len(m) \in 0 .. Word
               /\ bit_len(m) >= f.sig + 3 /\ bit_len(m) <= Shift + 2
<1> DEFINE A == 2^f.sig
           H == 2^(Shift - 1)
           F == 2^Shift
           E == 2^(Shift + 1)
           Q == 2^(Shift + 2)
           V == 2^(Word - 1)
           W == 2^Word
           a == p.m
           b == q.m
           N == a * F
           c == N \div b
           m == Quotient(N, b)
           s == f.sig
<1>1. A \in Nat \ {0} /\ s \in Nat  BY FormatPowers, FormatFacts
<1>2. /\ Shift \in Nat /\ s + 4 <= Shift /\ 2 * Shift <= Word /\ Shift \in 0 .. Word
      /\ Shift - 1 \in 0 .. Word /\ Shift + 1 \in 0 .. Word /\ Shift + 2 \in 0 .. Word
      /\ Shift + 2 <= Word - 1 /\ Word \in Nat
  <2>1. s + 4 <= Shift  BY ShiftDeep
  <2> QED  BY <2>1, ShiftRange
<1>3. a \in Nat /\ a >= A /\ a < 2 * A /\ b \in Nat /\ b >= A /\ b < 2 * A  BY DEF Means
<1> HIDE DEF A, a, b, s
<1>4. /\ H \in Nat \ {0} /\ F = 2 * H /\ E = 4 * H /\ Q = 8 * H /\ Q <= V /\ V <= W
      /\ V \in Nat /\ W \in Nat
  <2>1. /\ 1 \in 0 .. Word /\ Shift = (Shift - 1) + 1 /\ Shift + 1 = Shift + 1
        /\ Shift + 2 = (Shift + 1) + 1 /\ Word - 1 \in 0 .. Word /\ Word \in 0 .. Word
        /\ Word - 1 <= Word
    BY <1>2
  <2>2. F = H * 2^1 /\ E = F * 2^1 /\ Q = E * 2^1 /\ 2^1 = 2
    <3>1. 2^1 = 2  BY PowerAssumption
    <3>2. ASSUME NEW u \in 0 .. Word, NEW w \in 0 .. Word, w = u + 1 PROVE 2^w = 2^u * 2^1
      BY <2>1, <3>2, WordPowerSum
    <3>3. F = H * 2^1  BY <1>2, <2>1, <3>2
    <3>4. E = F * 2^1  BY <1>2, <2>1, <3>2
    <3>5. Q = E * 2^1  BY <1>2, <2>1, <3>2
    <3> QED  BY <3>1, <3>3, <3>4, <3>5
  <2>3. H \in Nat \ {0} /\ V \in Nat /\ W \in Nat /\ Q <= V /\ V <= W
    BY <1>2, <2>1, PowerMonotone, WordPowerType
  <2> HIDE DEF H, F, E, Q, V, W
  <2>4. F = 2 * H /\ E = 2 * F /\ Q = 2 * E  BY <2>2, <2>3
  <2> QED  BY <2>3, <2>4
<1> HIDE DEF H, F, E, Q, V, W
<1>5. N \in Nat /\ b \in Nat \ {0}  BY <1>1, <1>3, <1>4
<1> HIDE DEF N
<1>6. c \in Nat /\ N = b * c + (N % b) /\ N % b \in 0 .. b - 1  BY <1>5
<1>7. m \in Nat /\ m >= c /\ m <= c + 1  BY <1>5, QuotientBetween
<1> HIDE DEF c, m
<1>8. c >= H
  <2> SUFFICES ASSUME c + 1 <= H PROVE FALSE  BY <1>4, <1>6
  <2>1. c + 1 \in Nat /\ H \in Nat /\ b \in Nat  BY <1>4, <1>5, <1>6
  <2>2. b * (c + 1) <= b * H  BY <2>1, TimesMonotone
  <2>3. b * (c + 1) = b * c + b /\ b * c \in Nat  BY <1>5, <1>6
  <2>4. b * H <= (2 * A) * H
    <3>1. b <= 2 * A /\ 2 * A \in Nat  BY <1>1, <1>3
    <3> QED  BY <2>1, <3>1, TimesMonotone
  <2>5. A * F <= a * F
    <3>1. F \in Nat /\ A \in Nat  BY <1>1, <1>4
    <3> QED  BY <1>3, <3>1, TimesMonotone
  <2>6. (2 * A) * H = A * F
    <3>1. A * (2 * H) = (2 * A) * H  BY <1>1, <1>4
    <3> QED  BY <1>4, <3>1
  <2>7. b * H \in Nat /\ A * F \in Nat /\ a * F \in Nat  BY <1>1, <1>3, <1>4
  <2>8. N = a * F  BY DEF N
  <2>9. N < b * c + b  BY <1>5, <1>6, <2>3
  <2> QED  BY <1>5, <2>2, <2>3, <2>4, <2>5, <2>6, <2>7, <2>8, <2>9
<1>9. c <= E
  <2> SUFFICES ASSUME E + 1 <= c PROVE FALSE  BY <1>4, <1>6
  <2>1. E \in Nat /\ b \in Nat /\ F \in Nat /\ E = 2 * F  BY <1>4, <1>5
  <2>2. A * E <= b * c
    <3>1. E <= c  BY <1>6, <2>1
    <3> QED  BY <1>1, <1>3, <1>6, <2>1, <3>1, TimesMonotone
  <2>3. (a + 1) * F <= (2 * A) * F
    <3>1. a + 1 <= 2 * A /\ 2 * A \in Nat /\ a + 1 \in Nat  BY <1>1, <1>3
    <3> QED  BY <2>1, <3>1, TimesMonotone
  <2>4. (a + 1) * F = a * F + F /\ a * F \in Nat  BY <1>3, <2>1
  <2>5. (2 * A) * F = A * E
    <3>1. A * (2 * F) = (2 * A) * F  BY <1>1, <2>1
    <3> QED  BY <2>1, <3>1
  <2>6. N = a * F  BY DEF N
  <2>7. b * c \in Nat /\ A * E \in Nat  BY <1>1, <1>6, <2>1
  <2> QED  BY <1>4, <1>5, <1>6, <2>1, <2>2, <2>3, <2>4, <2>5, <2>6, <2>7
<1>10. m \in Nat \ {0} /\ m < Q /\ m < V /\ m < W /\ m >= H
  BY <1>4, <1>6, <1>7, <1>8, <1>9
<1>11. bit_len(m) <= Shift + 2 /\ bit_len(m) >= (Shift - 1) + 1 /\ bit_len(m) \in 0 .. Word
  <2>1. m \in Nat /\ m < 2^Word /\ m < 2^(Shift + 2) /\ m >= 2^(Shift - 1)  BY <1>10 DEF W, Q, H
  <2> QED  BY <1>2, <2>1, BitLenBounds, BitLength
<1>12. bit_len(m) >= s + 3
  <2> DEFINE l == bit_len(m)
  <2> HIDE DEF l
  <2>1. l \in Int /\ l >= Shift  BY <1>2, <1>11 DEF l
  <2>2. l >= s + 3  BY <1>1, <1>2, <2>1
  <2> QED  BY <2>2 DEF l
<1> QED  BY <1>5, <1>10, <1>11, <1>12 DEF N, m, b, a, V, W, s, F

\* The quotient with its sticky bit rounds as the exact quotient.
LEMMA QuotientRounds ==
    ASSUME NEW f \in Formats, NEW x, NEW p, Means(f, x, p), NEW y, NEW q, Means(f, y, q),
           NEW sign \in BOOLEAN, NEW rm \in Rms
    PROVE  round_pack(f, sign, Quotient(p.m * 2^Shift, q.m), p.e - q.e - Shift, rm)
             = Rounded(f, sign, rm, Ratio(UnitsOf(f, x) * Scale(f), UnitsOf(f, y)))
<1> DEFINE F == 2^Shift
           a == p.m
           b == q.m
           N == a * F
           m == Quotient(N, b)
           T == Scale(f)
           n == UnitsOf(f, x) * T
           U == UnitsOf(f, x)
           d == UnitsOf(f, y)
           me == min_e(f)
           s == f.sig
           v == bias(f)
           z == - me
           i == p.e
           k == q.e
           e == i - k - Shift
           ua == i - me
           ub == k - me
           g == e - me
           un == ua + z
           l == un - Shift
           B == bit_len(m)
<1>1. /\ N \in Nat /\ b \in Nat \ {0} /\ m \in Nat \ {0} /\ m < 2^(Word - 1)
      /\ B \in 0 .. Word /\ B >= s + 3 /\ B <= Shift + 2
  BY QuotientSize
<1>2. /\ i \in Int /\ ua \in - s .. max_field(f) - 2 /\ Scaled(U, a, ua) /\ U \in Nat \ {0}
      /\ k \in Int /\ ub \in - s .. max_field(f) - 2 /\ Scaled(d, b, ub) /\ d \in Nat \ {0}
      /\ a \in Nat
  BY DEF Means
<1>3. /\ T \in Nat \ {0} /\ z \in 0 .. Reach /\ z = v + s - 1
      /\ \A w \in Int : Scaled(w * T, w, z)
  BY ScaleIs
<1>4. /\ Word \in Nat /\ Reach \in Nat /\ s \in Nat /\ s >= 2 /\ v \in Nat \ {0}
      /\ 3 * (v + s) <= Reach /\ Word + v + s <= Reach /\ me \in Int /\ max_field(f) = 2 * v + 1
  BY WordReach
<1>5. Shift \in Nat /\ 2 * Shift <= Word /\ Shift \in 0 .. Reach
  <2>1. Shift \in Nat /\ 2 * Shift <= Word  BY ShiftRange
  <2> HIDE DEF s, v
  <2> QED  BY <1>4, <2>1
<1>6. /\ e \in Int /\ g \in Exponents /\ B + g <= Reach /\ ua \in Exponents /\ ub \in Exponents
      /\ z \in Exponents /\ un \in Exponents /\ un = z + ua /\ l \in Exponents /\ l = ub + g
      /\ Shift \in Exponents /\ - Shift \in Exponents /\ l = un + (- Shift)
      /\ - ub \in Exponents /\ g = l + (- ub)
  <2>1. /\ i - me >= - s /\ i - me <= 2 * v - 1 /\ k - me >= - s /\ k - me <= 2 * v - 1
        /\ - me = v + s - 1
    BY <1>2, <1>3, <1>4
  <2> HIDE DEF i, k, me, s, v, B
  <2>2. e \in Int /\ e - me = (i - me) - (k - me) - Shift + (- me)
    BY <1>2, <1>4, <1>5
  <2>3. /\ e - me \in - Reach .. Reach /\ i - me \in - Reach .. Reach /\ k - me \in - Reach .. Reach
        /\ - me \in - Reach .. Reach /\ (i - me) + (- me) \in - Reach .. Reach
    BY <1>2, <1>4, <1>5, <2>1, <2>2
  <2>4. /\ (i - me) + (- me) - Shift \in - Reach .. Reach /\ Shift \in - Reach .. Reach
        /\ - Shift \in - Reach .. Reach /\ - (k - me) \in - Reach .. Reach
    BY <1>2, <1>4, <1>5, <2>1, <2>3
  <2>5. /\ (i - me) + (- me) = (- me) + (i - me)
        /\ (i - me) + (- me) - Shift = (k - me) + (e - me)
        /\ (i - me) + (- me) - Shift = ((i - me) + (- me)) + (- Shift)
        /\ e - me = ((i - me) + (- me) - Shift) + (- (k - me))
    BY <1>2, <1>4, <1>5, <2>2
  <2>6. B + (e - me) <= Reach  BY <1>1, <1>2, <1>4, <1>5, <2>1, <2>2
  <2> QED  BY <2>2, <2>3, <2>4, <2>5, <2>6 DEF Exponents
<1>7. F \in Nat \ {0} /\ Scaled(N, a, Shift)
  <2>1. F \in Nat \ {0}  BY <1>5, ReachPowers
  <2>2. Shift >= 0  BY <1>5
  <2> QED  BY <2>1, <2>2 DEF Scaled
<1>8. n \in Nat \ {0} /\ n \in Int /\ N \in Int /\ a \in Int /\ U \in Int /\ d \in Int /\ b \in Int /\ n \in Nat
  BY <1>1, <1>2, <1>3, PositiveProduct
<1>9. Scaled(n, U, z)  BY <1>2, <1>3
<1> HIDE DEF F, a, b, N, m, T, n, U, d, z, ua, ub, g, un, l, e, B
<1>10. Scaled(n, a, un)  BY <1>2, <1>6, <1>8, <1>9, ScaledCompose
<1>11. Scaled(a, N, - Shift)  BY <1>6, <1>7, <1>8, ScaledBack
<1>12. Scaled(n, N, l)  BY <1>6, <1>8, <1>10, <1>11, ScaledCompose
<1>13. ASSUME NEW c \in Nat
       PROVE  /\ c * b < N => LiesBelow(c * d, n, g)
              /\ N < c * b => LiesAbove(c * d, n, g)
              /\ N = c * b => Scaled(n, c * d, g)
  <2> DEFINE w == c * d
             Y == c * b
  <2>1. w \in Int /\ Y \in Int  BY <1>8
  <2>2. Scaled(w, Y, ub)  BY <1>2, <1>6, <1>8, ScaledTimes
  <2> HIDE DEF w, Y
  <2>3. (Y < N => LiesBelow(w, n, g)) /\ (N < Y => LiesAbove(w, n, g))
    BY <1>6, <1>8, <1>12, <2>1, <2>2, ScaledBetween
  <2>4. N = Y => Scaled(n, w, g)
    <3>1. Scaled(Y, w, - ub)  BY <1>6, <2>1, <2>2, ScaledBack
    <3> QED  BY <1>6, <1>8, <1>12, <2>1, <3>1, ScaledCompose
  <2> QED  BY <2>3, <2>4 DEF w, Y
<1>14. \A lost \in BOOLEAN : (lost <=> N % b # 0) => Near(n, d, m, g, lost) /\ (lost => m % 2 = 1)
  <2>1. /\ N % b # 0 => m % 2 = 1 /\ m - 1 \in Nat /\ (m - 1) * b < N /\ N < (m + 1) * b
        /\ N % b = 0 => N = m * b
    BY <1>1, QuotientBetween DEF m
  <2>2. CASE N % b # 0
    <3>1. LiesBelow((m - 1) * d, n, g)  BY <1>13, <2>1, <2>2
    <3>2. LiesAbove((m + 1) * d, n, g)
      <4>1. m + 1 \in Nat  BY <1>1
      <4> QED  BY <1>13, <2>1, <2>2, <4>1
    <3>3. Near(n, d, m, g, TRUE)
      <4>1. d \in Nat  BY <1>2
      <4> QED  BY <1>1, <1>6, <1>8, <3>1, <3>2, <4>1, BetweenNear
    <3> QED  BY <2>1, <2>2, <3>3
  <2>3. CASE N % b = 0
    <3>1. Scaled(n, m * d, g)  BY <1>1, <1>13, <2>1, <2>3
    <3>2. Near(n, d, m, g, FALSE)
      <4>1. d \in Nat /\ m \in Nat  BY <1>1, <1>2
      <4> QED  BY <1>6, <1>8, <3>1, <4>1, ScaledNear
    <3> QED  BY <2>3, <3>2
  <2> QED  BY <2>2, <2>3
<1>15. PICK lost \in BOOLEAN : Near(n, d, m, g, lost) /\ (lost => m % 2 = 1)
  <2>1. (N % b # 0) \in BOOLEAN  OBVIOUS
  <2> QED  BY <1>14, <2>1
<1>16. round_pack(f, sign, m, e, rm) = Rounded(f, sign, rm, Ratio(n, d))
  <2>1. /\ m \in Nat \ {0} /\ m < 2^(Word - 1) /\ e \in Int /\ n \in Nat /\ d \in Nat \ {0}
        /\ g \in Exponents /\ g = e - min_e(f) /\ bit_len(m) + g <= Reach
        /\ (lost => m % 2 = 1 /\ (bit_len(m) >= f.sig + 3 \/ g <= -2))
    BY <1>1, <1>2, <1>6, <1>8, <1>15 DEF g, me, B, s
  <2> QED  BY <1>15, <2>1, RoundRatio
<1> QED  BY <1>16 DEF m, e, n, d, N, F, a, b, T

\* Division rounds the exact quotient once.
LEMMA DivRounds ==
    ASSUME NEW f \in Formats, NEW a \in Int, NEW b \in Int, NEW rm \in Rms
    PROVE  div(f, a, b, rm) = QuotientSpec(f, a, b, rm)
<1> DEFINE p == unpack(f, a)
           q == unpack(f, b)
           sg == Negative(f, a) # Negative(f, b)
           U == UnitsOf(f, a)
           V == UnitsOf(f, b)
           T == Scale(f)
           n == U * T
           N == WithSignOf(sg, n)
<1>1. div(f, a, b, rm) = DivUnpacked(f, p, q, sg, rm)  BY DEF div
<1>2. Unpacks(f, a, p) /\ Unpacks(f, b, q)  BY UnpackIs
<1>3. ProductSign(f, a, b) = sg  BY DEF ProductSign
<1>4. sg \in BOOLEAN  OBVIOUS
<1>5. T \in Nat \ {0}  BY ScaleIs
<1>6. QuotientSpec(f, a, b, rm) =
        IF IsNan(f, a) \/ IsNan(f, b) THEN Nan(f, {a, b})
        ELSE IF (IsInf(f, a) /\ IsInf(f, b)) \/ (IsZero(f, a) /\ IsZero(f, b)) THEN Invalid(f)
        ELSE IF IsInf(f, a) THEN Exact(inf(f, sg))
        ELSE IF IsInf(f, b) THEN Exact(zero(f, sg))
        ELSE IF IsZero(f, b) THEN [v |-> inf(f, sg), flags |-> {"DZ"}]
        ELSE RoundedRatio(f, N, V, sg, rm)
  BY <1>3 DEF QuotientSpec
<1>7. N = IF sg THEN - n ELSE n  BY DEF WithSignOf
<1>8. invalid(f) = Invalid(f)  BY DEF invalid, Invalid
<1> HIDE DEF p, q, sg, U, V, T, N
<1>9. CASE is_nan(p) \/ is_nan(q)
  <2>1. DivUnpacked(f, p, q, sg, rm) = nan_result(f, {p, q})  BY <1>9 DEF DivUnpacked
  <2>2. nan_result(f, {p, q}) = Nan(f, {a, b})  BY <1>2, NanIs DEF Unpacks
  <2>3. IsNan(f, a) \/ IsNan(f, b)  BY <1>2, <1>9 DEF Unpacks
  <2> QED  BY <1>1, <1>6, <2>1, <2>2, <2>3
<1>10. CASE ~ (is_nan(p) \/ is_nan(q))
  <2>1. /\ ~ (IsNan(f, a) \/ IsNan(f, b)) /\ (is_inf(p) <=> IsInf(f, a)) /\ (is_inf(q) <=> IsInf(f, b))
        /\ (is_zero(p) <=> IsZero(f, a)) /\ (is_zero(q) <=> IsZero(f, b))
    BY <1>2, <1>10 DEF Unpacks
  <2>2. DivUnpacked(f, p, q, sg, rm) =
          IF (is_inf(p) /\ is_inf(q)) \/ (is_zero(p) /\ is_zero(q)) THEN invalid(f)
          ELSE IF is_inf(p) THEN Exact(inf(f, sg))
          ELSE IF is_inf(q) THEN Exact(zero(f, sg))
          ELSE IF is_zero(q) THEN [v |-> inf(f, sg), flags |-> {"DZ"}]
          ELSE IF is_zero(p) THEN Exact(zero(f, sg))
          ELSE round_pack(f, sg, Quotient(p.m * 2^Shift, q.m), p.e - q.e - Shift, rm)
    BY <1>10 DEF DivUnpacked
  <2>3. CASE is_inf(p) \/ is_inf(q) \/ is_zero(q)
    BY <1>1, <1>6, <1>8, <2>1, <2>2, <2>3
  <2>4. CASE ~ (is_inf(p) \/ is_inf(q) \/ is_zero(q)) /\ is_zero(p)
    <3>1. U = 0  BY <1>2, <2>4 DEF Unpacks, U
    <3>2. N = 0
      <4>1. n = 0  BY <1>5, <3>1
      <4> HIDE DEF n
      <4>2. - n = 0
        <5>1. \A x \in Int : \A y \in Int : x + y = 0 => y = - x  OBVIOUS
        <5>2. n \in Int /\ n + n = 0  BY <4>1
        <5>3. n = - n  BY <5>1, <5>2
        <5> QED  BY <4>1, <5>3
      <4> QED  BY <1>7, <4>1, <4>2
    <3>3. RoundedRatio(f, 0, V, sg, rm) = Exact(zero(f, sg))  BY DEF RoundedRatio
    <3> QED  BY <1>1, <1>6, <2>1, <2>2, <2>4, <3>2, <3>3
  <2>5. CASE ~ (is_inf(p) \/ is_inf(q) \/ is_zero(q)) /\ ~ is_zero(p)
    <3>1. Means(f, a, p) /\ Means(f, b, q)  BY <1>2, <1>10, <2>5 DEF Unpacks
    <3>2. U \in Nat \ {0} /\ V \in Nat \ {0}  BY <3>1 DEF Means, U, V
    <3>3. n \in Nat \ {0}  BY <1>5, <3>2, PositiveProduct
    <3>4. \A s \in BOOLEAN :
            round_pack(f, s, Quotient(p.m * 2^Shift, q.m), p.e - q.e - Shift, rm)
              = Rounded(f, s, rm, Ratio(n, V))
      BY <3>1, QuotientRounds DEF U, V, T
    <3> HIDE DEF n
    <3>5. ASSUME NEW s \in BOOLEAN
          PROVE  RoundedRatio(f, IF s THEN - n ELSE n, V, sg, rm) = Rounded(f, s, rm, Ratio(n, V))
      BY <3>3, RatioSign
    <3> QED  BY <1>1, <1>4, <1>6, <1>7, <2>1, <2>2, <2>5, <3>4, <3>5
  <2> QED  BY <2>3, <2>4, <2>5
<1> QED  BY <1>9, <1>10

-----------------------------------------------------------------------------
(* Square root *)

\* The mean of two numbers is no smaller than the root of their product.
LEMMA MeanAboveRoot ==
    ASSUME NEW x \in Nat, NEW y \in Nat
    PROVE  4 * (x * y) <= (x + y) * (x + y)
<1> DEFINE d == x - y
<1>1. d * d >= 0
  <2>1. CASE d >= 0  BY <2>1
  <2>2. CASE ~ (d >= 0)
    <3> DEFINE c == - d
    <3>1. c \in Nat /\ c * c \in Nat  BY <2>2
    <3>2. d * d = c * c  OBVIOUS
    <3> QED  BY <3>1, <3>2
  <2> QED  BY <2>1, <2>2
<1>2. (x + y) * (x + y) = x * x + 2 * (x * y) + y * y  OBVIOUS
<1>3. d * d = x * x - 2 * (x * y) + y * y  OBVIOUS
<1>4. x * x \in Int /\ x * y \in Int /\ y * y \in Int  OBVIOUS
<1> DEFINE X == x * x
           Y == y * y
           Z == x * y
           M == (x + y) * (x + y)
           E == d * d
<1>5. E >= 0 /\ M = X + 2 * Z + Y /\ E = X - 2 * Z + Y /\ X \in Int /\ Y \in Int /\ Z \in Int
  BY <1>1, <1>2, <1>3, <1>4
<1> HIDE DEF X, Y, Z, M, E
<1>6. 4 * Z <= M  BY <1>5
<1> QED  BY <1>6 DEF Z, M

\* A step of the iteration stays above the root, and stops below it.
LEMMA NewtonStep ==
    ASSUME NEW n \in Nat \ {0}, NEW x \in Nat \ {0}
    PROVE  LET y == (x + n \div x) \div 2
           IN  /\ n < (y + 1) * (y + 1)
               /\ y >= x => x * x <= n
<1> DEFINE d == n \div x
           y == (x + d) \div 2
           c == d + 1
<1>1. d \in Nat /\ n = x * d + (n % x) /\ n % x \in 0 .. x - 1  OBVIOUS
<1> HIDE DEF d
<1>2. y \in Nat /\ x + c <= 2 * (y + 1) /\ 2 * y <= x + d /\ c \in Nat  BY <1>1
<1>3. n < (y + 1) * (y + 1)
  <2> HIDE DEF y
  <2>1. n < x * c
    <3>1. x * c = x * d + x /\ x * d \in Int  BY <1>1
    <3> QED  BY <1>1, <3>1
  <2>2. 4 * (x * c) <= (x + c) * (x + c)  BY <1>2, MeanAboveRoot
  <2> HIDE DEF c
  <2> DEFINE s == x + c
             r == 2 * (y + 1)
             q == (y + 1) * (y + 1)
             p == x * c
  <2>3. s * s <= r * r
    <3>1. s \in Nat /\ r \in Nat /\ s <= r  BY <1>2
    <3> HIDE DEF s, r
    <3> QED  BY <3>1, TimesMonotone
  <2>4. r * r = 4 * q  BY <1>2
  <2>5. p \in Int /\ q \in Int /\ s * s \in Int  BY <1>2
  <2>6. n < p /\ 4 * p <= s * s  BY <2>1, <2>2
  <2> HIDE DEF s, r, q, p
  <2>7. n < q  BY <2>3, <2>4, <2>5, <2>6
  <2> QED  BY <2>7 DEF q
<1>4. y >= x => x * x <= n
  <2> SUFFICES ASSUME y >= x PROVE x * x <= n  OBVIOUS
  <2> HIDE DEF y
  <2>1. x <= d  BY <1>1, <1>2
  <2>2. x * x <= x * d  BY <1>1, <2>1, TimesMonotone
  <2>3. x * x \in Int /\ x * d \in Int  BY <1>1
  <2> QED  BY <1>1, <2>2, <2>3
<1> QED  BY <1>3, <1>4 DEF d

\* From an overestimate the iteration ends at the root.
LEMMA NewtonRoot ==
    ASSUME NEW n \in Nat \ {0}, NEW T \in Nat \ {0}, T = 2^((bit_len(n) + 1) \div 2),
           n < (T + 1) * (T + 1)
    PROVE  LET r == Newton(n) IN r \in Nat \ {0} /\ r * r <= n /\ n < (r + 1) * (r + 1)
<1> DEFINE nx(x) == (x + n \div x) \div 2
           Over(x) == n < (x + 1) * (x + 1)
           Done(r) == r \in Nat \ {0} /\ r * r <= n /\ Over(r)
<1>1. PICK from : /\ Newton(n) = from[T]
                  /\ \A x \in 1 .. T : from[x] = IF nx(x) >= x THEN x ELSE from[nx(x)]
  BY NewtonUnfolds
<1>2. ASSUME NEW x \in Nat \ {0} PROVE ~ (nx(x) >= x) => nx(x) \in 1 .. x - 1
  BY NewtonFalls
<1>3. ASSUME NEW x \in Nat \ {0} PROVE Over(nx(x)) /\ (nx(x) >= x => x * x <= n)
  BY NewtonStep
<1> HIDE DEF nx, Over
<1> DEFINE Y == {k \in 0 .. T : \A x \in 1 .. k : Over(x) => Done(from[x])}
<1>4. 0 \in Y  OBVIOUS
<1>5. ASSUME NEW k \in 0 .. T - 1, k \in Y PROVE k + 1 \in Y
  <2>1. k + 1 \in 0 .. T /\ k + 1 \in 1 .. T /\ k + 1 \in Nat \ {0} /\ (k + 1) - 1 = k  OBVIOUS
  <2> DEFINE x == k + 1
             y == nx(x)
  <2>2. from[x] = IF y >= x THEN x ELSE from[y]  BY <1>1, <2>1
  <2>3. ~ (y >= x) => y \in 1 .. k  BY <1>2, <2>1
  <2>4. \A z \in 1 .. k : Over(z) => Done(from[z])  BY <1>5
  <2>5. Over(y) /\ (y >= x => x * x <= n) /\ x \in Nat \ {0}  BY <1>3, <2>1
  <2> HIDE DEF y, x
  <2>6. Over(x) => Done(from[x])
    <3> SUFFICES ASSUME Over(x) PROVE Done(from[x])  OBVIOUS
    <3>1. CASE y >= x  BY <2>2, <2>5, <3>1
    <3>2. CASE ~ (y >= x)  BY <2>2, <2>3, <2>4, <2>5, <3>2
    <3> QED  BY <3>1, <3>2
  <2>7. \A z \in 1 .. k + 1 : z \in 1 .. k \/ z = k + 1  OBVIOUS
  <2> HIDE DEF Done
  <2>8. \A z \in 1 .. k + 1 : Over(z) => Done(from[z])  BY <2>4, <2>6, <2>7 DEF x
  <2> QED  BY <2>1, <2>8
<1>6. \A k \in 0 .. T : k \in Y
  <2> HIDE DEF Y
  <2> QED  BY <1>4, <1>5, Counting
<1>7. T \in Y  BY <1>6
<1>8. T \in 1 .. T /\ Over(T)  BY DEF Over
<1>9. Done(from[T])
  <2> HIDE DEF Done
  <2> QED  BY <1>7, <1>8
<1> QED  BY <1>1, <1>9 DEF Over

\* The integer square root is one.
LEMMA IsqrtIs ==
    ASSUME NEW n \in Nat \ {0}, n < 2^Word
    PROVE  LET r == isqrt(n) IN r \in Nat \ {0} /\ r * r <= n /\ n < (r + 1) * (r + 1)
<1> DEFINE b == bit_len(n)
           k == (b + 1) \div 2
           B == 2^b
           T == 2^k
<1>1. b \in 0 .. Word /\ n < B /\ Word \in Nat  BY BitLength, FpuAssumption
<1> HIDE DEF b
<1>2. b >= 1
  <2> SUFFICES ASSUME b = 0 PROVE FALSE  BY <1>1
  <2>1. B = 1  BY PowerAssumption
  <2> HIDE DEF B
  <2> QED  BY <1>1, <2>1
<1>3. k \in 0 .. Word /\ (b = k + k \/ b + 1 = k + k)  BY <1>1, <1>2
<1>4. B \in Nat \ {0} /\ T \in Nat \ {0} /\ 2^(k + k) = T * T /\ 2^(b + 1) = B * 2
  <2>1. 1 \in 0 .. Word  BY <1>1, <1>2
  <2>2. 2^1 = 2  BY PowerAssumption
  <2>3. 2^(b + 1) = B * 2^1 /\ B \in Nat \ {0}  BY <1>1, <2>1, PowerAssumption
  <2> HIDE DEF k
  <2>4. T \in Nat \ {0} /\ 2^(k + k) = T * T  BY <1>3, PowerAssumption
  <2> QED  BY <2>2, <2>3, <2>4
<1>5. T * T \in Int /\ (T * T = B \/ T * T = B * 2)  BY <1>3, <1>4
<1>6. T = 2^((bit_len(n) + 1) \div 2)  BY DEF b
<1> HIDE DEF B, T, k
<1>7. n < (T + 1) * (T + 1)
  <2>1. (T + 1) * (T + 1) = T * T + 2 * T + 1  BY <1>4
  <2>2. n < T * T  BY <1>1, <1>4, <1>5
  <2> QED  BY <1>4, <1>5, <2>1, <2>2
<1>8. isqrt(n) = Newton(n)  BY DEF isqrt
<1> QED  BY <1>4, <1>6, <1>7, <1>8, NewtonRoot

\* With its sticky bit it is between its neighbours.
LEMMA RootBetween ==
    ASSUME NEW R \in Nat \ {0}, R < 2^Word
    PROVE  \E lost \in BOOLEAN :
             LET m == Root(R)
             IN  /\ m \in Nat \ {0}
                 /\ lost => /\ m % 2 = 1 /\ m - 1 \in Nat
                            /\ (m - 1) * (m - 1) < R /\ R < (m + 1) * (m + 1)
                 /\ ~ lost => R = m * m
<1> DEFINE r == isqrt(R)
           m == Root(R)
<1>1. r \in Nat \ {0} /\ r * r <= R /\ R < (r + 1) * (r + 1)  BY IsqrtIs
<1>2. PICK lost \in BOOLEAN : lost <=> r * r # R  OBVIOUS
<1>3. m = Sticky(r, lost)  BY <1>2 DEF Root
<1> HIDE DEF r, m
<1>4. /\ m \in Nat /\ m >= r /\ m <= r + 1
      /\ lost => m % 2 = 1 /\ m - 1 <= r /\ m - 1 \in Nat
      /\ ~ lost => m = r
  BY <1>1, <1>3, StickyBetween
<1>5. r * r \in Int /\ (r + 1) * (r + 1) \in Int /\ m \in Nat \ {0}  BY <1>1, <1>4
<1>6. CASE lost
  <2> DEFINE u == m - 1
             v == m + 1
             w == r + 1
  <2>1. u \in Nat /\ u <= r /\ v \in Nat /\ w \in Nat /\ w <= v  BY <1>1, <1>4, <1>6
  <2> HIDE DEF u, v, w
  <2>2. u * u <= r * r /\ w * w <= v * v  BY <1>1, <2>1, TimesMonotone
  <2>3. u * u \in Int /\ v * v \in Int /\ w * w \in Int  BY <2>1
  <2>4. r * r < R  BY <1>1, <1>2, <1>5, <1>6
  <2>5. u * u < R  BY <1>5, <2>2, <2>3, <2>4
  <2>6. R < v * v
    <3>1. R < w * w  BY <1>1 DEF w
    <3> QED  BY <2>2, <2>3, <3>1
  <2> QED  BY <1>4, <1>5, <1>6, <2>5, <2>6 DEF u, v, m
<1>7. CASE ~ lost
  <2>1. R = m * m  BY <1>1, <1>2, <1>4, <1>7
  <2> QED  BY <1>5, <1>7, <2>1 DEF m
<1> QED  BY <1>6, <1>7

\* How a root compares with half-units.
LEMMA RootOrder ==
    ASSUME NEW n \in Nat, NEW h \in Nat
    PROVE  Compare(SquareRoot(n), h) = Sgn(4 * n - h * h)
<1> DEFINE x == SquareRoot(n)
<1>1. x.n = n /\ x.d = 0  BY DEF SquareRoot
<1>2. Compare(x, h) = IF x.d > 0 THEN Order((2 * x.n) \div x.d, h, (2 * x.n) % x.d # 0)
        ELSE IF h = 0 THEN Order(x.n, 0, FALSE)
        ELSE Order((4 * x.n) \div h, h, (4 * x.n) % h # 0)
  BY DEF Compare
<1> HIDE DEF x
<1>3. Compare(x, h) = IF h = 0 THEN Order(n, 0, FALSE)
                      ELSE Order((4 * n) \div h, h, (4 * n) % h # 0)
  BY <1>1, <1>2
<1>4. CASE h = 0
  <2>1. Compare(x, h) = Order(n, 0, FALSE)  BY <1>3, <1>4
  <2>2. h * h = 0  BY <1>4
  <2>3. 4 * n - h * h = 4 * n  BY <2>2
  <2>4. Order(n, 0, FALSE) = Sgn(4 * n)  BY DEF Order, Sgn
  <2> QED  BY <2>1, <2>3, <2>4 DEF x
<1>5. CASE h # 0
  <2> DEFINE k == 2 * n
             y == Ratio(k, h)
  <2>1. k \in Nat /\ h \in Nat \ {0} /\ 2 * k = 4 * n  BY <1>5
  <2>2. y.n = k /\ y.d = h  BY DEF Ratio
  <2>3. Compare(y, h) = IF y.d > 0 THEN Order((2 * y.n) \div y.d, h, (2 * y.n) % y.d # 0)
          ELSE IF h = 0 THEN Order(y.n, 0, FALSE)
          ELSE Order((4 * y.n) \div h, h, (4 * y.n) % h # 0)
    BY DEF Compare
  <2>4. Compare(y, h) = Sgn(2 * k - h * h)
    <3> HIDE DEF k
    <3> QED  BY <2>1, RatioOrder
  <2> HIDE DEF y, k
  <2>5. Compare(y, h) = Order((4 * n) \div h, h, (4 * n) % h # 0)
    <3>1. y.d > 0  BY <2>1, <2>2
    <3> QED  BY <2>1, <2>2, <2>3, <3>1
  <2> QED  BY <1>3, <1>5, <2>1, <2>4, <2>5 DEF x
<1> QED  BY <1>4, <1>5

\* A root has its place on the scale.
LEMMA RootSorted == ASSUME NEW n \in Nat PROVE Sorted(SquareRoot(n))
<1> DEFINE x == SquareRoot(n)
<1>1. \A h \in Nat : Compare(x, h) = Sgn(4 * n - h * h)  BY RootOrder
<1> HIDE DEF x
<1>2. ASSUME NEW h \in Nat, NEW i \in Nat, h <= i, Compare(x, i) >= 0 PROVE Compare(x, h) >= 0
  <2> DEFINE H == h * h
             I == i * i
  <2>1. H <= I /\ H \in Nat /\ I \in Nat  BY <1>2, TimesMonotone
  <2>2. Sgn(4 * n - I) >= 0 /\ Compare(x, h) = Sgn(4 * n - H)  BY <1>1, <1>2
  <2> HIDE DEF H, I
  <2>3. 4 * n - I >= 0  BY <2>1, <2>2 DEF Sgn
  <2>4. 4 * n - H >= 0  BY <2>1, <2>3
  <2>5. Sgn(4 * n - H) >= 0  BY <2>1, <2>4 DEF Sgn
  <2> QED  BY <2>2, <2>5
<1>3. \A h \in Nat : Compare(x, h) \in {-1, 0, 1}  BY <1>1, SgnRange
<1> QED  BY <1>2, <1>3 DEF Sorted, x

\* Twice a scale, once for each factor of a square.
LEMMA SquareScaled ==
    ASSUME NEW n \in Int, NEW R \in Int, NEW g \in Exponents, NEW w \in Exponents, w = g + g,
           Scaled(n, R, w), NEW j \in 0 .. Reach, NEW t \in 0 .. Reach, j - t = g
    PROVE  (n * 2^t) * 2^t = (R * 2^j) * 2^j
<1> DEFINE T == 2^t
           P == 2^j
<1>0. g \in Int /\ Reach \in Nat  BY ReachNat DEF Exponents
<1>1. T \in Nat \ {0} /\ P \in Nat \ {0}  BY ReachPowers
<1>2. CASE g >= 0
  <2> DEFINE Q4 == 2^g
  <2>1. g \in 0 .. Reach /\ j = g + t /\ w \in 0 .. Reach /\ w >= 0  BY <1>0, <1>2 DEF Exponents
  <2>2. Q4 \in Nat \ {0} /\ P = Q4 * T /\ 2^w = Q4 * Q4  BY <2>1, ReachPowers
  <2>3. n = R * (Q4 * Q4)  BY <2>1, <2>2 DEF Scaled
  <2> HIDE DEF T, P, Q4
  <2>4. ((R * (Q4 * Q4)) * T) * T = (R * (Q4 * T)) * (Q4 * T)  BY <1>1, <2>2
  <2>5. (n * T) * T = (R * P) * P  BY <2>2, <2>3, <2>4
  <2> QED  BY <2>5 DEF T, P
<1>3. CASE ~ (g >= 0)
  <2> DEFINE c == - g
             Q4 == 2^c
  <2>1. c \in 0 .. Reach /\ t = c + j /\ c + c \in 0 .. Reach /\ ~ (w >= 0) /\ - w = c + c
    BY <1>0, <1>3 DEF Exponents
  <2>2. Q4 \in Nat \ {0} /\ T = Q4 * P /\ 2^(c + c) = Q4 * Q4
    <3> HIDE DEF c
    <3> QED  BY <2>1, ReachPowers
  <2>3. n * (Q4 * Q4) = R
    <3>1. n * 2^(- w) = R  BY <2>1 DEF Scaled
    <3> QED  BY <2>1, <2>2, <3>1
  <2> HIDE DEF T, P, Q4
  <2>4. (n * (Q4 * P)) * (Q4 * P) = ((n * (Q4 * Q4)) * P) * P  BY <1>1, <2>2
  <2>5. (n * T) * T = (R * P) * P  BY <2>2, <2>3, <2>4
  <2> QED  BY <2>5 DEF T, P
<1> QED  BY <1>2, <1>3

\* A word near a root tells of it.
LEMMA RootStands ==
    ASSUME NEW n \in Nat, NEW R \in Nat, NEW m \in Nat \ {0}, NEW lost \in BOOLEAN,
           NEW j \in 0 .. Reach, NEW t \in 0 .. Reach,
           (n * 2^t) * 2^t = (R * 2^j) * 2^j,
           lost => /\ m % 2 = 1 /\ m - 1 \in Nat
                   /\ (m - 1) * (m - 1) < R /\ R < (m + 1) * (m + 1),
           ~ lost => R = m * m
    PROVE  Stands(SquareRoot(n), m, j, t, lost)
<1> DEFINE T == 2^t
           P == 2^j
<1>1. T \in Nat \ {0} /\ P \in Nat \ {0} /\ (n * T) * T = (R * P) * P  BY ReachPowers
<1>2. SUFFICES ASSUME NEW c \in Nat, NEW h \in Nat, h * T = 2 * (c * P), lost => c % 2 = 0
               PROVE  Compare(SquareRoot(n), h) = Sgn(m - c)
  BY DEF Stands
<1> HIDE DEF T, P
<1>3. Compare(SquareRoot(n), h) = Sgn(4 * n - h * h)  BY RootOrder
<1> DEFINE x == 4 * n - h * h
           y == R - c * c
           Q == T * T
           O == P * P
           K == 4 * O
<1>4. x \in Int /\ y \in Int  OBVIOUS
<1>5. Q \in Nat \ {0} /\ O \in Nat \ {0}  BY <1>1, PositiveProduct
<1>6. K \in Nat \ {0}
  <2> HIDE DEF O
  <2> QED  BY <1>5
<1>7. x * Q = y * K
  <2> DEFINE u == h * T
             v == c * P
  <2>1. u * u = (2 * v) * (2 * v)  BY <1>2
  <2>2. (2 * v) * (2 * v) = 4 * ((c * c) * O)  BY <1>1
  <2>3. u * u = (h * h) * Q  BY <1>1
  <2>4. (n * T) * T = n * Q /\ (R * P) * P = R * O  BY <1>1
  <2> DEFINE C == c * c
             H == h * h
  <2>5. H * Q = 4 * (C * O) /\ n * Q = R * O  BY <1>1, <2>1, <2>2, <2>3, <2>4
  <2>6. C \in Int /\ H \in Int  OBVIOUS
  <2> HIDE DEF C, H, Q, O, u, v
  <2>7. (4 * n - H) * Q = 4 * (n * Q) - H * Q  BY <1>5, <2>6
  <2>8. (R - C) * (4 * O) = 4 * (R * O) - 4 * (C * O)  BY <1>5, <2>6
  <2>9. (4 * n - H) * Q = (R - C) * (4 * O)  BY <2>5, <2>7, <2>8
  <2> QED  BY <2>9 DEF C, H
<1>8. Sgn(x) = Sgn(y)
  <2> HIDE DEF x, y, Q, K
  <2>1. Sgn(x * Q) = Sgn(x) /\ Sgn(y * K) = Sgn(y)  BY <1>4, <1>5, <1>6, SgnTimes
  <2> QED  BY <1>7, <2>1
<1>9. Sgn(y) = Sgn(m - c)
  <2> DEFINE C == c * c
  <2>1. C \in Int /\ y = R - C  OBVIOUS
  <2>2. CASE ~ lost
    <3> DEFINE k == m + c
               z == m - c
    <3>1. k \in Nat \ {0} /\ z \in Int  OBVIOUS
    <3>2. y = z * k
      <4>1. (m - c) * (m + c) = m * m - c * c  OBVIOUS
      <4> QED  BY <2>2, <4>1
    <3> HIDE DEF k, z, y
    <3>3. Sgn(z * k) = Sgn(z)  BY <3>1, SgnTimes
    <3> QED  BY <3>2, <3>3 DEF z
  <2>3. CASE lost
    <3> DEFINE a == m - 1
               b == m + 1
    <3>1. /\ m % 2 = 1 /\ c % 2 = 0 /\ a \in Nat /\ b \in Nat
          /\ a * a < R /\ R < b * b /\ a * a \in Int /\ b * b \in Int
      BY <1>2, <2>3
    <3>2. CASE c < m
      <4>1. c <= a  BY <3>2
      <4> HIDE DEF a, b
      <4>2. C <= a * a  BY <3>1, <4>1, TimesMonotone
      <4> HIDE DEF C, y
      <4>3. y > 0  BY <2>1, <3>1, <4>2
      <4> QED  BY <3>2, <4>3 DEF Sgn
    <3>3. CASE c > m
      <4>1. b <= c  BY <3>3
      <4> HIDE DEF a, b
      <4>2. b * b <= C  BY <3>1, <4>1, TimesMonotone
      <4> HIDE DEF C, y
      <4>3. y < 0  BY <2>1, <3>1, <4>2
      <4>4. ~ (y > 0) /\ y # 0 /\ ~ (m - c > 0) /\ m - c # 0  BY <2>1, <3>3, <4>3
      <4> QED  BY <4>4 DEF Sgn
    <3>4. c # m  BY <3>1
    <3> QED  BY <3>2, <3>3, <3>4
  <2> QED  BY <2>2, <2>3
<1> QED  BY <1>3, <1>8, <1>9

\* A root with its sticky bit deep enough rounds to the exact root.
LEMMA RoundRoot ==
    ASSUME NEW f \in Formats, NEW sign \in BOOLEAN, NEW rm \in Rms,
           NEW m \in Nat \ {0}, m < 2^Word, NEW e \in Int, NEW n \in Nat, NEW R \in Nat,
           NEW g \in Exponents, g = e - min_e(f), NEW w \in Exponents, w = g + g, Scaled(n, R, w),
           bit_len(m) >= f.sig + 3, bit_len(m) + g <= Reach, - g <= Word - 1,
           NEW lost \in BOOLEAN,
           lost => /\ m % 2 = 1 /\ m - 1 \in Nat
                   /\ (m - 1) * (m - 1) < R /\ R < (m + 1) * (m + 1),
           ~ lost => R = m * m
    PROVE  round_pack(f, sign, m, e, rm) = Rounded(f, sign, rm, SquareRoot(n))
<1> DEFINE L == Lsb(f, m, e)
           b == bit_len(m)
           j == L - min_e(f)
           t == L - e
           x == SquareRoot(n)
           s == f.sig
           me == min_e(f)
<1>0. /\ Word \in Nat /\ Reach \in Nat /\ s \in Nat /\ s >= 2 /\ Word + s + 1 <= Reach /\ me \in Int
  BY WordReach
<1>1. /\ L \in Int /\ L - me \in Nat /\ b \in 1 .. Word /\ L - e >= b - 1 - s
      /\ (L - me > 0 => L - e = b - 1 - s)
  BY LsbIs
<1>2. b >= s + 3 /\ b + g <= Reach /\ g = e - me  OBVIOUS
<1>3. g \in Int /\ - Reach <= g /\ g <= Reach  BY <1>0 DEF Exponents
<1> HIDE DEF L, b, s, me
<1>4. (L - me) - (L - e) = g /\ L - e \in Int /\ L - e >= 2  BY <1>0, <1>1, <1>2
<1>5. L - me + 1 <= Reach /\ L - e <= Word - 1
  <2>1. CASE L - me = 0  BY <1>0, <1>1, <1>2, <1>3, <2>1
  <2>2. CASE L - me > 0  BY <1>0, <1>1, <1>2, <1>3, <2>2
  <2> QED  BY <1>1, <2>1, <2>2
<1>6. j \in 0 .. Reach /\ t \in 0 .. Reach /\ j - t = g /\ t >= 2 /\ ~ (t <= 0) /\ ~ (t >= Word)
  BY <1>0, <1>1, <1>4, <1>5 DEF me
<1> HIDE DEF j, t
<1>7. (n * 2^t) * 2^t = (R * 2^j) * 2^j  BY <1>6, SquareScaled
<1>8. Stands(x, m, j, t, lost)  BY <1>6, <1>7, RootStands
<1>9. Sorted(x)  BY RootSorted
<1> HIDE DEF x
<1>10. Tells(x, m, j, t)  BY <1>6, <1>8 DEF Tells
<1> QED  BY <1>5, <1>9, <1>10, RoundPackIs DEF x, j, t, L, me

\* The shift that makes the exponent even.
LEMMA EvenShiftIs ==
    ASSUME NEW i \in Int
    PROVE  LET k == EvenShift(i)
               e == (i - k) \div 2
           IN  k \in {Shift, Shift + 1} /\ e \in Int /\ e + e = i - k
<1> DEFINE h == Shift
           k == EvenShift(i)
<1>1. h \in Nat  BY ShiftRange
<1>2. k = IF (i - h) % 2 = 0 THEN h ELSE h + 1  BY DEF EvenShift
<1> HIDE DEF h, k
<1>3. CASE (i - h) % 2 = 0
  <2>1. k = h  BY <1>2, <1>3
  <2>2. (i - h) \div 2 \in Int /\ (i - h) \div 2 + (i - h) \div 2 = i - h  BY <1>1, <1>3
  <2> QED  BY <2>1, <2>2 DEF h, k
<1>4. CASE ~ ((i - h) % 2 = 0)
  <2>1. k = h + 1  BY <1>2, <1>4
  <2>2. (i - (h + 1)) % 2 = 0  BY <1>1, <1>4
  <2>3. (i - (h + 1)) \div 2 \in Int
        /\ (i - (h + 1)) \div 2 + (i - (h + 1)) \div 2 = i - (h + 1)
    BY <1>1, <2>2
  <2> QED  BY <2>1, <2>3 DEF h, k
<1> QED  BY <1>3, <1>4

\* The root's size: a full significand, half a word and perhaps one up.
LEMMA RootSize ==
    ASSUME NEW f \in Formats, NEW x, NEW p, Means(f, x, p), NEW k \in {Shift, Shift + 1}
    PROVE  LET R == p.m * 2^k
               m == Root(R)
           IN  /\ R \in Nat \ {0} /\ R < 2^Word /\ m \in Nat \ {0} /\ m < 2^Word
               /\ bit_len(m) >= f.sig + 3 /\ bit_len(m) <= Shift
<1> DEFINE s == f.sig
           A == 2^s
           F == 2^Shift
           H == 2^(Shift - 1)
           K == 2^(s + 2)
           J == 2^(s + 3)
           W == 2^Word
           E == 2^k
           a == p.m
           R == a * E
           m == Root(R)
<1>1. s \in Nat /\ s >= 2 /\ s + 4 <= Shift  BY ShiftDeep
<1>2. /\ Word \in Nat /\ Shift \in Nat /\ 2 * Shift <= Word /\ Shift \in 0 .. Word
      /\ Shift - 1 \in 0 .. Word /\ Shift + 1 \in 0 .. Word
  BY ShiftRange
<1>3. a \in Nat /\ a >= A /\ a < 2 * A  BY DEF Means
<1> HIDE DEF a, s
<1>4. /\ A \in Nat \ {0} /\ K = 4 * A /\ J = 8 * A /\ J <= H /\ H \in Nat \ {0} /\ F = 2 * H
      /\ 2^(Shift + 1) = 2 * F /\ F * F <= W /\ W \in Nat
  <2>0. ASSUME NEW u \in 0 .. Word, NEW w \in 0 .. Word, w = u + 1 PROVE 2^w = 2 * 2^u
    <3>1. u < Word  BY <1>2, <2>0
    <3> QED  BY <2>0, <3>1, WordPowerNext
  <2>1. s \in 0 .. Word /\ s + 1 \in 0 .. Word /\ s + 2 \in 0 .. Word /\ s + 3 \in 0 .. Word
    BY <1>1, <1>2
  <2>2. 2^(s + 1) = 2 * A  BY <2>0, <2>1
  <2>3. K = 2 * 2^(s + 1)
    <3>1. s + 2 = (s + 1) + 1  BY <1>1
    <3> QED  BY <2>0, <2>1, <3>1
  <2>4. J = 2 * K
    <3>1. s + 3 = (s + 2) + 1  BY <1>1
    <3> QED  BY <2>0, <2>1, <3>1
  <2>5. F = 2 * H
    <3>1. Shift = (Shift - 1) + 1  BY <1>2
    <3> QED  BY <1>2, <2>0, <3>1
  <2>6. 2^(Shift + 1) = 2 * F
    <3>1. Shift + 1 = Shift + 1  OBVIOUS
    <3> QED  BY <1>2, <2>0, <3>1
  <2>7. A \in Nat \ {0} /\ H \in Nat \ {0} /\ W \in Nat \ {0}
    <3>1. Word \in 0 .. Word  BY <1>2
    <3> QED  BY <1>2, <2>1, <3>1, WordPowerType
  <2>8. J <= H
    <3>1. s + 3 <= Shift - 1  BY <1>1, <1>2
    <3> QED  BY <1>2, <2>1, <3>1, PowerMonotone
  <2>9. F * F <= W
    <3> DEFINE d == Shift + Shift
    <3>1. d \in 0 .. Word /\ Word \in 0 .. Word /\ d <= Word  BY <1>2
    <3>2. 2^d = F * F  BY <1>2, <3>1, WordPowerSum
    <3>3. 2^d <= W
      <4> HIDE DEF d
      <4> QED  BY <3>1, PowerMonotone
    <3> QED  BY <3>2, <3>3
  <2> DEFINE Q4 == 2^(s + 1)
  <2>10. Q4 = 2 * A /\ K = 2 * Q4  BY <2>2, <2>3
  <2> HIDE DEF A, F, H, K, J, W, Q4
  <2>11. K = 4 * A  BY <2>7, <2>10
  <2>12. J = 8 * A  BY <2>4, <2>7, <2>11
  <2> QED  BY <2>5, <2>6, <2>7, <2>8, <2>9, <2>11, <2>12
<1>5. E = F \/ E = 2 * F  BY <1>4
<1> HIDE DEF A, F, H, K, J, W, E
<1>6. F \in Nat \ {0} /\ F <= E /\ E <= 2 * F /\ E \in Nat \ {0} /\ K <= F /\ K \in Nat
  BY <1>4, <1>5
<1>7. R \in Nat \ {0}  BY <1>3, <1>4, <1>6, PositiveProduct
<1>8. R < H * H
  <2>1. a * E <= a * (2 * F)
    <3>1. 2 * F \in Nat /\ E \in Nat  BY <1>6
    <3> QED  BY <1>3, <1>6, <3>1, TimesMonotone
  <2>2. a * (2 * F) = (4 * a) * H  BY <1>3, <1>4
  <2>3. (4 * a + 1) * H <= H * H
    <3>1. 4 * a + 1 <= H /\ 4 * a + 1 \in Nat  BY <1>3, <1>4
    <3> QED  BY <1>4, <3>1, TimesMonotone
  <2>4. (4 * a + 1) * H = (4 * a) * H + H  BY <1>3, <1>4
  <2>5. (4 * a) * H \in Int /\ H * H \in Int /\ R \in Int  BY <1>3, <1>4, <1>7
  <2>6. R <= (4 * a) * H  BY <2>1, <2>2
  <2> HIDE DEF R
  <2> QED  BY <1>4, <2>3, <2>4, <2>5, <2>6
<1>9. K * K <= R
  <2>1. K * K = A * (2 * J)
    <3>1. (4 * A) * (4 * A) = A * (2 * (8 * A))  BY <1>4
    <3> QED  BY <1>4, <3>1
  <2>2. A * (2 * J) <= a * E
    <3>1. 2 * J <= E /\ 2 * J \in Nat  BY <1>4, <1>6
    <3> QED  BY <1>3, <1>4, <1>6, <3>1, TimesMonotone
  <2> QED  BY <2>1, <2>2
<1> HIDE DEF R
<1>10. H * H <= F * F  BY <1>4, <1>6, TimesMonotone
<1>11. H * H \in Int /\ F * F \in Int /\ K * K \in Int  BY <1>4, <1>6
<1>12. R < W  BY <1>4, <1>7, <1>8, <1>10, <1>11
<1>13. R < 2^Word  BY <1>12 DEF W
<1>14. PICK lost \in BOOLEAN :
         /\ m \in Nat \ {0}
         /\ lost => /\ m % 2 = 1 /\ m - 1 \in Nat
                    /\ (m - 1) * (m - 1) < R /\ R < (m + 1) * (m + 1)
         /\ ~ lost => R = m * m
  BY <1>7, <1>13, RootBetween
<1> HIDE DEF m
<1>15. m * m \in Int /\ (m - 1) * (m - 1) \in Int /\ (m + 1) * (m + 1) \in Int  BY <1>14
<1>16. m <= H
  <2> SUFFICES ASSUME H <= m - 1 PROVE FALSE  BY <1>4, <1>14
  <2>1. m - 1 \in Nat /\ H <= m /\ m \in Nat /\ H \in Nat  BY <1>4, <1>14
  <2>2. H * H <= (m - 1) * (m - 1) /\ H * H <= m * m  BY <2>1, TimesMonotone
  <2> QED  BY <1>7, <1>8, <1>11, <1>14, <1>15, <2>2
<1>17. K <= m
  <2> SUFFICES ASSUME m + 1 <= K PROVE FALSE  BY <1>6, <1>14
  <2>1. m + 1 \in Nat /\ m <= m + 1 /\ m \in Nat  BY <1>14
  <2>2. (m + 1) * (m + 1) <= K * K /\ m * m <= (m + 1) * (m + 1)  BY <1>6, <2>1, TimesMonotone
  <2>3. (m + 1) * (m + 1) = m * m + 2 * m + 1  BY <1>14
  <2> QED  BY <1>7, <1>9, <1>11, <1>14, <1>15, <2>2, <2>3
<1>18. m < F /\ m < W
  <2>1. m < F  BY <1>4, <1>14, <1>16
  <2>2. F <= F * F
    <3>1. 1 \in Nat /\ F \in Nat /\ 1 <= F  BY <1>6
    <3>2. 1 * F <= F * F  BY <3>1, TimesMonotone
    <3> QED  BY <1>6, <3>2
  <2> QED  BY <1>4, <1>6, <1>11, <1>14, <2>1, <2>2
<1>19. bit_len(m) <= Shift /\ bit_len(m) >= (s + 2) + 1
  <2>1. m \in Nat /\ m < 2^Word /\ m < 2^Shift /\ m >= 2^(s + 2) /\ s + 2 \in 0 .. Word
    BY <1>1, <1>2, <1>14, <1>17, <1>18 DEF W, F, K
  <2> QED  BY <1>2, <2>1, BitLenBounds
<1>20. bit_len(m) >= s + 3
  <2>1. (s + 2) + 1 = s + 3  BY <1>1
  <2> QED  BY <1>19, <2>1
<1> QED  BY <1>7, <1>13, <1>14, <1>18, <1>19, <1>20 DEF m, R, a, E, W, s

\* The root with its sticky bit rounds as the exact root.
LEMMA RootRounds ==
    ASSUME NEW f \in Formats, NEW x, NEW p, Means(f, x, p), NEW sign \in BOOLEAN, NEW rm \in Rms
    PROVE  round_pack(f, sign, Root(p.m * 2^EvenShift(p.e)), (p.e - EvenShift(p.e)) \div 2, rm)
             = Rounded(f, sign, rm, SquareRoot(UnitsOf(f, x) * Scale(f)))
<1> DEFINE i == p.e
           a == p.m
           k == EvenShift(i)
           e == (i - k) \div 2
           E == 2^k
           R == a * E
           m == Root(R)
           U == UnitsOf(f, x)
           T == Scale(f)
           n == U * T
           me == min_e(f)
           s == f.sig
           v == bias(f)
           z == - me
           ua == i - me
           g == e - me
           un == z + ua
           w == g + g
           B == bit_len(m)
<1>1. i \in Int /\ ua \in - s .. max_field(f) - 2 /\ Scaled(U, a, ua) /\ U \in Nat \ {0} /\ a \in Nat
  BY DEF Means
<1>2. k \in {Shift, Shift + 1} /\ e \in Int /\ e + e = i - k  BY <1>1, EvenShiftIs
<1>3. /\ T \in Nat \ {0} /\ z \in 0 .. Reach /\ z = v + s - 1
      /\ \A y \in Int : Scaled(y * T, y, z)
  BY ScaleIs
<1>4. /\ Word \in Nat /\ Reach \in Nat /\ s \in Nat /\ s >= 2 /\ v \in Nat \ {0}
      /\ 3 * (v + s) <= Reach /\ Word + v + s <= Reach /\ me \in Int /\ max_field(f) = 2 * v + 1
  BY WordReach
<1>5. Shift \in Nat /\ 2 * Shift <= Word /\ Shift >= 6  BY ShiftRange
<1>6. /\ R \in Nat \ {0} /\ R < 2^Word /\ m \in Nat \ {0} /\ m < 2^Word
      /\ B >= s + 3 /\ B <= Shift
  <2> HIDE DEF k
  <2> QED  BY <1>2, RootSize
<1>7. B \in Int  BY <1>6, BitLength
<1>8. Scaled(n, U, z)  BY <1>1, <1>3
<1>9. n \in Nat \ {0}  BY <1>1, <1>3, PositiveProduct
<1> HIDE DEF k, e
<1>10. /\ g \in Exponents /\ w \in Exponents /\ B + g <= Reach /\ - g <= Word - 1
       /\ un \in Exponents /\ z \in Exponents /\ ua \in Exponents
       /\ k \in Exponents /\ - k \in Exponents /\ w = un + (- k) /\ k \in Nat /\ k \in 0 .. Reach
  <2>1. i - me >= - s /\ i - me <= 2 * v - 1 /\ - me = v + s - 1  BY <1>1, <1>3, <1>4
  <2>2. k \in Nat /\ k >= Shift /\ k <= Shift + 1  BY <1>2, <1>5
  <2> HIDE DEF i, me, s, v, B
  <2>3. (e - me) + (e - me) = (i - me) + (- me) - k  BY <1>1, <1>2, <1>4, <2>2
  <2> DEFINE q == i - me
             y == - me
             h == e - me
  <2>4. /\ q \in Int /\ y \in Int /\ h \in Int /\ h + h = q + y - k /\ q >= - s /\ q <= 2 * v - 1
        /\ y = v + s - 1
    BY <1>1, <1>2, <1>4, <2>1, <2>3
  <2> HIDE DEF q, y, h
  <2>5. h + h \in - Reach .. Reach /\ h \in - Reach .. Reach  BY <1>4, <1>5, <2>2, <2>4
  <2>6. B + h <= Reach /\ - h <= Word - 1  BY <1>4, <1>5, <1>6, <1>7, <2>2, <2>4
  <2>7. /\ y + q \in - Reach .. Reach /\ y \in - Reach .. Reach /\ q \in - Reach .. Reach
        /\ k \in - Reach .. Reach /\ - k \in - Reach .. Reach /\ k \in 0 .. Reach
    BY <1>4, <1>5, <2>2, <2>4
  <2>8. h + h = (y + q) + (- k)  BY <2>2, <2>4
  <2> QED  BY <2>2, <2>5, <2>6, <2>7, <2>8 DEF Exponents, q, y, h
<1>11. Scaled(R, a, k)  BY <1>10 DEF Scaled
<1>12. n \in Int /\ R \in Int /\ a \in Int /\ U \in Int /\ n \in Nat /\ R \in Nat  BY <1>1, <1>6, <1>9
<1>13. g = e - min_e(f) /\ B = bit_len(m) /\ s = f.sig /\ w = g + g  OBVIOUS
<1>14. PICK lost \in BOOLEAN :
         /\ m \in Nat \ {0}
         /\ lost => /\ m % 2 = 1 /\ m - 1 \in Nat
                    /\ (m - 1) * (m - 1) < R /\ R < (m + 1) * (m + 1)
         /\ ~ lost => R = m * m
  BY <1>6, RootBetween
<1> HIDE DEF E, R, m, U, T, n, z, ua, g, un, w, B, a
<1>15. Scaled(n, a, un)
  <2>1. un = z + ua  BY DEF un
  <2> QED  BY <1>1, <1>8, <1>10, <1>12, <2>1, ScaledCompose
<1>16. Scaled(a, R, - k)  BY <1>10, <1>11, <1>12, ScaledBack
<1>17. Scaled(n, R, w)  BY <1>10, <1>12, <1>15, <1>16, ScaledCompose
<1>18. /\ bit_len(m) >= f.sig + 3 /\ bit_len(m) + g <= Reach /\ - g <= Word - 1
       /\ m \in Nat \ {0} /\ m < 2^Word /\ e \in Int /\ n \in Nat /\ R \in Nat
       /\ g \in Exponents /\ g = e - min_e(f) /\ w \in Exponents /\ w = g + g
  BY <1>2, <1>6, <1>10, <1>12, <1>13
<1>19. round_pack(f, sign, m, e, rm) = Rounded(f, sign, rm, SquareRoot(n))
  BY <1>14, <1>17, <1>18, RoundRoot
<1> QED  BY <1>19 DEF m, e, n, R, E, a, T, U, k

\* Zeros and infinities are their patterns.
LEMMA ZeroOrInf ==
    ASSUME NEW f \in Formats, NEW a \in Patterns(f)
    PROVE  /\ IsZero(f, a) => a = zero(f, Negative(f, a))
           /\ IsInf(f, a) => a = inf(f, Negative(f, a))
<1> DEFINE K == 2^(f.bits - 1)
           M == Magnitude(f, a)
           I == Infinity(f)
<1>1. K \in Nat  BY FormatPowers
<1>2. a = M + IF Negative(f, a) THEN K ELSE 0  BY PatternIs
<1>3. M \in Nat /\ Negative(f, a) \in BOOLEAN  BY PatternIs, MaskedType
<1>5. zero(f, Negative(f, a)) = IF Negative(f, a) THEN K ELSE 0  BY DEF zero, sign_mask
<1>6. inf(f, Negative(f, a)) = I + IF Negative(f, a) THEN K ELSE 0
  <2> DEFINE c == max_field(f) * 2^f.sig
  <2>1. inf(f, Negative(f, a)) = c + zero(f, Negative(f, a))  BY DEF inf
  <2>2. I = c + 0  BY DEF inf, Infinity, zero
  <2>3. c \in Int
    <3>1. max_field(f) \in Nat /\ 2^f.sig \in Nat  BY SpecialPatterns, FormatPowers
    <3> DEFINE A == 2^f.sig
               N == max_field(f)
    <3> HIDE DEF A, N
    <3>2. N * A \in Int  BY <3>1 DEF N, A
    <3> QED  BY <3>2 DEF N, A
  <2> HIDE DEF c
  <2>4. I = c  BY <2>2, <2>3
  <2> QED  BY <1>5, <2>1, <2>4
<1> HIDE DEF K, M, I
<1>7. IsZero(f, a) <=> M = 0  BY DEF IsZero, M
<1>8. IsInf(f, a) <=> M = I  BY DEF IsInf, M, I
<1>9. IsZero(f, a) => a = zero(f, Negative(f, a))  BY <1>1, <1>2, <1>3, <1>5, <1>7
<1>10. IsInf(f, a) => a = inf(f, Negative(f, a))  BY <1>2, <1>6, <1>8
<1> QED  BY <1>9, <1>10

\* Square root rounds the exact root once.
LEMMA SqrtRounds ==
    ASSUME NEW f \in Formats, NEW a \in Patterns(f), NEW rm \in Rms
    PROVE  sqrt(f, a, rm) = RootSpec(f, a, rm)
<1> DEFINE p == unpack(f, a)
           neg == Negative(f, a)
           no == FALSE
           U == UnitsOf(f, a)
           T == Scale(f)
<1>1. a \in Int  BY PatternIs
<1>2. Unpacks(f, a, p) /\ p.sign = neg /\ neg \in BOOLEAN  BY <1>1, UnpackIs
<1>3. (IsZero(f, a) => a = zero(f, neg)) /\ (IsInf(f, a) => a = inf(f, neg))  BY ZeroOrInf
<1>4. sqrt(f, a, rm) = SqrtUnpacked(f, p, rm)  BY DEF sqrt
<1>5. RootSpec(f, a, rm) =
        IF IsNan(f, a) THEN Nan(f, {a})
        ELSE IF IsZero(f, a) THEN Exact(a)
        ELSE IF neg THEN Invalid(f)
        ELSE IF IsInf(f, a) THEN Exact(a)
        ELSE Rounded(f, no, rm, SquareRoot(U * T))
  BY DEF RootSpec
<1>6. SqrtUnpacked(f, p, rm) =
        IF is_nan(p) THEN nan_result(f, {p})
        ELSE IF is_zero(p) THEN Exact(zero(f, neg))
        ELSE IF neg THEN invalid(f)
        ELSE IF is_inf(p) THEN Exact(inf(f, no))
        ELSE round_pack(f, no, Root(p.m * 2^EvenShift(p.e)), (p.e - EvenShift(p.e)) \div 2, rm)
  BY <1>2 DEF SqrtUnpacked
<1>7. invalid(f) = Invalid(f)  BY DEF invalid, Invalid
<1>8. no \in BOOLEAN  OBVIOUS
<1>9. ~ neg => neg = no  BY <1>2
<1> HIDE DEF p, neg, no, U, T
<1>10. nan_result(f, {p}) = Nan(f, {a})
  <2>1. {p, p} = {p} /\ {a, a} = {a}  OBVIOUS
  <2>2. nan_result(f, {p, p}) = Nan(f, {a, a})  BY <1>2, NanIs DEF Unpacks
  <2> QED  BY <2>1, <2>2
<1>11. /\ is_nan(p) <=> IsNan(f, a)
       /\ is_inf(p) <=> IsInf(f, a)
       /\ is_zero(p) <=> IsZero(f, a)
  BY <1>2 DEF Unpacks
<1>12. CASE is_nan(p) \/ is_zero(p) \/ neg \/ is_inf(p)
  <2>1. ~ neg /\ is_inf(p) => a = inf(f, no)  BY <1>3, <1>9, <1>11
  <2> QED  BY <1>3, <1>4, <1>5, <1>6, <1>7, <1>10, <1>11, <1>12, <2>1
<1>13. CASE ~ (is_nan(p) \/ is_zero(p) \/ neg \/ is_inf(p))
  <2>1. Means(f, a, p)  BY <1>2, <1>13 DEF Unpacks
  <2>2. round_pack(f, no, Root(p.m * 2^EvenShift(p.e)), (p.e - EvenShift(p.e)) \div 2, rm)
          = Rounded(f, no, rm, SquareRoot(U * T))
    BY <1>8, <2>1, RootRounds DEF U, T
  <2> QED  BY <1>4, <1>5, <1>6, <1>11, <1>13, <2>2
<1> QED  BY <1>12, <1>13

-----------------------------------------------------------------------------
(* Addition: alignment loses bits of the smaller operand only *)

\* Brought under the top of a word a significand is even and large.
LEMMA TopAligned ==
    ASSUME NEW m \in Nat \ {0}, m < 2^(Word - 6)
    PROVE  LET b == bit_len(m)
               c == Word - 2 - b
               A == m * 2^c
           IN  /\ b \in 1 .. Word - 6 /\ c \in 4 .. Word
               /\ A \in Nat \ {0} /\ A % 2 = 0 /\ A >= 2^(Word - 3) /\ A < 2^(Word - 2)
<1> DEFINE b == bit_len(m)
           c == Word - 2 - b
           k == Word - 6
           K == 2^k
           W == 2^Word
           C == 2^c
           B == 2^b
           H == 2^(b - 1)
           Q4 == 2^(c - 1)
           A == m * C
<1>1. Word \in Nat /\ Word >= 12 /\ k \in 0 .. Word /\ Word \in 0 .. Word /\ k <= Word
  BY ShiftRange
<1>2. m < K /\ K <= W /\ K \in Nat /\ W \in Nat  BY <1>1, PowerMonotone, WordPowerType
<1>3. m < 2^Word
  <2> HIDE DEF K, W
  <2>1. m < W  BY <1>2
  <2> QED  BY <2>1 DEF W
<1>4. b <= k  BY <1>1, <1>3, BitLenBounds
<1>5. b \in 0 .. Word /\ m < B /\ b > 0 /\ m >= H  BY <1>3, BitLength
<1> HIDE DEF b
<1>6. b \in 1 .. Word - 6 /\ b - 1 \in 0 .. Word  BY <1>1, <1>4, <1>5
<1>7. /\ c \in 4 .. Word /\ c \in 0 .. Word /\ c - 1 \in 0 .. Word /\ 1 \in 0 .. Word
      /\ c = 1 + (c - 1) /\ Word - 2 = b + c /\ Word - 3 = (b - 1) + c
      /\ Word - 2 \in 0 .. Word /\ Word - 3 \in 0 .. Word
  BY <1>1, <1>6
<1> HIDE DEF c
<1>8. /\ C \in Nat \ {0} /\ Q4 \in Nat \ {0} /\ B \in Nat \ {0} /\ H \in Nat \ {0}
  BY <1>5, <1>6, <1>7, WordPowerType
<1>9. C = 2 * Q4
  <2>0. 1 \in 0 .. Word /\ c - 1 \in 0 .. Word /\ c \in 0 .. Word /\ c = 1 + (c - 1)
    BY <1>7
  <2>1. C = 2^1 * Q4  BY <2>0, WordPowerSum
  <2>2. 2^1 = 2  BY PowerAssumption
  <2> QED  BY <2>1, <2>2
<1>10. 2^(Word - 2) = B * C  BY <1>5, <1>7, WordPowerSum
<1>11. 2^(Word - 3) = H * C  BY <1>6, <1>7, WordPowerSum
<1> HIDE DEF B, C, Q4, H
<1>12. A \in Nat \ {0}  BY <1>8, PositiveProduct
<1>13. A % 2 = 0
  <2> DEFINE y == m * Q4
  <2>1. y \in Nat  BY <1>8
  <2>2. m * (2 * Q4) = 2 * (m * Q4)  BY <1>8
  <2>3. A = 2 * y  BY <1>9, <2>2
  <2> HIDE DEF y, A
  <2> QED  BY <2>1, <2>3
<1>14. A >= H * C  BY <1>5, <1>8, TimesMonotone
<1>15. A < B * C  BY <1>5, <1>8, TimesStrict
<1> QED  BY <1>6, <1>7, <1>10, <1>11, <1>12, <1>13, <1>14, <1>15 DEF b, c, A, C

\* What scale keeps of a significand that it moves down k places.
Kept(m, k, c, lost) ==
    /\ c \in Nat
    /\ lost => c % 2 = 1 /\ c - 1 \in Nat /\ (c - 1) * 2^k < m /\ m < (c + 1) * 2^k
    /\ ~ lost => m = c * 2^k

\* A word moved down keeps what it lost in its sticky bit.
LEMMA ScaleKeeps ==
    ASSUME NEW m \in Nat \ {0}, m < 2^Word, NEW e \in Int, NEW base \in Int, e < base,
           NEW k \in 0 .. Reach, k = base - e
    PROVE  \E lost \in BOOLEAN : Kept(m, k, scale(m, e, base), lost)
<1> DEFINE K == 2^k
           W == 2^Word
           c == scale(m, e, base)
<1>0. Word \in Nat /\ Word >= 12 /\ k \in Nat /\ Reach \in Nat  BY ShiftRange, ReachNat
<1>1. K \in Nat \ {0}  BY ReachPowers
<1>2. c = IF e >= base THEN m * 2^(e - base)
          ELSE IF base - e >= Word THEN Sticky(0, m # 0)
          ELSE Sticky(m \div 2^(base - e), m % 2^(base - e) # 0)
  BY DEF scale
<1>3. ~ (e >= base)  OBVIOUS
<1>4. CASE k >= Word
  <2>1. c = Sticky(0, m # 0)  BY <1>2, <1>3, <1>4
  <2>2. c = 1
    <3>1. (m # 0) /\ 0 % 2 = 0  OBVIOUS
    <3> QED  BY <2>1, <3>1 DEF Sticky
  <2>3. W <= K /\ W \in Nat
    <3>1. Word \in 0 .. Reach  BY <1>0, <1>4
    <3> QED  BY <1>4, <3>1, ReachMonotone, ReachPowers
  <2>4. m < W  OBVIOUS
  <2> HIDE DEF K, W, c
  <2>5. (c - 1) * K = 0 /\ (c + 1) * K = 2 * K  BY <1>1, <2>2
  <2>6. (c - 1) * K < m /\ m < (c + 1) * K  BY <1>1, <2>3, <2>4, <2>5
  <2>7. c \in Nat /\ c % 2 = 1 /\ c - 1 \in Nat  BY <2>2
  <2>8. Kept(m, k, c, TRUE)  BY <2>6, <2>7 DEF Kept, K
  <2> QED  BY <2>8 DEF c
<1>5. CASE ~ (k >= Word)
  <2> DEFINE lost == m % K # 0
             u == m \div K
  <2>1. c = Sticky(u, lost)  BY <1>2, <1>3, <1>5
  <2>2. Quotient(m, K) = Sticky(u, lost)  BY DEF Quotient
  <2>3. LET q == Quotient(m, K)
        IN  /\ q \in Nat /\ q >= m \div K /\ q <= m \div K + 1
            /\ m % K # 0 => q % 2 = 1 /\ q - 1 \in Nat /\ (q - 1) * K < m /\ m < (q + 1) * K
            /\ ~ (m % K # 0) => m = q * K
    <3> HIDE DEF K
    <3> QED  BY <1>1, QuotientBetween
  <2>4. /\ c \in Nat
        /\ lost => c % 2 = 1 /\ c - 1 \in Nat /\ (c - 1) * K < m /\ m < (c + 1) * K
        /\ ~ lost => m = c * K
    <3> HIDE DEF K
    <3> QED  BY <2>1, <2>2, <2>3
  <2>5. \E l \in BOOLEAN : l <=> lost  OBVIOUS
  <2>6. PICK l \in BOOLEAN : l <=> lost  BY <2>5
  <2> HIDE DEF lost
  <2>7. Kept(m, k, c, l)  BY <2>4, <2>6 DEF Kept, K
  <2> QED  BY <2>7 DEF c
<1> QED  BY <1>4, <1>5

\* An exact term shifts both sides of a strict order.
LEMMA BelowSum ==
    ASSUME NEW x \in Int, NEW X \in Int, NEW y \in Int, NEW n \in Int, NEW g \in Exponents,
           Scaled(x, X, g)
    PROVE  /\ LiesBelow(y, n, g) => LiesBelow(X + y, x + n, g) /\ LiesAbove(X - y, x - n, g)
           /\ LiesAbove(y, n, g) => LiesAbove(X + y, x + n, g) /\ LiesBelow(X - y, x - n, g)
<1>0. g \in Int /\ Reach \in Nat  BY ReachNat DEF Exponents
<1>1. CASE g >= 0
  <2> DEFINE Q4 == 2^g
             u == X * Q4
             v == y * Q4
  <2>1. Q4 \in Nat \ {0}
    <3>1. g \in 0 .. Reach  BY <1>0, <1>1 DEF Exponents
    <3> QED  BY <3>1, ReachPowers
  <2>2. x = u  BY <1>1 DEF Scaled
  <2>3. (LiesBelow(y, n, g) <=> v < n) /\ (LiesAbove(y, n, g) <=> n < v)  BY <1>1 DEF LiesBelow, LiesAbove
  <2>4. /\ LiesBelow(X + y, x + n, g) <=> (X + y) * Q4 < x + n
        /\ LiesAbove(X - y, x - n, g) <=> x - n < (X - y) * Q4
        /\ LiesAbove(X + y, x + n, g) <=> x + n < (X + y) * Q4
        /\ LiesBelow(X - y, x - n, g) <=> (X - y) * Q4 < x - n
    BY <1>1 DEF LiesBelow, LiesAbove
  <2> HIDE DEF Q4
  <2>5. (X + y) * Q4 = u + v /\ (X - y) * Q4 = u - v /\ u \in Int /\ v \in Int  BY <2>1
  <2> HIDE DEF u, v
  <2>6. /\ v < n => u + v < x + n /\ x - n < u - v
        /\ n < v => x + n < u + v /\ u - v < x - n
    BY <2>2, <2>5
  <2> QED  BY <2>3, <2>4, <2>5, <2>6
<1>2. CASE ~ (g >= 0)
  <2> DEFINE Q4 == 2^(- g)
             u == x * Q4
             v == n * Q4
  <2>1. Q4 \in Nat \ {0}
    <3>1. - g \in 0 .. Reach  BY <1>0, <1>2 DEF Exponents
    <3> QED  BY <3>1, ReachPowers
  <2>2. X = u  BY <1>2 DEF Scaled
  <2>3. (LiesBelow(y, n, g) <=> y < v) /\ (LiesAbove(y, n, g) <=> v < y)  BY <1>2 DEF LiesBelow, LiesAbove
  <2>4. /\ LiesBelow(X + y, x + n, g) <=> X + y < (x + n) * Q4
        /\ LiesAbove(X - y, x - n, g) <=> (x - n) * Q4 < X - y
        /\ LiesAbove(X + y, x + n, g) <=> (x + n) * Q4 < X + y
        /\ LiesBelow(X - y, x - n, g) <=> X - y < (x - n) * Q4
    BY <1>2 DEF LiesBelow, LiesAbove
  <2> HIDE DEF Q4
  <2>5. (x + n) * Q4 = u + v /\ (x - n) * Q4 = u - v /\ u \in Int /\ v \in Int  BY <2>1
  <2> HIDE DEF u, v
  <2>6. /\ y < v => X + y < u + v /\ u - v < X - y
        /\ v < y => u + v < X + y /\ X - y < u - v
    BY <2>2, <2>5
  <2> QED  BY <2>3, <2>4, <2>5, <2>6
<1> QED  BY <1>1, <1>2

\* What lies above a natural is positive.
LEMMA BelowPositive ==
    ASSUME NEW y \in Nat, NEW n \in Int, NEW g \in Exponents, LiesBelow(y, n, g)
    PROVE  n \in Nat \ {0}
<1>0. g \in Int /\ Reach \in Nat  BY ReachNat DEF Exponents
<1>1. CASE g >= 0
  <2> DEFINE Q4 == 2^g
  <2>1. Q4 \in Nat
    <3>1. g \in 0 .. Reach  BY <1>0, <1>1 DEF Exponents
    <3> QED  BY <3>1, ReachPowers
  <2>2. y * Q4 < n  BY <1>1 DEF LiesBelow
  <2> HIDE DEF Q4
  <2>3. y * Q4 \in Nat  BY <2>1
  <2> QED  BY <2>2, <2>3
<1>2. CASE ~ (g >= 0)
  <2> DEFINE Q4 == 2^(- g)
  <2>1. Q4 \in Nat \ {0}
    <3>1. - g \in 0 .. Reach  BY <1>0, <1>2 DEF Exponents
    <3> QED  BY <3>1, ReachPowers
  <2>2. y < n * Q4  BY <1>2 DEF LiesBelow
  <2> HIDE DEF Q4
  <2>3. n * Q4 \in Int /\ 0 < n * Q4  BY <2>1, <2>2
  <2>4. 0 * Q4 = 0 /\ 0 * Q4 < n * Q4  BY <2>1, <2>3
  <2>5. 0 < n  BY <2>1, <2>4, TimesStrict
  <2> QED  BY <2>5
<1> QED  BY <1>1, <1>2

\* A number p.m * 2^p.e that is n / d units.
Addend(f, d, n, p) ==
    /\ p.m \in Nat \ {0} /\ p.m < 2^(Word - 6) /\ p.e \in Int /\ n \in Nat \ {0}
    /\ p.e - min_e(f) \in Exponents /\ Scaled(n, p.m * d, p.e - min_e(f))

Top(p) == p.e + bit_len(p.m)

\* The word B, its last bit g places above the lowest unit, is n / d units, or
\* its odd neighbour after bits were lost.
Aligned(n, d, B, g, lost) ==
    /\ B \in Nat /\ B < 2^(Word - 2)
    /\ ~ lost => Scaled(n, B * d, g)
    /\ lost => /\ B % 2 = 1 /\ B - 1 \in Nat /\ B <= 2^(Word - 6)
               /\ LiesBelow((B - 1) * d, n, g) /\ LiesAbove((B + 1) * d, n, g)

\* The larger operand is moved up and loses nothing.
LEMMA AlignedTop ==
    ASSUME NEW f \in Formats, NEW d \in Nat \ {0}, NEW n, NEW p, Addend(f, d, n, p),
           NEW base \in Int, base = Top(p) - (Word - 2), NEW g \in Exponents, g = base - min_e(f)
    PROVE  LET A == scale(p.m, p.e, base)
           IN  /\ A \in Nat \ {0} /\ A % 2 = 0 /\ A >= 2^(Word - 3) /\ A < 2^(Word - 2)
               /\ Scaled(n, A * d, g)
<1> DEFINE m == p.m
           i == p.e
           me == min_e(f)
           b == bit_len(m)
           c == Word - 2 - b
           C == 2^c
           A == m * C
           x == m * d
           y == A * d
           k == i - me
<1>1. m \in Nat \ {0} /\ m < 2^(Word - 6) /\ i \in Int /\ n \in Nat \ {0} /\ k \in Exponents /\ Scaled(n, x, k)
  BY DEF Addend
<1>2. /\ b \in 1 .. Word - 6 /\ c \in 4 .. Word
      /\ A \in Nat \ {0} /\ A % 2 = 0 /\ A >= 2^(Word - 3) /\ A < 2^(Word - 2)
  BY <1>1, TopAligned
<1>3. base = i + b - (Word - 2)
  <2>1. Top(p) = i + b  BY DEF Top
  <2>2. i \in Int /\ b \in Int /\ Word \in Nat  BY <1>1, <1>2, ShiftRange
  <2> HIDE DEF i, b
  <2> QED  BY <2>1, <2>2
<1>4. Word \in Nat /\ me \in Int /\ Reach \in Nat /\ Word <= Reach
  <2>1. Word \in Nat /\ Reach \in Nat /\ me \in Int /\ f.sig \in Nat /\ Word + f.sig + 1 <= Reach
    BY WordReach
  <2> DEFINE s == f.sig
  <2> HIDE DEF s
  <2>2. s \in Nat /\ Word + s + 1 <= Reach  BY <2>1 DEF s
  <2> QED  BY <2>1, <2>2
<1> HIDE DEF b, i, me, m
<1>5. i - base = c /\ c \in 0 .. Reach /\ c >= 0 /\ i >= base  BY <1>1, <1>2, <1>3, <1>4
<1>6. scale(m, i, base) = A
  <2>1. scale(m, i, base) = m * 2^(i - base)  BY <1>5 DEF scale
  <2> QED  BY <1>5, <2>1
<1>7. - c \in Exponents /\ c \in Exponents /\ g = k + (- c)
  <2>1. g = base - me  BY DEF me
  <2> QED  BY <1>1, <1>3, <1>4, <1>5, <2>1 DEF Exponents
<1>8. C \in Nat \ {0}  BY <1>5, ReachPowers
<1>9. Scaled(A, m, c)  BY <1>5 DEF Scaled
<1> HIDE DEF c, C, A, k
<1>10. Scaled(y, x, c)
  <2>1. A \in Int /\ m \in Int /\ d \in Int /\ c \in Exponents  BY <1>1, <1>2, <1>7
  <2> QED  BY <1>9, <2>1, ScaledTimes
<1>11. x \in Int /\ y \in Int /\ n \in Int  BY <1>1, <1>2
<1> HIDE DEF x, y
<1>12. Scaled(x, y, - c)  BY <1>7, <1>10, <1>11, ScaledBack
<1>13. Scaled(n, y, g)  BY <1>1, <1>7, <1>11, <1>12, ScaledCompose
<1> QED  BY <1>2, <1>6, <1>13 DEF m, i, y

\* The other loses bits only deep below it.
LEMMA AlignedBelow ==
    ASSUME NEW f \in Formats, NEW d \in Nat \ {0}, NEW n, NEW p, Addend(f, d, n, p),
           NEW base \in Int, Top(p) <= base + (Word - 2), NEW g \in Exponents,
           g = base - min_e(f), g - (p.e - min_e(f)) <= Reach
    PROVE  \E lost \in BOOLEAN : Aligned(n, d, scale(p.m, p.e, base), g, lost)
<1> DEFINE m == p.m
           i == p.e
           me == min_e(f)
           b == bit_len(m)
           B == scale(m, i, base)
           x == m * d
           k == i - me
           Z == 2^(Word - 6)
           V == 2^(Word - 2)
<1>1. m \in Nat \ {0} /\ m < Z /\ i \in Int /\ n \in Nat \ {0} /\ k \in Exponents /\ Scaled(n, x, k)
  BY DEF Addend
<1>2. b \in 1 .. Word - 6  BY <1>1, TopAligned
<1>3. i + b <= base + (Word - 2) /\ g - k <= Reach  BY DEF Top
<1>4. Word \in Nat /\ me \in Int /\ Reach \in Nat /\ Word <= Reach /\ Word >= 12
  <2>1. Word \in Nat /\ Reach \in Nat /\ me \in Int /\ f.sig \in Nat /\ Word + f.sig + 1 <= Reach
    BY WordReach
  <2> DEFINE s == f.sig
  <2> HIDE DEF s
  <2>2. s \in Nat /\ Word + s + 1 <= Reach  BY <2>1 DEF s
  <2>3. Word >= 12  BY ShiftRange
  <2> QED  BY <2>1, <2>2, <2>3
<1>5. /\ Word - 6 \in 0 .. Word /\ Word - 2 \in 0 .. Word /\ Word \in 0 .. Word
      /\ Word - 6 <= Word - 2 /\ Word - 6 <= Word
  BY <1>4
<1>6. Z \in Nat \ {0} /\ V \in Nat \ {0} /\ Z <= V /\ Z <= 2^Word  BY <1>5, WordPowerType, PowerMonotone
<1>7. m < 2^Word
  <2> DEFINE W == 2^Word
  <2>1. Z <= W /\ W \in Nat  BY <1>5, <1>6, WordPowerType
  <2> HIDE DEF Z, W
  <2>2. m < W  BY <1>1, <1>6, <2>1
  <2> QED  BY <2>2 DEF W
<1>8. m < 2^b  BY <1>1, <1>7, BitLength
<1>9. x \in Int /\ n \in Int /\ g \in Int /\ k \in Int /\ k = i - me /\ g = base - me
  BY <1>1 DEF Exponents
<1> HIDE DEF m, i, me, b, x, k
<1>10. CASE i >= base
  <2> DEFINE c == i - base
             C == 2^c
             y == B * d
             N == 2^b
             no == FALSE
  <2>1. /\ c \in Nat /\ c \in 0 .. Word /\ c \in 0 .. Reach /\ c >= 0 /\ b \in 0 .. Word
        /\ b + c \in 0 .. Word /\ b + c <= Word - 2
    BY <1>1, <1>2, <1>3, <1>4, <1>10
  <2>2. B = m * C  BY <1>10 DEF scale
  <2>3. C \in Nat \ {0} /\ N \in Nat \ {0} /\ 2^(b + c) = N * C /\ 2^(b + c) <= V
    <3> HIDE DEF c
    <3> QED  BY <1>5, <2>1, WordPowerType, WordPowerSum, PowerMonotone
  <2>4. - c \in Exponents /\ c \in Exponents /\ g = k + (- c)
    BY <1>1, <1>4, <1>9, <2>1 DEF Exponents
  <2>5. Scaled(B, m, c)  BY <2>1, <2>2 DEF Scaled
  <2> HIDE DEF C, c, V, N, B
  <2>6. B \in Nat  BY <1>1, <2>2, <2>3
  <2>7. B < V
    <3>1. m * C < N * C  BY <1>1, <1>8, <2>3, TimesStrict DEF N
    <3>2. m * C \in Int /\ N * C \in Int  BY <1>1, <2>3
    <3> QED  BY <1>6, <2>2, <2>3, <3>1, <3>2
  <2>8. Scaled(y, x, c)  BY <1>1, <2>4, <2>5, <2>6, ScaledTimes DEF x
  <2>9. y \in Int  BY <2>6
  <2> HIDE DEF y
  <2>10. Scaled(x, y, - c)  BY <1>9, <2>4, <2>8, <2>9, ScaledBack
  <2>11. Scaled(n, y, g)  BY <1>1, <1>9, <2>4, <2>9, <2>10, ScaledCompose
  <2>12. Aligned(n, d, B, g, FALSE)  BY <2>6, <2>7, <2>11 DEF Aligned, V, y
  <2> QED  BY <2>12 DEF B, m, i
<1>11. CASE i < base
  <2> DEFINE c == base - i
             C == 2^c
  <2>1. c \in Nat /\ c \in 0 .. Reach /\ - c \in Exponents /\ c \in Exponents /\ k = (- c) + g /\ ~ (- c >= 0)
        /\ - (- c) = c /\ g = c + k
    BY <1>1, <1>3, <1>4, <1>9, <1>11 DEF Exponents
  <2>2. C \in Nat \ {0}  BY <2>1, ReachPowers
  <2>3. PICK lost \in BOOLEAN : Kept(m, c, B, lost)
    <3>1. c = base - i  OBVIOUS
    <3> HIDE DEF c
    <3> QED  BY <1>1, <1>7, <1>11, <2>1, <3>1, ScaleKeeps
  <2>4. /\ B \in Nat
        /\ lost => B % 2 = 1 /\ B - 1 \in Nat /\ (B - 1) * C < m /\ m < (B + 1) * C
        /\ ~ lost => m = B * C
    BY <2>3 DEF Kept
  <2> HIDE DEF C, B, c
  <2>5. ASSUME NEW u \in Nat
        PROVE  /\ u * C < m => LiesBelow(u * d, n, g)
               /\ m < u * C => LiesAbove(u * d, n, g)
               /\ m = u * C => Scaled(n, u * d, g)
    <3> DEFINE y == u * d
               U == u * C
               Y == U * d
    <3>1. y \in Int /\ U \in Int  BY <2>2
    <3>2. Scaled(y, Y, - c)
      <4>1. (u * d) * C = (u * C) * d  BY <2>2
      <4> QED  BY <2>1, <4>1 DEF Scaled, C
    <3> HIDE DEF U
    <3>3. (U < m => Y < x) /\ (m < U => x < Y)  BY <1>1, <3>1, TimesStrict DEF x
    <3>4. Y \in Int  BY <3>1
    <3>5. m = U => x = Y  BY DEF x
    <3> HIDE DEF y, Y
    <3>6. (Y < x => LiesBelow(y, n, g)) /\ (x < Y => LiesAbove(y, n, g))
      BY <1>1, <1>9, <2>1, <3>1, <3>2, <3>4, ScaledBetween
    <3>7. x = Y => Scaled(n, y, g)
      <4>1. Scaled(Y, y, c)  BY <2>1, <3>1, <3>2, <3>4, ScaledBack
      <4>2. g = k + c  BY <1>9, <2>1
      <4> QED  BY <1>1, <1>9, <2>1, <3>1, <3>4, <4>1, <4>2, ScaledCompose
    <3> QED  BY <3>3, <3>5, <3>6, <3>7 DEF y, U
  <2>6. CASE lost
    <3>1. B - 1 \in Nat /\ B + 1 \in Nat /\ (B - 1) * C < m /\ m < (B + 1) * C /\ B % 2 = 1
      BY <2>4, <2>6
    <3>2. LiesBelow((B - 1) * d, n, g)  BY <2>5, <3>1
    <3>3. LiesAbove((B + 1) * d, n, g)  BY <2>5, <3>1
    <3> HIDE DEF Z, V
    <3>4. B <= Z
      <4> DEFINE u == B - 1
      <4>1. u \in Nat /\ u * C < m  BY <3>1
      <4> HIDE DEF u
      <4>2. 1 <= C /\ 1 \in Nat /\ u <= u  BY <2>2, <4>1
      <4>3. u * 1 <= u * C  BY <2>2, <4>1, <4>2, TimesMonotone
      <4>4. u * 1 = u /\ u * C \in Int  BY <2>2, <4>1
      <4>5. u < Z  BY <1>1, <1>6, <4>1, <4>3, <4>4
      <4> QED  BY <1>6, <2>4, <4>5 DEF u
    <3>5. Z < V
      <4>1. Z * 2^4 = V
        <5>1. 4 \in 0 .. Word /\ Word - 2 = (Word - 6) + 4  BY <1>4
        <5> QED  BY <1>5, <5>1, WordPowerSum DEF Z, V
      <4>2. 2^4 >= 2 /\ 2^4 \in Nat
        <5>1. 4 \in 0 .. Word /\ 1 \in 0 .. Word /\ 1 <= 4  BY <1>4
        <5>2. 2^1 <= 2^4 /\ 2^1 = 2 /\ 2^4 \in Nat  BY <5>1, PowerMonotone, WordPowerType, PowerAssumption
        <5> QED  BY <5>2
      <4> DEFINE F == 2^4
      <4> HIDE DEF F
      <4>3. F \in Nat /\ 2 <= F /\ Z * F = V  BY <4>1, <4>2 DEF F
      <4>4. Z * 2 <= Z * F  BY <1>6, <4>3, TimesMonotone
      <4> QED  BY <1>6, <4>3, <4>4
    <3>6. B < V  BY <1>6, <2>4, <3>4, <3>5
    <3>7. Aligned(n, d, B, g, lost)  BY <2>4, <2>6, <3>1, <3>2, <3>3, <3>4, <3>6 DEF Aligned, V, Z
    <3> QED  BY <3>7 DEF B, m, i
  <2>7. CASE ~ lost
    <3>1. m = B * C /\ B \in Nat  BY <2>4, <2>7
    <3>2. Scaled(n, B * d, g)  BY <2>5, <3>1
    <3> HIDE DEF Z, V
    <3>3. B < V
      <4>1. 1 <= C /\ 1 \in Nat /\ B <= B  BY <2>2, <3>1
      <4>2. B * 1 <= B * C  BY <2>2, <3>1, <4>1, TimesMonotone
      <4> QED  BY <1>1, <1>6, <3>1, <4>2
    <3>4. Aligned(n, d, B, g, lost)  BY <2>7, <3>1, <3>2, <3>3 DEF Aligned, V
    <3> QED  BY <3>4 DEF B, m, i
  <2> QED  BY <2>6, <2>7
<1> QED  BY <1>1, <1>10, <1>11

\* An aligned word rounds as the number near it.
LEMMA RoundAligned ==
    ASSUME NEW f \in Formats, NEW rm \in Rms, NEW m \in Nat \ {0}, m < 2^(Word - 1),
           NEW base \in Int, NEW g \in Exponents, g = base - min_e(f), g + Word - 1 <= Reach,
           NEW n \in Nat, NEW d \in Nat \ {0}, NEW lost \in BOOLEAN,
           lost => m % 2 = 1 /\ m >= 2^(f.sig + 2), Near(n, d, m, g, lost)
    PROVE  \A s \in BOOLEAN : round_pack(f, s, m, base, rm) = Rounded(f, s, rm, Ratio(n, d))
<1> DEFINE b == bit_len(m)
           V == 2^(Word - 1)
           W == 2^Word
           sg == f.sig
<1>1. /\ Word \in Nat /\ Reach \in Nat /\ sg \in Nat /\ sg + 2 \in 0 .. Word /\ Word >= 12
      /\ Word - 1 \in 0 .. Word /\ Word \in 0 .. Word /\ Word - 1 <= Word
  <2>1. Word \in Nat /\ Word >= 12 /\ Shift \in Nat /\ 2 * Shift <= Word  BY ShiftRange
  <2>2. sg \in Nat /\ sg + 4 <= Shift  BY ShiftDeep
  <2> HIDE DEF sg
  <2> QED  BY <2>1, <2>2, ReachNat
<1>2. m < W
  <2>1. V <= W /\ V \in Nat /\ W \in Nat /\ m < V  BY <1>1, PowerMonotone, WordPowerType
  <2> HIDE DEF V, W
  <2> QED  BY <2>1
<1>3. b \in 0 .. Word /\ b <= Word - 1 /\ (m >= 2^(sg + 2) => b >= (sg + 2) + 1)
  <2>1. m < 2^Word /\ m \in Nat  BY <1>2
  <2> QED  BY <1>1, <2>1, BitLenBounds, BitLength
<1>4. g \in Int  BY <1>1 DEF Exponents
<1>5. b + g <= Reach
  <2> HIDE DEF b
  <2> QED  BY <1>1, <1>3, <1>4
<1>6. lost => m % 2 = 1 /\ b >= sg + 3
  <2>1. lost => m % 2 = 1 /\ b >= (sg + 2) + 1  BY <1>3
  <2>2. (sg + 2) + 1 = sg + 3  BY <1>1
  <2> QED  BY <2>1, <2>2
<1>7. bit_len(m) + g <= Reach /\ (lost => m % 2 = 1 /\ (bit_len(m) >= f.sig + 3 \/ g <= -2))
  BY <1>5, <1>6
<1> HIDE DEF b, V, W, sg
<1> QED  BY <1>7, RoundRatio

\* The words A and B, one scale apart from the numbers they stand for, add and
\* subtract to words that round to the exact sum and difference.
WordSums(f, rm, d, x, y, A, B, base) ==
    /\ A \in Nat /\ B \in Nat /\ A + B # 0
    /\ \A s \in BOOLEAN : round_pack(f, s, A + B, base, rm) = Rounded(f, s, rm, Ratio(x + y, d))
    /\ A = B => x = y
    /\ A > B => /\ x > y
                /\ \A s \in BOOLEAN :
                     round_pack(f, s, A - B, base, rm) = Rounded(f, s, rm, Ratio(x - y, d))
    /\ A < B => /\ x < y
                /\ \A s \in BOOLEAN :
                     round_pack(f, s, B - A, base, rm) = Rounded(f, s, rm, Ratio(y - x, d))

\* Sums and differences of two exact words.
LEMMA SumsExact ==
    ASSUME NEW f \in Formats, NEW rm \in Rms, NEW d \in Nat \ {0}, NEW x \in Nat \ {0}, NEW y \in Nat \ {0},
           NEW A \in Nat \ {0}, A < 2^(Word - 2), NEW B \in Nat, B < 2^(Word - 2),
           NEW base \in Int, NEW g \in Exponents, g = base - min_e(f), g + Word - 1 <= Reach,
           Scaled(x, A * d, g), Scaled(y, B * d, g)
    PROVE  WordSums(f, rm, d, x, y, A, B, base)
<1> DEFINE V == 2^(Word - 2)
           W == 2^(Word - 1)
           no == FALSE
           X == A * d
           Y == B * d
<1>1. V \in Nat /\ W = 2 * V
  <2>1. Word \in Nat /\ Word >= 12  BY ShiftRange
  <2>2. Word - 2 \in 0 .. Word /\ Word - 2 < Word /\ (Word - 2) + 1 = Word - 1  BY <2>1
  <2>3. V \in Nat /\ 2^((Word - 2) + 1) = 2 * V  BY <2>2, WordPowerType, WordPowerNext
  <2> QED  BY <2>2, <2>3
<1>2. A < V /\ B < V  OBVIOUS
<1>3. no \in BOOLEAN /\ ~ no  OBVIOUS
<1>4. X \in Int /\ Y \in Int /\ x \in Int /\ y \in Int /\ d \in Nat  OBVIOUS
<1>5. ASSUME NEW m \in Nat \ {0}, m < W, NEW n \in Nat, Scaled(n, m * d, g)
      PROVE  \A s \in BOOLEAN : round_pack(f, s, m, base, rm) = Rounded(f, s, rm, Ratio(n, d))
  <2>1. Near(n, d, m, g, FALSE)
    <3>1. m \in Nat /\ d \in Nat  BY <1>5
    <3> QED  BY <1>5, <3>1, ScaledNear
  <2>2. Near(n, d, m, g, no) /\ m < 2^(Word - 1)  BY <1>5, <2>1
  <2>3. no => m % 2 = 1 /\ m >= 2^(f.sig + 2)  OBVIOUS
  <2> HIDE DEF no
  <2> QED  BY <1>3, <2>2, <2>3, RoundAligned
<1>6. Scaled(x + y, X + Y, g) /\ Scaled(x - y, X - Y, g) /\ Scaled(y - x, Y - X, g)
  <2> HIDE DEF X, Y
  <2>1. Scaled(x, X, g) /\ Scaled(y, Y, g)  BY DEF X, Y
  <2> QED  BY <1>4, <2>1, ScaledSum
<1>7. (A + B) * d = X + Y /\ (A - B) * d = X - Y /\ (B - A) * d = Y - X  OBVIOUS
<1> HIDE DEF V, W, no, X, Y
<1>8. A + B \in Nat \ {0} /\ A + B < W  BY <1>1, <1>2
<1>9. \A s \in BOOLEAN : round_pack(f, s, A + B, base, rm) = Rounded(f, s, rm, Ratio(x + y, d))
  <2>1. x + y \in Nat /\ Scaled(x + y, (A + B) * d, g)  BY <1>6, <1>7
  <2> DEFINE m == A + B
             n == x + y
  <2>2. m \in Nat \ {0} /\ m < W /\ n \in Nat /\ Scaled(n, m * d, g)  BY <1>8, <2>1
  <2> HIDE DEF m, n
  <2>3. \A s \in BOOLEAN : round_pack(f, s, m, base, rm) = Rounded(f, s, rm, Ratio(n, d))
    BY <1>5, <2>2
  <2> QED  BY <2>3 DEF m, n
<1>10. A = B => x = y
  <2> SUFFICES ASSUME A = B PROVE x = y  OBVIOUS
  <2>1. X = Y  BY DEF X, Y
  <2>2. - g \in Exponents /\ 0 \in Exponents /\ 0 = g + (- g)  BY ReachNat DEF Exponents
  <2>3. Scaled(x, X, g) /\ Scaled(y, X, g)  BY <2>1 DEF X, Y
  <2>4. Scaled(X, y, - g)  BY <1>4, <2>3, ScaledBack
  <2>5. Scaled(x, y, 0)  BY <1>4, <2>2, <2>3, <2>4, ScaledCompose
  <2>6. x = y * 1  BY <2>5, ReachPowers DEF Scaled
  <2> QED  BY <2>6
<1>11. A > B => /\ x > y
                /\ \A s \in BOOLEAN :
                     round_pack(f, s, A - B, base, rm) = Rounded(f, s, rm, Ratio(x - y, d))
  <2> SUFFICES ASSUME A > B PROVE x > y /\ \A s \in BOOLEAN :
                     round_pack(f, s, A - B, base, rm) = Rounded(f, s, rm, Ratio(x - y, d))
    OBVIOUS
  <2>1. Y < X
    <3>1. B < A  OBVIOUS
    <3> QED  BY <3>1, TimesStrict DEF X, Y
  <2>2. y < x  BY <1>4, <2>1, ScaledOrder DEF X, Y
  <2> DEFINE m == A - B
             n == x - y
  <2>3. m \in Nat \ {0} /\ m < W /\ n \in Nat  BY <1>1, <1>2, <2>2
  <2>4. Scaled(n, m * d, g)  BY <1>6, <1>7
  <2> HIDE DEF m, n
  <2>5. \A s \in BOOLEAN : round_pack(f, s, m, base, rm) = Rounded(f, s, rm, Ratio(n, d))
    BY <1>5, <2>3, <2>4
  <2> QED  BY <2>2, <2>5 DEF m, n
<1>12. A < B => /\ x < y
                /\ \A s \in BOOLEAN :
                     round_pack(f, s, B - A, base, rm) = Rounded(f, s, rm, Ratio(y - x, d))
  <2> SUFFICES ASSUME A < B PROVE x < y /\ \A s \in BOOLEAN :
                     round_pack(f, s, B - A, base, rm) = Rounded(f, s, rm, Ratio(y - x, d))
    OBVIOUS
  <2>1. X < Y  BY TimesStrict DEF X, Y
  <2>2. x < y  BY <1>4, <2>1, ScaledOrder DEF X, Y
  <2> DEFINE m == B - A
             n == y - x
  <2>3. m \in Nat \ {0} /\ m < W /\ n \in Nat  BY <1>1, <1>2, <2>2
  <2>4. Scaled(n, m * d, g)  BY <1>6, <1>7
  <2> HIDE DEF m, n
  <2>5. \A s \in BOOLEAN : round_pack(f, s, m, base, rm) = Rounded(f, s, rm, Ratio(n, d))
    BY <1>5, <2>3, <2>4
  <2> QED  BY <2>2, <2>5 DEF m, n
<1> QED  BY <1>8, <1>9, <1>10, <1>11, <1>12 DEF WordSums

\* The same when the smaller operand lost bits.
LEMMA SumsLost ==
    ASSUME NEW f \in Formats, NEW rm \in Rms, NEW d \in Nat \ {0}, NEW x \in Nat \ {0}, NEW y \in Nat \ {0},
           NEW A \in Nat \ {0}, A < 2^(Word - 2), A >= 2^(Word - 3), A % 2 = 0,
           NEW B \in Nat, B < 2^(Word - 2), B % 2 = 1, B <= 2^(Word - 6),
           NEW base \in Int, NEW g \in Exponents, g = base - min_e(f), g + Word - 1 <= Reach,
           Scaled(x, A * d, g), LiesBelow((B - 1) * d, y, g), LiesAbove((B + 1) * d, y, g)
    PROVE  WordSums(f, rm, d, x, y, A, B, base)
<1> DEFINE V == 2^(Word - 2)
           W == 2^(Word - 1)
           U == 2^(Word - 3)
           Z == 2^(Word - 6)
           K == 2^(f.sig + 2)
           X == A * d
           lo == (B - 1) * d
           hi == (B + 1) * d
<1>1. V \in Nat /\ W = 2 * V /\ V = 2 * U /\ U = 8 * Z /\ K <= Z /\ Z \in Nat \ {0} /\ K \in Nat
  <2>1. Word \in Nat /\ Word >= 12 /\ Shift \in Nat /\ 2 * Shift <= Word  BY ShiftRange
  <2>2. f.sig \in Nat /\ f.sig + 4 <= Shift  BY ShiftDeep
  <2> DEFINE s == f.sig
  <2> HIDE DEF s
  <2>3. s \in Nat /\ s + 4 <= Shift  BY <2>2 DEF s
  <2>4. s + 2 \in 0 .. Word /\ s + 2 <= Word - 6  BY <2>1, <2>3
  <2>5. /\ Word - 6 \in 0 .. Word /\ Word - 5 \in 0 .. Word /\ Word - 4 \in 0 .. Word
        /\ Word - 3 \in 0 .. Word /\ Word - 2 \in 0 .. Word
        /\ Word - 6 < Word /\ Word - 5 < Word /\ Word - 4 < Word /\ Word - 3 < Word /\ Word - 2 < Word
        /\ (Word - 6) + 1 = Word - 5 /\ (Word - 5) + 1 = Word - 4 /\ (Word - 4) + 1 = Word - 3
        /\ (Word - 3) + 1 = Word - 2 /\ (Word - 2) + 1 = Word - 1
    BY <2>1
  <2> DEFINE Z1 == 2^(Word - 5)
             Z2 == 2^(Word - 4)
  <2>6. Z1 = 2 * Z  BY <2>5, WordPowerNext
  <2>7. Z2 = 2 * Z1  BY <2>5, WordPowerNext
  <2>8. U = 2 * Z2  BY <2>5, WordPowerNext
  <2>9. V = 2 * U  BY <2>5, WordPowerNext
  <2>10. W = 2 * V  BY <2>5, WordPowerNext
  <2>11. Z \in Nat \ {0}  BY <2>5, WordPowerType
  <2>12. K <= Z /\ K \in Nat  BY <2>4, <2>5, PowerMonotone, WordPowerType DEF s
  <2> HIDE DEF Z, Z1, Z2, U, V, W, K
  <2>13. U = 8 * Z  BY <2>6, <2>7, <2>8, <2>11
  <2> QED  BY <2>9, <2>10, <2>11, <2>12, <2>13
<1>2. A < V /\ B < V /\ A >= U /\ B <= Z  OBVIOUS
<1>4. X \in Int /\ lo \in Int /\ hi \in Int /\ x \in Int /\ y \in Int /\ d \in Nat  OBVIOUS
<1>5. ASSUME NEW m \in Nat \ {0}, m < W, m % 2 = 1, m >= K, NEW n \in Nat,
             LiesBelow((m - 1) * d, n, g), LiesAbove((m + 1) * d, n, g)
      PROVE  \A s \in BOOLEAN : round_pack(f, s, m, base, rm) = Rounded(f, s, rm, Ratio(n, d))
  <2>1. Near(n, d, m, g, TRUE)  BY <1>4, <1>5, BetweenNear
  <2>2. m % 2 = 1 /\ m >= 2^(f.sig + 2) /\ m \in Nat \ {0} /\ m < 2^(Word - 1) /\ n \in Nat
    BY <1>5
  <2> HIDE DEF V, W, U, Z, K, X, lo, hi
  <2>3. ASSUME NEW l \in BOOLEAN, Near(n, d, m, g, l)
        PROVE  \A s \in BOOLEAN : round_pack(f, s, m, base, rm) = Rounded(f, s, rm, Ratio(n, d))
    BY <2>2, <2>3, RoundAligned
  <2> QED  BY <2>1, <2>3
<1>6. /\ LiesBelow(X + lo, x + y, g) /\ LiesAbove(X - lo, x - y, g)
      /\ LiesAbove(X + hi, x + y, g) /\ LiesBelow(X - hi, x - y, g)
  <2>1. Scaled(x, X, g) /\ LiesBelow(lo, y, g) /\ LiesAbove(hi, y, g)  OBVIOUS
  <2> HIDE DEF X, lo, hi
  <2> QED  BY <1>4, <2>1, BelowSum
<1> DEFINE m == A + B
           k == A - B
<1>7. (m - 1) * d = X + lo /\ (m + 1) * d = X + hi /\ (k + 1) * d = X - lo /\ (k - 1) * d = X - hi
  OBVIOUS
<1>8. m % 2 = 1 /\ k % 2 = 1  OBVIOUS
<1> HIDE DEF V, W, U, Z, K, X, lo, hi
<1>9. m \in Nat \ {0} /\ m < W /\ m >= K /\ k \in Nat \ {0} /\ k < W /\ k >= K /\ k - 1 \in Nat
  BY <1>1, <1>2
<1>10. \A s \in BOOLEAN : round_pack(f, s, m, base, rm) = Rounded(f, s, rm, Ratio(x + y, d))
  <2> DEFINE n == x + y
  <2>1. n \in Nat /\ LiesBelow((m - 1) * d, n, g) /\ LiesAbove((m + 1) * d, n, g)  BY <1>6, <1>7
  <2> HIDE DEF m, n
  <2>2. \A s \in BOOLEAN : round_pack(f, s, m, base, rm) = Rounded(f, s, rm, Ratio(n, d))
    BY <1>5, <1>8, <1>9, <2>1
  <2> QED  BY <2>2 DEF n
<1>11. x > y /\ \A s \in BOOLEAN : round_pack(f, s, k, base, rm) = Rounded(f, s, rm, Ratio(x - y, d))
  <2> DEFINE n == x - y
             z == (k - 1) * d
  <2>1. n \in Int /\ LiesBelow((k - 1) * d, n, g) /\ LiesAbove((k + 1) * d, n, g)  BY <1>6, <1>7
  <2>2. z \in Nat
    <3> DEFINE c == k - 1
    <3>1. c \in Nat  BY <1>9
    <3> HIDE DEF c
    <3>2. c * d \in Nat  BY <3>1
    <3> QED  BY <3>2 DEF c
  <2> HIDE DEF n, z
  <2>3. n \in Nat \ {0}
    <3>1. LiesBelow(z, n, g)  BY <2>1 DEF z
    <3> QED  BY <2>1, <2>2, <3>1, BelowPositive
  <2> HIDE DEF k
  <2>4. \A s \in BOOLEAN : round_pack(f, s, k, base, rm) = Rounded(f, s, rm, Ratio(n, d))
    BY <1>5, <1>8, <1>9, <2>1, <2>3
  <2>5. x > y  BY <2>3 DEF n
  <2> QED  BY <2>4, <2>5 DEF n
<1>12. A > B  BY <1>9
<1>13. A + B # 0  BY <1>9
<1>14. ~ (A = B) /\ ~ (A < B)  BY <1>12
<1> QED  BY <1>10, <1>11, <1>12, <1>13, <1>14 DEF WordSums

\* Adding at the top of p.
LEMMA SumsAtTop ==
    ASSUME NEW f \in Formats, NEW rm \in Rms, NEW d \in Nat \ {0}, NEW x, NEW y, NEW p, NEW q,
           Addend(f, d, x, p), Addend(f, d, y, q), Top(q) <= Top(p),
           NEW base \in Int, base = Top(p) - (Word - 2), NEW g \in Exponents, g = base - min_e(f),
           g + Word - 1 <= Reach, g - (q.e - min_e(f)) <= Reach
    PROVE  WordSums(f, rm, d, x, y, scale(p.m, p.e, base), scale(q.m, q.e, base), base)
<1> DEFINE A == scale(p.m, p.e, base)
           B == scale(q.m, q.e, base)
<1>1. x \in Nat \ {0} /\ y \in Nat \ {0}  BY DEF Addend
<1>2. /\ A \in Nat \ {0} /\ A % 2 = 0 /\ A >= 2^(Word - 3) /\ A < 2^(Word - 2)
      /\ Scaled(x, A * d, g)
  BY AlignedTop
<1>3. PICK lost \in BOOLEAN : Aligned(y, d, B, g, lost)
  <2>1. Top(q) <= base + (Word - 2)
    <3>1. p.m \in Nat \ {0} /\ p.m < 2^(Word - 6) /\ p.e \in Int  BY DEF Addend
    <3>2. bit_len(p.m) \in Int /\ Word \in Nat
      <4>1. bit_len(p.m) \in 1 .. Word - 6 /\ Word \in Nat  BY <3>1, TopAligned, ShiftRange
      <4> QED  BY <4>1
    <3>3. Top(p) \in Int  BY <3>1, <3>2 DEF Top
    <3>4. base + (Word - 2) = Top(p)  BY <3>2, <3>3
    <3> QED  BY <3>4
  <2> QED  BY <2>1, AlignedBelow
<1> HIDE DEF A, B
<1>4. CASE lost
  <2>1. /\ B \in Nat /\ B < 2^(Word - 2) /\ B % 2 = 1 /\ B <= 2^(Word - 6)
        /\ LiesBelow((B - 1) * d, y, g) /\ LiesAbove((B + 1) * d, y, g)
    BY <1>3, <1>4 DEF Aligned
  <2>2. WordSums(f, rm, d, x, y, A, B, base)  BY <1>1, <1>2, <2>1, SumsLost
  <2> QED  BY <2>2 DEF A, B
<1>5. CASE ~ lost
  <2>1. B \in Nat /\ B < 2^(Word - 2) /\ Scaled(y, B * d, g)  BY <1>3, <1>5 DEF Aligned
  <2>2. WordSums(f, rm, d, x, y, A, B, base)  BY <1>1, <1>2, <2>1, SumsExact
  <2> QED  BY <2>2 DEF A, B
<1> QED  BY <1>4, <1>5

\* The exponent of the sum, with the larger operand p on top, and its distance
\* from q are in reach.
Meets(f, p, q) ==
    LET g == (Top(p) - (Word - 2)) - min_e(f)
    IN  g \in Exponents /\ g + Word - 1 <= Reach /\ g - (q.e - min_e(f)) <= Reach

\* The operands of a sum may be exchanged.
LEMMA SumsSwap ==
    ASSUME NEW f, NEW rm, NEW d, NEW x \in Nat, NEW y \in Nat, NEW A, NEW B, NEW base,
           WordSums(f, rm, d, x, y, A, B, base)
    PROVE  WordSums(f, rm, d, y, x, B, A, base)
<1>1. A \in Nat /\ B \in Nat /\ A + B = B + A /\ x + y = y + x  BY DEF WordSums
<1>2. (A > B <=> B < A) /\ (A < B <=> B > A) /\ (x > y <=> y < x) /\ (x < y <=> y > x) /\ (A = B <=> B = A)
  BY <1>1
<1> QED  BY <1>1, <1>2 DEF WordSums

\* Aligned at the top of the larger operand, whichever that is.
LEMMA SumsOf ==
    ASSUME NEW f \in Formats, NEW rm \in Rms, NEW d \in Nat \ {0}, NEW x, NEW y, NEW p, NEW q,
           Addend(f, d, x, p), Addend(f, d, y, q), Meets(f, p, q), Meets(f, q, p)
    PROVE  WordSums(f, rm, d, x, y, scale(p.m, p.e, Base(p, q)), scale(q.m, q.e, Base(p, q)), Base(p, q))
<1> DEFINE me == min_e(f)
           P == Top(p)
           Q == Top(q)
           base == Base(p, q)
<1>1. x \in Nat /\ y \in Nat  BY DEF Addend
<1>2. Word \in Nat /\ me \in Int /\ Reach \in Nat  BY WordReach
<1>3. ASSUME NEW n, NEW r, Addend(f, d, n, r) PROVE Top(r) \in Int
  <2>1. r.m \in Nat \ {0} /\ r.m < 2^(Word - 6) /\ r.e \in Int  BY <1>3 DEF Addend
  <2>2. bit_len(r.m) \in 1 .. Word - 6  BY <2>1, TopAligned
  <2> DEFINE b == bit_len(r.m)
             e == r.e
  <2>3. b \in Int /\ e \in Int  BY <1>2, <2>1, <2>2
  <2>4. Top(r) = e + b  BY DEF Top
  <2> HIDE DEF b, e
  <2> QED  BY <2>3, <2>4
<1>4. P \in Int /\ Q \in Int  BY <1>3
<1>5. base = Max({P, Q}) - (Word - 2)  BY DEF Base, Top
<1> HIDE DEF me, P, Q, base
<1>6. Max({P, Q}) \in {P, Q} /\ Max({P, Q}) >= P /\ Max({P, Q}) >= Q  BY <1>4, MaxOfTwo
<1>7. CASE Q <= P
  <2> DEFINE g == base - me
  <2>1. Max({P, Q}) = P  BY <1>4, <1>7, <1>6
  <2>2. base = P - (Word - 2) /\ base \in Int  BY <1>2, <1>4, <1>5, <2>1
  <2>3. g \in Exponents /\ g + Word - 1 <= Reach /\ g - (q.e - me) <= Reach
    BY <2>2 DEF Meets, P, me
  <2> HIDE DEF g
  <2>4. base = Top(p) - (Word - 2) /\ Top(q) <= Top(p)  BY <1>7, <2>2 DEF P, Q
  <2>5. g = base - min_e(f) /\ g - (q.e - min_e(f)) <= Reach  BY <2>3 DEF g, me
  <2>6. WordSums(f, rm, d, x, y, scale(p.m, p.e, base), scale(q.m, q.e, base), base)
    BY <2>2, <2>3, <2>4, <2>5, SumsAtTop
  <2> QED  BY <2>6 DEF base
<1>8. CASE P <= Q
  <2> DEFINE g == base - me
  <2>1. Max({P, Q}) = Q  BY <1>4, <1>8, <1>6
  <2>2. base = Q - (Word - 2) /\ base \in Int  BY <1>2, <1>4, <1>5, <2>1
  <2>3. g \in Exponents /\ g + Word - 1 <= Reach /\ g - (p.e - me) <= Reach
    BY <2>2 DEF Meets, Q, me
  <2> HIDE DEF g
  <2>4. base = Top(q) - (Word - 2) /\ Top(p) <= Top(q)  BY <1>8, <2>2 DEF P, Q
  <2>5. g = base - min_e(f) /\ g - (p.e - min_e(f)) <= Reach  BY <2>3 DEF g, me
  <2>6. WordSums(f, rm, d, y, x, scale(q.m, q.e, base), scale(p.m, p.e, base), base)
    BY <2>2, <2>3, <2>4, <2>5, SumsAtTop
  <2>7. WordSums(f, rm, d, x, y, scale(p.m, p.e, base), scale(q.m, q.e, base), base)
    BY <1>1, <2>6, SumsSwap
  <2> QED  BY <2>7 DEF base
<1> QED  BY <1>4, <1>7, <1>8

\* The sum with its sign, or the zero of the rounding mode.
LEMMA SignedSums ==
    ASSUME NEW f, NEW rm, NEW d, NEW x \in Nat \ {0}, NEW y \in Nat \ {0}, NEW A, NEW B, NEW base,
           WordSums(f, rm, d, x, y, A, B, base), NEW sp \in BOOLEAN, NEW sq \in BOOLEAN
    PROVE  RoundSum(f, SignedSum(sp, A, sq, B, base), rm)
             = RoundedRatio(f, WithSignOf(sp, x) + WithSignOf(sq, y), d, rm = "Rdn", rm)
<1> DEFINE z == rm = "Rdn"
           n == WithSignOf(sp, x) + WithSignOf(sq, y)
<1>0. \A s \in BOOLEAN : \A u \in Nat \ {0} : \A t :
        RoundedRatio(f, IF s THEN - u ELSE u, d, t, rm) = Rounded(f, s, rm, Ratio(u, d))
  BY RatioSign
<1>1. /\ A \in Nat /\ B \in Nat /\ A + B # 0 /\ A + B \in Int
      /\ \A s \in BOOLEAN : round_pack(f, s, A + B, base, rm) = Rounded(f, s, rm, Ratio(x + y, d))
      /\ A = B => x = y
      /\ A > B => /\ x > y
                  /\ \A s \in BOOLEAN :
                       round_pack(f, s, A - B, base, rm) = Rounded(f, s, rm, Ratio(x - y, d))
      /\ A < B => /\ x < y
                  /\ \A s \in BOOLEAN :
                       round_pack(f, s, B - A, base, rm) = Rounded(f, s, rm, Ratio(y - x, d))
  BY DEF WordSums
<1>2. zero_sign(rm) = z  BY DEF zero_sign
<1> HIDE DEF z
<1>3. ASSUME NEW s \in BOOLEAN, NEW m \in Int, m # 0, NEW u \in Nat \ {0}, n = WithSignOf(s, u),
             SignedSum(sp, A, sq, B, base) = Num(s, m, base),
             round_pack(f, s, m, base, rm) = Rounded(f, s, rm, Ratio(u, d))
      PROVE  RoundSum(f, SignedSum(sp, A, sq, B, base), rm) = RoundedRatio(f, n, d, z, rm)
  <2>1. Num(s, m, base).m = m /\ Num(s, m, base).sign = s /\ Num(s, m, base).e = base  BY DEF Num
  <2>2. RoundSum(f, Num(s, m, base), rm) = round_pack(f, s, m, base, rm)  BY <1>3, <2>1 DEF RoundSum
  <2>3. RoundedRatio(f, IF s THEN - u ELSE u, d, z, rm) = Rounded(f, s, rm, Ratio(u, d))
    BY <1>0, <1>3
  <2>4. n = IF s THEN - u ELSE u  BY <1>3 DEF WithSignOf
  <2> HIDE DEF n
  <2> QED  BY <1>3, <2>2, <2>3, <2>4
<1>4. WithSignOf(TRUE, x) = - x /\ WithSignOf(FALSE, x) = x /\ WithSignOf(TRUE, y) = - y /\ WithSignOf(FALSE, y) = y
  BY DEF WithSignOf
<1>5. CASE sp = sq
  <2>1. SignedSum(sp, A, sq, B, base) = Num(sp, A + B, base)  BY <1>5 DEF SignedSum
  <2>2. n = WithSignOf(sp, x + y)
    <3>1. CASE sp = TRUE
      <4>1. n = (- x) + (- y)  BY <1>4, <1>5, <3>1
      <4>2. WithSignOf(sp, x + y) = - (x + y)  BY <3>1 DEF WithSignOf
      <4> QED  BY <4>1, <4>2
    <3>2. CASE sp = FALSE
      <4>1. n = x + y  BY <1>4, <1>5, <3>2
      <4>2. WithSignOf(sp, x + y) = x + y  BY <3>2 DEF WithSignOf
      <4> QED  BY <4>1, <4>2
    <3> QED  BY <3>1, <3>2
  <2>3. x + y \in Nat \ {0}  OBVIOUS
  <2> HIDE DEF n
  <2> DEFINE m == A + B
             u == x + y
  <2>4. m \in Int /\ m # 0 /\ u \in Nat \ {0} /\ n = WithSignOf(sp, u)
        /\ SignedSum(sp, A, sq, B, base) = Num(sp, m, base)
        /\ round_pack(f, sp, m, base, rm) = Rounded(f, sp, rm, Ratio(u, d))
    BY <1>1, <2>1, <2>2, <2>3
  <2> HIDE DEF m, u
  <2>5. RoundSum(f, SignedSum(sp, A, sq, B, base), rm) = RoundedRatio(f, n, d, z, rm)
    BY <1>3, <2>4
  <2> QED  BY <2>5 DEF n, z
<1>6. CASE sp # sq /\ A = B
  <2>1. SignedSum(sp, A, sq, B, base) = Num(sp, A - B, base)  BY <1>1, <1>6 DEF SignedSum
  <2>2. A - B = 0  BY <1>1, <1>6
  <2>3. Num(sp, 0, base).m = 0  BY DEF Num
  <2>4. RoundSum(f, Num(sp, 0, base), rm) = Exact(zero(f, z))  BY <1>2, <2>3 DEF RoundSum
  <2>5. n = 0
    <3>1. x = y  BY <1>1, <1>6
    <3>2. CASE sp = TRUE
      <4>1. sq = FALSE  BY <1>6, <3>2
      <4>2. n = (- x) + x  BY <1>4, <3>1, <3>2, <4>1
      <4> QED  BY <4>2
    <3>3. CASE sp = FALSE
      <4>1. sq = TRUE  BY <1>6, <3>3
      <4>2. n = x + (- x)  BY <1>4, <3>1, <3>3, <4>1
      <4> QED  BY <4>2
    <3> QED  BY <3>2, <3>3
  <2> HIDE DEF n
  <2>6. RoundedRatio(f, n, d, z, rm) = Exact(zero(f, z))  BY <2>5 DEF RoundedRatio
  <2> QED  BY <2>1, <2>2, <2>4, <2>6 DEF n, z
<1>7. CASE sp # sq /\ A > B
  <2>1. SignedSum(sp, A, sq, B, base) = Num(sp, A - B, base)  BY <1>1, <1>7 DEF SignedSum
  <2>2. x > y /\ A - B \in Int /\ A - B # 0 /\ x - y \in Nat \ {0}  BY <1>1, <1>7
  <2>3. n = WithSignOf(sp, x - y)
    <3>1. CASE sp = TRUE
      <4>1. sq = FALSE  BY <1>7, <3>1
      <4>2. n = (- x) + y  BY <1>4, <3>1, <4>1
      <4>3. WithSignOf(sp, x - y) = - (x - y)  BY <3>1 DEF WithSignOf
      <4> QED  BY <4>2, <4>3
    <3>2. CASE sp = FALSE
      <4>1. sq = TRUE  BY <1>7, <3>2
      <4>2. n = x + (- y)  BY <1>4, <3>2, <4>1
      <4>3. WithSignOf(sp, x - y) = x - y  BY <3>2 DEF WithSignOf
      <4> QED  BY <4>2, <4>3
    <3> QED  BY <3>1, <3>2
  <2> HIDE DEF n
  <2> DEFINE m == A - B
             u == x - y
  <2>4. m \in Int /\ m # 0 /\ u \in Nat \ {0} /\ n = WithSignOf(sp, u)
        /\ SignedSum(sp, A, sq, B, base) = Num(sp, m, base)
        /\ round_pack(f, sp, m, base, rm) = Rounded(f, sp, rm, Ratio(u, d))
    BY <1>1, <1>7, <2>1, <2>2, <2>3
  <2> HIDE DEF m, u
  <2>5. RoundSum(f, SignedSum(sp, A, sq, B, base), rm) = RoundedRatio(f, n, d, z, rm)
    BY <1>3, <2>4
  <2> QED  BY <2>5 DEF n, z
<1>8. CASE sp # sq /\ A < B
  <2>1. SignedSum(sp, A, sq, B, base) = Num(sq, B - A, base)  BY <1>1, <1>8 DEF SignedSum
  <2>2. x < y /\ B - A \in Int /\ B - A # 0 /\ y - x \in Nat \ {0}  BY <1>1, <1>8
  <2>3. n = WithSignOf(sq, y - x)
    <3>1. CASE sp = TRUE
      <4>1. sq = FALSE  BY <1>8, <3>1
      <4>2. n = (- x) + y  BY <1>4, <3>1, <4>1
      <4>3. WithSignOf(sq, y - x) = y - x  BY <4>1 DEF WithSignOf
      <4> QED  BY <4>2, <4>3
    <3>2. CASE sp = FALSE
      <4>1. sq = TRUE  BY <1>8, <3>2
      <4>2. n = x + (- y)  BY <1>4, <3>2, <4>1
      <4>3. WithSignOf(sq, y - x) = - (y - x)  BY <4>1 DEF WithSignOf
      <4> QED  BY <4>2, <4>3
    <3> QED  BY <3>1, <3>2
  <2> HIDE DEF n
  <2> DEFINE m == B - A
             u == y - x
  <2>4. m \in Int /\ m # 0 /\ u \in Nat \ {0} /\ n = WithSignOf(sq, u)
        /\ SignedSum(sp, A, sq, B, base) = Num(sq, m, base)
        /\ round_pack(f, sq, m, base, rm) = Rounded(f, sq, rm, Ratio(u, d))
    BY <1>1, <1>8, <2>1, <2>2, <2>3
  <2> HIDE DEF m, u
  <2>5. RoundSum(f, SignedSum(sp, A, sq, B, base), rm) = RoundedRatio(f, n, d, z, rm)
    BY <1>3, <2>4
  <2> QED  BY <2>5 DEF n, z
<1> QED  BY <1>1, <1>5, <1>6, <1>7, <1>8

\* add_raw rounds the exact sum of its signed operands once.
LEMMA AddRounds ==
    ASSUME NEW f \in Formats, NEW rm \in Rms, NEW d \in Nat \ {0}, NEW x, NEW y, NEW p, NEW q,
           Addend(f, d, x, p), Addend(f, d, y, q), Meets(f, p, q), Meets(f, q, p),
           p.sign \in BOOLEAN, q.sign \in BOOLEAN
    PROVE  RoundSum(f, add_raw(p, q), rm)
             = RoundedRatio(f, WithSignOf(p.sign, x) + WithSignOf(q.sign, y), d, rm = "Rdn", rm)
<1> DEFINE base == Base(p, q)
           A == scale(p.m, p.e, base)
           B == scale(q.m, q.e, base)
           sp == p.sign
           sq == q.sign
<1>1. add_raw(p, q) = SignedSum(sp, A, sq, B, base)  BY DEF add_raw
<1>2. WordSums(f, rm, d, x, y, A, B, base)  BY SumsOf
<1>3. x \in Nat \ {0} /\ y \in Nat \ {0} /\ sp \in BOOLEAN /\ sq \in BOOLEAN  BY DEF Addend
<1> HIDE DEF A, B, base, sp, sq
<1>4. RoundSum(f, SignedSum(sp, A, sq, B, base), rm)
        = RoundedRatio(f, WithSignOf(sp, x) + WithSignOf(sq, y), d, rm = "Rdn", rm)
  BY <1>2, <1>3, SignedSums
<1> QED  BY <1>1, <1>4 DEF sp, sq

-----------------------------------------------------------------------------
(* Addition and subtraction of patterns *)

\* A number of the format rounds to itself.
LEMMA RoundedExact ==
    ASSUME NEW f \in Formats, NEW sign \in BOOLEAN, NEW rm \in Rms, NEW d \in Nat \ {0},
           NEW k \in 0 .. Infinity(f) - 1
    PROVE  Rounded(f, sign, rm, Ratio(Units(f, k) * d, d)) = Exact(zero(f, sign) + k)
<1> DEFINE I == Infinity(f)
           u == Units(f, k)
           v == Units(f, k + 1)
           n == u * d
           x == Ratio(n, d)
           half == Compare(x, u + v)
           no == FALSE
<1>1. I \in Nat  BY InfinityIs
<1>2. k \in Nat /\ k < I /\ k \in 0 .. I /\ k + 1 \in 0 .. I /\ k \in 0 .. (k + 1) - 1 /\ k # I
  <2> HIDE DEF I
  <2>1. k \in 0 .. I - 1  BY DEF I
  <2> QED  BY <1>1, <2>1
<1>3. u \in Nat /\ v \in Nat /\ u < v
  <2>1. \A i \in 0 .. I : Units(f, i) \in Nat /\ \A j \in 0 .. i - 1 : Units(f, j) < Units(f, i)
    BY UnitsOrdered
  <2> HIDE DEF I
  <2> QED  BY <1>2, <2>1
<1> HIDE DEF u, v
<1>4. n \in Nat /\ 2 * u \in Nat /\ 2 * v \in Nat  BY <1>3
<1>5. Compare(x, 2 * u) = 0
  <2>1. Compare(x, 2 * u) = Sgn(2 * n - (2 * u) * d)  BY <1>4, RatioOrder
  <2>2. 2 * (u * d) - (2 * u) * d = 0  BY <1>3
  <2> QED  BY <2>1, <2>2 DEF Sgn
<1>6. Compare(x, 2 * v) = -1
  <2> DEFINE w == 2 * n - (2 * v) * d
  <2>1. Compare(x, 2 * v) = Sgn(w)  BY <1>4, RatioOrder
  <2>2. u * d < v * d  BY <1>3, TimesStrict
  <2>3. u * d \in Int /\ v * d \in Int /\ (2 * v) * d = 2 * (v * d)  BY <1>3
  <2>4. w < 0 /\ w \in Int
    <3> DEFINE a == u * d
               b == v * d
    <3>1. w = 2 * a - 2 * b  BY <2>3
    <3> HIDE DEF a, b, w
    <3>2. a \in Int /\ b \in Int /\ a < b  BY <2>2, <2>3 DEF a, b
    <3> QED  BY <3>1, <3>2
  <2> HIDE DEF w
  <2> QED  BY <2>1, <2>4 DEF Sgn
<1>7. Sorted(x)  BY <1>4, RatioSorted
<1> HIDE DEF x
<1>8. /\ k \in 0 .. Infinity(f) /\ Compare(x, 2 * Units(f, k)) >= 0
      /\ k < Infinity(f) => Compare(x, 2 * Units(f, k + 1)) = -1
  BY <1>2, <1>5, <1>6 DEF I, u, v
<1>9. Max({i \in 0 .. Infinity(f) : Compare(x, 2 * Units(f, i)) >= 0}) = k
  BY <1>7, <1>8, LargestBelow
<1>10. Rounded(f, sign, rm, x) = Around(f, sign, rm, x, k)  BY <1>9 DEF Rounded
<1>11. Around(f, sign, rm, x, k) = Between(f, sign, rm, k, TRUE, half)
  <2>1. Around(f, sign, rm, x, k) = Between(f, sign, rm, k, Compare(x, 2 * u) = 0, half)
    BY <1>2 DEF Around, I, u, v
  <2>2. (Compare(x, 2 * u) = 0) = TRUE  BY <1>5
  <2> QED  BY <2>1, <2>2
<1> HIDE DEF half, I
<1>12. Between(f, sign, rm, k, TRUE, half) = Packed(f, sign, rm, k, FALSE)  BY DEF Between
<1>13. Packed(f, sign, rm, k, FALSE) = Exact(zero(f, sign) + k)  BY <1>2 DEF Packed, Exact, I
<1> QED  BY <1>10, <1>11, <1>12, <1>13 DEF x, n, u

\* So a finite operand comes back unchanged when nothing is added to it.
LEMMA ExactRounds ==
    ASSUME NEW f \in Formats, NEW a \in Int, ~ IsNan(f, a), ~ IsInf(f, a), ~ IsZero(f, a),
           NEW sign \in BOOLEAN, NEW rm \in Rms, NEW d \in Nat \ {0}, NEW z
    PROVE  RoundedRatio(f, WithSignOf(sign, UnitsOf(f, a) * d), d, z, rm) = Exact(WithSign(f, sign, a))
<1> DEFINE I == Infinity(f)
           k == Magnitude(f, a)
           u == Units(f, k)
           n == u * d
<1>1. I \in Nat /\ k \in Nat  BY InfinityIs, MaskedType
<1>2. k # 0 /\ k # I /\ ~ (k > I)  BY DEF IsNan, IsInf, IsZero
<1>3. k \in 0 .. I - 1 /\ k \in 0 .. I /\ 0 \in 0 .. k - 1
  <2> HIDE DEF I, k
  <2> QED  BY <1>1, <1>2
<1>4. u \in Nat \ {0}
  <2>1. Units(f, 0) = 0 /\ \A i \in 0 .. I : Units(f, i) \in Nat /\ \A j \in 0 .. i - 1 : Units(f, j) < Units(f, i)
    BY UnitsOrdered
  <2> HIDE DEF I, k
  <2>2. u \in Nat /\ 0 < u  BY <1>3, <2>1
  <2> QED  BY <2>2
<1>5. Rounded(f, sign, rm, Ratio(n, d)) = Exact(zero(f, sign) + k)  BY <1>3, RoundedExact
<1>6. n \in Nat \ {0}  BY <1>4, PositiveProduct
<1>7. UnitsOf(f, a) * d = n /\ WithSign(f, sign, a) = zero(f, sign) + k  BY DEF UnitsOf, WithSign
<1> HIDE DEF n, k
<1>8. RoundedRatio(f, IF sign THEN - n ELSE n, d, z, rm) = Rounded(f, sign, rm, Ratio(n, d))
  BY <1>6, RatioSign
<1> QED  BY <1>5, <1>7, <1>8 DEF WithSignOf

\* Two numbers of one format are never too far apart for the exponents in reach.
LEMMA MeetsIn ==
    ASSUME NEW f \in Formats, NEW p, NEW q, Top(p) \in Int, q.e \in Int,
           NEW lo \in Int, NEW hi \in Int, NEW l \in Int,
           Top(p) - min_e(f) >= lo, Top(p) - min_e(f) <= hi, q.e - min_e(f) >= l,
           (Word - 2) - lo <= Reach, hi + 1 <= Reach, hi - (Word - 2) - l <= Reach
    PROVE  Meets(f, p, q)
<1> DEFINE T == Top(p)
           e == q.e
           me == min_e(f)
           g == (T - (Word - 2)) - me
<1>1. Word \in Nat /\ Reach \in Nat /\ me \in Int /\ Word >= 12  BY WordReach, ShiftRange
<1>2. T \in Int /\ e \in Int /\ T - me >= lo /\ T - me <= hi /\ e - me >= l  OBVIOUS
<1> HIDE DEF T, e, me
<1>3. g \in Int /\ g <= hi - (Word - 2) /\ g >= lo - (Word - 2)  BY <1>1, <1>2
<1>4. g + Word - 1 <= hi + 1 /\ g - (e - me) <= hi - (Word - 2) - l  BY <1>1, <1>2
<1> HIDE DEF g
<1>5. g \in - Reach .. Reach  BY <1>1, <1>3
<1>6. g + Word - 1 <= Reach /\ g - (e - me) <= Reach  BY <1>1, <1>2, <1>3, <1>4
<1> QED  BY <1>5, <1>6 DEF Meets, Exponents, g, T, e, me

\* A finite number, as an addend over any denominator.
LEMMA AddendOf ==
    ASSUME NEW f \in Formats, NEW a, NEW p, Means(f, a, p), NEW d \in Nat \ {0}
    PROVE  /\ Addend(f, d, UnitsOf(f, a) * d, p) /\ Top(p) \in Int
           /\ p.e - min_e(f) >= - f.sig /\ p.e \in Int
           /\ Top(p) - min_e(f) >= - f.sig /\ Top(p) - min_e(f) <= 2 * bias(f) + f.sig
<1> DEFINE U == UnitsOf(f, a)
           m == p.m
           e == p.e
           s == f.sig
           v == bias(f)
           me == min_e(f)
           b == bit_len(m)
           g == e - me
<1>1. m \in Nat \ {0} /\ m < 2^(s + 1)  BY SignificandFits
<1>2. e \in Int /\ g \in - s .. max_field(f) - 2 /\ Scaled(U, m, g) /\ U \in Nat \ {0}  BY DEF Means
<1>3. /\ Word \in Nat /\ Reach \in Nat /\ s \in Nat /\ s >= 2 /\ 2 * s + 8 <= Word /\ v \in Nat \ {0}
      /\ Word + v + s <= Reach /\ 3 * (v + s) <= Reach /\ me \in Int /\ max_field(f) = 2 * v + 1
  BY WordReach
<1>4. s + 1 \in 0 .. Word /\ Word - 6 \in 0 .. Word /\ s + 1 <= Word - 6 /\ Word \in 0 .. Word /\ Word - 6 <= Word
  <2> HIDE DEF s
  <2> QED  BY <1>3
<1>5. m < 2^(Word - 6) /\ m < 2^Word
  <2> DEFINE A == 2^(s + 1)
             B == 2^(Word - 6)
             C == 2^Word
  <2>1. A <= B /\ B <= C /\ A \in Nat /\ B \in Nat /\ C \in Nat  BY <1>4, PowerMonotone, WordPowerType
  <2>2. m < A  BY <1>1
  <2> HIDE DEF A, B, C, m
  <2>3. m < B /\ m < C  BY <1>1, <2>1, <2>2
  <2> QED  BY <2>3 DEF B, C
<1>6. b \in 1 .. Word - 6 /\ b <= s + 1
  <2>1. b \in 1 .. Word - 6  BY <1>1, <1>5, TopAligned
  <2>2. m \in Nat  BY <1>1
  <2>3. b <= s + 1  BY <1>1, <1>4, <1>5, <2>2, BitLenBounds
  <2> QED  BY <2>1, <2>3
<1>7. Top(p) = e + b  BY DEF Top
<1> HIDE DEF e, b, me, s, v, m
<1>8. g \in Int /\ g >= - s /\ g <= 2 * v - 1  BY <1>2, <1>3
<1>9. b \in Nat /\ b >= 1  BY <1>3, <1>6
<1>10. e + b \in Int /\ (e + b) - me >= - s /\ (e + b) - me <= 2 * v + s  BY <1>2, <1>3, <1>6, <1>8, <1>9
<1>11. g \in Exponents
  <2> HIDE DEF g
  <2>1. g \in - Reach .. Reach  BY <1>3, <1>8
  <2> QED  BY <2>1 DEF Exponents
<1> HIDE DEF U
<1>12. Scaled(U * d, m * d, g)
  <2> HIDE DEF g
  <2>1. U \in Int /\ m \in Int /\ d \in Int  BY <1>1, <1>2
  <2> QED  BY <1>2, <1>11, <2>1, ScaledTimes
<1>13. U * d \in Nat \ {0}  BY <1>2, PositiveProduct
<1>14. Addend(f, d, U * d, p)  BY <1>1, <1>2, <1>5, <1>11, <1>12, <1>13 DEF Addend, m, e, me
<1> QED  BY <1>2, <1>7, <1>8, <1>10, <1>14 DEF U, e, me, s, v

\* Negating an operand changes its sign and nothing else.
LEMMA FlipIs ==
    ASSUME NEW f \in Formats, NEW x \in Int, NEW negate \in BOOLEAN
    PROVE  LET q == Flip(unpack(f, x), negate)
           IN  Unpacks(f, x, q) /\ q.sign = (Negative(f, x) # negate) /\ q.sign \in BOOLEAN
<1> DEFINE p == unpack(f, x)
           q == Flip(p, negate)
<1>1. Operand(p, f.sig + 1)  BY UnpackOperand
<1>2. Unpacks(f, x, p) /\ p.sign = Negative(f, x)  BY UnpackIs
<1> HIDE DEF p
<1>3. q.m = p.m /\ q.e = p.e /\ q.cls = p.cls /\ q.sign = (p.sign # negate)
  BY <1>1 DEF Operand, Flip, Unpackings
<1>4. q.sign \in BOOLEAN  BY <1>3
<1> HIDE DEF q
<1>5. /\ is_nan(q) <=> is_nan(p)
      /\ is_snan(q) <=> is_snan(p)
      /\ is_inf(q) <=> is_inf(p)
      /\ is_zero(q) <=> is_zero(p)
  BY <1>3 DEF is_nan, is_snan, is_inf, is_zero
<1>6. Means(f, x, q) <=> Means(f, x, p)  BY <1>3 DEF Means
<1>7. Unpacks(f, x, q)  BY <1>2, <1>3, <1>4, <1>5, <1>6 DEF Unpacks
<1> QED  BY <1>2, <1>3, <1>4, <1>7 DEF p, q

\* The units of a finite operand, with a sign, over a denominator.
LEMMA SignedTimes ==
    ASSUME NEW U \in Nat, NEW d \in Nat, NEW sign \in BOOLEAN
    PROVE  /\ d * (IF sign THEN - U ELSE U) = WithSignOf(sign, U * d)
           /\ WithSignOf(sign, U * d) \in Int
           /\ U = 0 => WithSignOf(sign, U * d) = 0
<1>1. CASE sign = TRUE
  <2>1. d * (- U) = - (U * d) /\ - (U * d) \in Int  OBVIOUS
  <2>2. WithSignOf(sign, U * d) = - (U * d)  BY <1>1 DEF WithSignOf
  <2>3. U = 0 => - (U * d) = 0
    <3> SUFFICES ASSUME U = 0 PROVE - (U * d) = 0  OBVIOUS
    <3> DEFINE n == U * d
    <3>1. n = 0  OBVIOUS
    <3>2. \A x \in Int : \A y \in Int : x + y = 0 => y = - x  OBVIOUS
    <3> HIDE DEF n
    <3>3. n \in Int /\ n + n = 0  BY <3>1
    <3>4. n = - n  BY <3>2, <3>3
    <3> QED  BY <3>1, <3>4 DEF n
  <2> QED  BY <1>1, <2>1, <2>2, <2>3
<1>2. CASE sign = FALSE
  <2>1. WithSignOf(sign, U * d) = U * d  BY <1>2 DEF WithSignOf
  <2> QED  BY <1>2, <2>1
<1> QED  BY <1>1, <1>2

\* One denominator: addition and subtraction of two numbers.
LEMMA NumbersMeet ==
    ASSUME NEW f \in Formats, NEW a, NEW p, Means(f, a, p), NEW b, NEW q, Means(f, b, q)
    PROVE  Meets(f, p, q)
<1> DEFINE s == f.sig
           v == bias(f)
           lo == - s
           hi == 2 * v + s
           l == - s
           me == min_e(f)
           T == Top(p)
           e == q.e
<1>1. /\ Word \in Nat /\ Reach \in Nat /\ s \in Nat /\ s >= 2 /\ 2 * s + 8 <= Word /\ v \in Nat \ {0}
      /\ Word + v + s <= Reach /\ 3 * (v + s) <= Reach
  BY WordReach
<1>2. 1 \in Nat \ {0}  OBVIOUS
<1>3. T \in Int /\ T - me >= lo /\ T - me <= hi  BY <1>2, AddendOf
<1>4. e \in Int /\ e - me >= l  BY <1>2, AddendOf
<1> HIDE DEF s, v, me, T, e
<1>5. lo \in Int /\ hi \in Int /\ l \in Int /\ (Word - 2) - lo <= Reach /\ hi + 1 <= Reach
      /\ hi - (Word - 2) - l <= Reach
  BY <1>1
<1> HIDE DEF lo, hi, l
<1>6. /\ Top(p) \in Int /\ q.e \in Int /\ Top(p) - min_e(f) >= lo /\ Top(p) - min_e(f) <= hi
      /\ q.e - min_e(f) >= l
  BY <1>3, <1>4 DEF T, e, me
<1> QED  BY <1>5, <1>6, MeetsIn

\* Addition and subtraction round the exact sum once.
LEMMA AddSubRounds ==
    ASSUME NEW f \in Formats, NEW a \in Patterns(f), NEW b \in Patterns(f), NEW rm \in Rms,
           NEW negate \in BOOLEAN
    PROVE  add_or_sub(f, a, b, rm, negate) = SumSpec(f, a, b, Negative(f, b) # negate, rm)
<1> DEFINE p == unpack(f, a)
           q == Flip(unpack(f, b), negate)
           sa == Negative(f, a)
           sb == Negative(f, b) # negate
           U == UnitsOf(f, a)
           V == UnitsOf(f, b)
           z == rm = "Rdn"
           one == 1
           code == AddUnpacked(f, a, p, b, q, rm)
           zs == IF SignedUnits(f, a) = 0 /\ IsZero(f, b) THEN SumSign(sa, sb, rm) ELSE z
           n == SignedUnits(f, a) + one * (IF sb THEN - V ELSE V)
<1>1. add_or_sub(f, a, b, rm, negate) = code  BY DEF add_or_sub
<1>2. a \in Int /\ b \in Int /\ Masked(f, a) = a  BY PatternIs
<1>3. Unpacks(f, a, p) /\ p.sign = sa /\ sa \in BOOLEAN  BY <1>2, UnpackIs
<1>4. Unpacks(f, b, q) /\ q.sign = sb /\ sb \in BOOLEAN  BY <1>2, FlipIs
<1>5. SumSpec(f, a, b, sb, rm) =
        IF IsNan(f, a) \/ IsNan(f, b) THEN Nan(f, {a, b})
        ELSE IF IsInf(f, a) /\ IsInf(f, b) /\ sa # sb THEN Invalid(f)
        ELSE IF IsInf(f, a) THEN Exact(inf(f, sa))
        ELSE IF IsInf(f, b) THEN Exact(inf(f, sb))
        ELSE RoundedRatio(f, n, one, zs, rm)
  BY DEF SumSpec, Summed
<1>6. SignedUnits(f, a) = (IF sa THEN - U ELSE U)  BY DEF SignedUnits
<1>7. zero_sign(rm) = z  BY DEF zero_sign
<1>8. invalid(f) = Invalid(f)  BY DEF invalid, Invalid
<1>9. code =
        IF is_nan(p) \/ is_nan(q) THEN nan_result(f, {p, q})
        ELSE IF is_inf(p) /\ is_inf(q) /\ sa # sb THEN Invalid(f)
        ELSE IF is_inf(p) THEN Exact(inf(f, sa))
        ELSE IF is_inf(q) THEN Exact(inf(f, sb))
        ELSE IF is_zero(p) /\ is_zero(q) THEN SumOfZeros(f, sa, sb, rm)
        ELSE IF is_zero(p) THEN Exact(WithSign(f, sb, b))
        ELSE IF is_zero(q) THEN Exact(Masked(f, a))
        ELSE RoundSum(f, add_raw(p, q), rm)
  <2> HIDE DEF p, q, sa, sb
  <2> QED  BY <1>3, <1>4, <1>8 DEF AddUnpacked
<1> HIDE DEF p, q, sa, sb, U, V, z, code, zs
<1>10. (is_nan(p) <=> IsNan(f, a)) /\ (is_nan(q) <=> IsNan(f, b)) /\ (is_inf(p) <=> IsInf(f, a))
       /\ (is_inf(q) <=> IsInf(f, b)) /\ (is_zero(p) <=> IsZero(f, a)) /\ (is_zero(q) <=> IsZero(f, b))
  BY <1>3, <1>4 DEF Unpacks
<1>11. CASE is_nan(p) \/ is_nan(q)
  <2>1. nan_result(f, {p, q}) = Nan(f, {a, b})  BY <1>3, <1>4, NanIs DEF Unpacks
  <2> QED  BY <1>1, <1>5, <1>9, <1>10, <1>11, <2>1 DEF sb
<1>12. CASE ~ (is_nan(p) \/ is_nan(q)) /\ (is_inf(p) \/ is_inf(q))
  <2> HIDE DEF n
  <2>1. code = SumSpec(f, a, b, sb, rm)  BY <1>5, <1>9, <1>10, <1>12
  <2> QED  BY <1>1, <2>1 DEF sb
<1>13. CASE ~ (is_nan(p) \/ is_nan(q)) /\ ~ (is_inf(p) \/ is_inf(q))
  <2>1. SumSpec(f, a, b, sb, rm) = RoundedRatio(f, n, one, zs, rm)
    <3> HIDE DEF n
    <3> QED  BY <1>5, <1>10, <1>13
  <2>2. ASSUME NEW c, NEW r, Unpacks(f, c, r), ~ is_nan(r), ~ is_inf(r)
        PROVE  UnitsOf(f, c) \in Nat /\ (is_zero(r) <=> UnitsOf(f, c) = 0)
    BY <2>2 DEF Unpacks, Means
  <2>3. U \in Nat /\ (is_zero(p) <=> U = 0)  BY <1>3, <1>13, <2>2 DEF U
  <2>4. V \in Nat /\ (is_zero(q) <=> V = 0)  BY <1>4, <1>13, <2>2 DEF V
  <2>5. one \in Nat \ {0} /\ U * one = U /\ V * one = V  BY <2>3, <2>4
  <2>6. n = WithSignOf(sa, U) + WithSignOf(sb, V)
    <3>1. one * (IF sb THEN - V ELSE V) = WithSignOf(sb, V * one)
      <4> HIDE DEF one
      <4> QED  BY <1>4, <2>4, <2>5, SignedTimes
    <3>2. SignedUnits(f, a) = WithSignOf(sa, U)  BY <1>6 DEF WithSignOf
    <3> QED  BY <2>5, <3>1, <3>2
  <2>7. /\ WithSignOf(sa, U) \in Int /\ WithSignOf(sb, V) \in Int
        /\ U = 0 => WithSignOf(sa, U) = 0
        /\ V = 0 => WithSignOf(sb, V) = 0
    <3> HIDE DEF one
    <3>1. one \in Nat  BY <2>5
    <3>2. ASSUME NEW X \in Nat, X * one = X, NEW t \in BOOLEAN
          PROVE  WithSignOf(t, X) \in Int /\ (X = 0 => WithSignOf(t, X) = 0)
      <4>1. WithSignOf(t, X * one) \in Int /\ (X = 0 => WithSignOf(t, X * one) = 0)
        BY <3>1, SignedTimes
      <4> QED  BY <3>2, <4>1
    <3> QED  BY <1>3, <1>4, <2>3, <2>4, <2>5, <3>2
  <2>8. SignedUnits(f, a) = 0 <=> U = 0
    <3>1. CASE sa = TRUE  BY <1>6, <2>3, <3>1
    <3>2. CASE sa = FALSE  BY <1>6, <2>3, <3>2
    <3> QED  BY <1>3, <3>1, <3>2
  <2> HIDE DEF n, one
  <2>9. CASE is_zero(p) /\ is_zero(q)
    <3>1. n = 0  BY <2>3, <2>4, <2>6, <2>7, <2>9
    <3>2. zs = SumSign(sa, sb, rm)  BY <1>10, <2>3, <2>8, <2>9 DEF zs
    <3>3. RoundedRatio(f, n, one, zs, rm) = Exact(zero(f, zs))  BY <3>1 DEF RoundedRatio
    <3>4. SumOfZeros(f, sa, sb, rm) = Exact(zero(f, SumSign(sa, sb, rm)))
      BY DEF SumOfZeros, SumSign, zero_sign
    <3>5. code = SumOfZeros(f, sa, sb, rm)  BY <1>9, <1>13, <2>9
    <3> QED  BY <1>1, <2>1, <3>2, <3>3, <3>4, <3>5 DEF sb
  <2>10. CASE is_zero(p) /\ ~ is_zero(q)
    <3>1. n = WithSignOf(sb, V * one)  BY <2>3, <2>5, <2>6, <2>7, <2>10
    <3>2. \A t : RoundedRatio(f, WithSignOf(sb, V * one), one, t, rm) = Exact(WithSign(f, sb, b))
      BY <1>2, <1>4, <1>10, <1>13, <2>5, <2>10, ExactRounds DEF V
    <3>3. code = Exact(WithSign(f, sb, b))  BY <1>9, <1>13, <2>10
    <3>4. RoundedRatio(f, n, one, zs, rm) = Exact(WithSign(f, sb, b))  BY <3>1, <3>2
    <3> QED  BY <1>1, <2>1, <3>3, <3>4 DEF sb
  <2>11. CASE ~ is_zero(p) /\ is_zero(q)
    <3>1. n = WithSignOf(sa, U * one)  BY <2>4, <2>5, <2>6, <2>7, <2>11
    <3>2. \A t : RoundedRatio(f, WithSignOf(sa, U * one), one, t, rm) = Exact(WithSign(f, sa, a))
      BY <1>2, <1>3, <1>10, <1>13, <2>5, <2>11, ExactRounds DEF U
    <3>3. code = Exact(Masked(f, a))  BY <1>9, <1>13, <2>11
    <3>4. WithSign(f, sa, a) = a
      <4> DEFINE M == Magnitude(f, a)
                 K == 2^(f.bits - 1)
      <4>1. a = M + IF sa THEN K ELSE 0  BY PatternIs DEF sa
      <4>2. WithSign(f, sa, a) = (IF sa THEN K ELSE 0) + M  BY DEF WithSign, zero, sign_mask
      <4>3. M \in Int /\ K \in Int  BY <1>2, MaskedType, FormatPowers
      <4> HIDE DEF M, K
      <4> QED  BY <4>1, <4>2, <4>3
    <3>5. RoundedRatio(f, n, one, zs, rm) = Exact(WithSign(f, sa, a))  BY <3>1, <3>2
    <3> QED  BY <1>1, <1>2, <2>1, <3>3, <3>4, <3>5 DEF sb
  <2>12. CASE ~ is_zero(p) /\ ~ is_zero(q)
    <3>1. Means(f, a, p) /\ Means(f, b, q)  BY <1>3, <1>4, <1>13, <2>12 DEF Unpacks
    <3>2. Meets(f, p, q) /\ Meets(f, q, p)  BY <3>1, NumbersMeet
    <3>3. Addend(f, one, U, p) /\ Addend(f, one, V, q)
      <4>1. Addend(f, one, UnitsOf(f, a) * one, p) /\ Addend(f, one, UnitsOf(f, b) * one, q)
        BY <2>5, <3>1, AddendOf
      <4> QED  BY <2>5, <4>1 DEF U, V
    <3>4. p.sign \in BOOLEAN /\ q.sign \in BOOLEAN  BY <1>3, <1>4
    <3>5. RoundSum(f, add_raw(p, q), rm)
            = RoundedRatio(f, WithSignOf(p.sign, U) + WithSignOf(q.sign, V), one, rm = "Rdn", rm)
      BY <2>5, <3>2, <3>3, <3>4, AddRounds
    <3>6. RoundSum(f, add_raw(p, q), rm) = RoundedRatio(f, n, one, z, rm)
      BY <1>3, <1>4, <2>6, <3>5 DEF z
    <3>7. zs = z  BY <2>3, <2>8, <2>12 DEF zs
    <3>8. code = RoundSum(f, add_raw(p, q), rm)  BY <1>9, <1>13, <2>12
    <3> QED  BY <1>1, <2>1, <3>6, <3>7, <3>8 DEF sb
  <2> QED  BY <2>9, <2>10, <2>11, <2>12
<1> QED  BY <1>11, <1>12, <1>13

-----------------------------------------------------------------------------
(* Fused multiply-add *)

\* The exact product of two numbers, as an addend.
LEMMA ProductAddend ==
    ASSUME NEW f \in Formats, NEW a, NEW p, Means(f, a, p), NEW b, NEW q, Means(f, b, q), NEW sign
    PROVE  LET x == Num(sign, p.m * q.m, p.e + q.e)
           IN  /\ Addend(f, Scale(f), UnitsOf(f, a) * UnitsOf(f, b), x)
               /\ Top(x) \in Int /\ x.e \in Int
               /\ x.e - min_e(f) >= - 2 * f.sig - (bias(f) + f.sig - 1)
               /\ Top(x) - min_e(f) >= 2 - (bias(f) + f.sig)
               /\ Top(x) - min_e(f) <= 3 * bias(f) + f.sig + 1
<1> DEFINE x == Num(sign, p.m * q.m, p.e + q.e)
           m == p.m * q.m
           e == p.e + q.e
           s == f.sig
           v == bias(f)
           me == min_e(f)
           k == 2 * s + 2
           g == e - me
           bl == bit_len(m)
           n == UnitsOf(f, a) * UnitsOf(f, b)
           T == Scale(f)
<1>1. x.m = m /\ x.e = e  BY DEF Num
<1>2. /\ m \in Nat \ {0} /\ m < 2^k /\ k \in 0 .. Word - 1 /\ n \in Nat \ {0}
      /\ g \in Exponents /\ p.e \in Int /\ q.e \in Int
      /\ g >= - 2 * s - (v + s - 1) /\ Scaled(n, m * T, g)
  BY ProductScaled
<1>3. /\ Word \in Nat /\ Reach \in Nat /\ s \in Nat /\ s >= 2 /\ 2 * s + 8 <= Word /\ v \in Nat \ {0}
      /\ me = 1 - v - s /\ me \in Int /\ max_field(f) = 2 * v + 1
  BY WordReach
<1>4. g <= 3 * v - s - 1 /\ e \in Int
  <2> DEFINE i == p.e
             j == q.e
  <2>1. i \in Int /\ j \in Int /\ i - me <= 2 * v - 1 /\ j - me <= 2 * v - 1
    <3>1. i \in Int /\ j \in Int /\ i - me \in - s .. max_field(f) - 2 /\ j - me \in - s .. max_field(f) - 2
      BY DEF Means
    <3> HIDE DEF i, j, me, s, v
    <3> QED  BY <1>3, <3>1
  <2>2. g = (i + j) - me /\ e = i + j  OBVIOUS
  <2> HIDE DEF i, j, g, e, me, s, v
  <2> QED  BY <1>3, <2>1, <2>2
<1>5. k \in 0 .. Word /\ Word - 6 \in 0 .. Word /\ k <= Word - 6 /\ Word \in 0 .. Word /\ Word - 6 <= Word
      /\ s \in 0 .. Word /\ s + s \in 0 .. Word
  <2> HIDE DEF s
  <2> QED  BY <1>3
<1>6. m < 2^(Word - 6) /\ m < 2^Word
  <2> DEFINE A == 2^k
             B == 2^(Word - 6)
             C == 2^Word
  <2>1. A <= B /\ B <= C /\ A \in Nat /\ B \in Nat /\ C \in Nat  BY <1>5, PowerMonotone, WordPowerType
  <2>2. m < A  BY <1>2
  <2> HIDE DEF A, B, C, m
  <2>3. m < B /\ m < C  BY <1>2, <2>1, <2>2
  <2> QED  BY <2>3 DEF B, C
<1>7. m >= 2^(s + s)
  <2> DEFINE A == 2^s
             i == p.m
             j == q.m
  <2>1. A \in Nat /\ 2^(s + s) = A * A  BY <1>5, WordPowerType, WordPowerSum
  <2>2. i \in Nat /\ j \in Nat /\ A <= i /\ A <= j
    <3>1. i \in Nat /\ j \in Nat /\ i >= A /\ j >= A  BY DEF Means
    <3> HIDE DEF A, i, j
    <3> QED  BY <2>1, <3>1
  <2> HIDE DEF A, i, j
  <2>3. A * A <= i * j  BY <2>1, <2>2, TimesMonotone
  <2>4. m = i * j  BY DEF i, j
  <2> HIDE DEF m
  <2>5. A * A \in Int /\ i * j \in Int  BY <2>1, <2>2
  <2> DEFINE X == A * A
             Y == i * j
  <2>6. X \in Int /\ Y \in Int /\ X <= Y /\ m = Y  BY <2>3, <2>4, <2>5
  <2> HIDE DEF X, Y
  <2>7. m >= X  BY <2>6
  <2> QED  BY <2>1, <2>7 DEF X
<1>8. bl \in Nat /\ bl <= k /\ bl >= (s + s) + 1
  <2>1. m \in Nat  BY <1>2
  <2>2. bl \in 1 .. Word - 6  BY <1>2, <1>6, TopAligned
  <2>3. bl <= k /\ bl >= (s + s) + 1  BY <1>2, <1>5, <1>6, <1>7, <2>1, BitLenBounds
  <2> HIDE DEF bl
  <2>4. bl \in Nat  BY <1>3, <2>2
  <2> QED  BY <2>3, <2>4
<1>9. Top(x) = e + bl  BY <1>1 DEF Top
<1> HIDE DEF x, m, e, s, v, me, bl, n, T
<1>10. g \in Int  BY <1>3, <1>4
<1>11. /\ e + bl \in Int /\ (e + bl) - me >= 2 - (v + s)
       /\ (e + bl) - me <= 3 * v + s + 1
  <2>1. (e + bl) - me = g + bl  BY <1>3, <1>4, <1>8
  <2>2. e + bl \in Int  BY <1>4, <1>8
  <2> HIDE DEF g
  <2>3. g + bl >= 2 - (v + s) /\ g + bl <= 3 * v + s + 1  BY <1>2, <1>3, <1>4, <1>8, <1>10
  <2> QED  BY <2>1, <2>2, <2>3
<1>12. Addend(f, T, n, x)  BY <1>1, <1>2, <1>4, <1>6 DEF Addend, me
<1> QED  BY <1>1, <1>2, <1>4, <1>9, <1>11, <1>12 DEF x, s, v, me, n, T

\* The product and the addend meet, whichever is the larger.
LEMMA ProductMeets ==
    ASSUME NEW f \in Formats, NEW a, NEW p, Means(f, a, p), NEW b, NEW q, Means(f, b, q), NEW sign,
           NEW c, NEW r, Means(f, c, r)
    PROVE  LET x == Num(sign, p.m * q.m, p.e + q.e) IN Meets(f, x, r) /\ Meets(f, r, x)
<1> DEFINE x == Num(sign, p.m * q.m, p.e + q.e)
           s == f.sig
           v == bias(f)
           me == min_e(f)
           X == Top(x)
           i == x.e
           R == Top(r)
           j == r.e
<1>1. /\ Word \in Nat /\ Reach \in Nat /\ s \in Nat /\ s >= 2 /\ 2 * s + 8 <= Word /\ v \in Nat \ {0}
      /\ Word + v + s <= Reach /\ 3 * (v + s) <= Reach
  BY WordReach
<1>2. /\ X \in Int /\ i \in Int /\ i - me >= - 2 * s - (v + s - 1)
      /\ X - me >= 2 - (v + s) /\ X - me <= 3 * v + s + 1
  BY ProductAddend
<1>3. R \in Int /\ j \in Int /\ j - me >= - s /\ R - me >= - s /\ R - me <= 2 * v + s
  <2>1. 1 \in Nat \ {0}  OBVIOUS
  <2> QED  BY <2>1, AddendOf
<1> HIDE DEF x, s, v, me, X, i, R, j
<1>4. Meets(f, x, r)
  <2> DEFINE lo == 2 - (v + s)
             hi == 3 * v + s + 1
             l == - s
  <2>1. lo \in Int /\ hi \in Int /\ l \in Int /\ (Word - 2) - lo <= Reach /\ hi + 1 <= Reach
        /\ hi - (Word - 2) - l <= Reach
    BY <1>1
  <2>2. X - me >= lo /\ X - me <= hi /\ j - me >= l  BY <1>2, <1>3
  <2> HIDE DEF lo, hi, l
  <2>3. /\ Top(x) \in Int /\ r.e \in Int /\ Top(x) - min_e(f) >= lo /\ Top(x) - min_e(f) <= hi
        /\ r.e - min_e(f) >= l
    BY <1>2, <1>3, <2>2 DEF X, j, me
  <2> QED  BY <2>1, <2>3, MeetsIn
<1>5. Meets(f, r, x)
  <2> DEFINE lo == - s
             hi == 2 * v + s
             l == - 2 * s - (v + s - 1)
  <2>1. lo \in Int /\ hi \in Int /\ l \in Int /\ (Word - 2) - lo <= Reach /\ hi + 1 <= Reach
        /\ hi - (Word - 2) - l <= Reach
    BY <1>1
  <2>2. R - me >= lo /\ R - me <= hi /\ i - me >= l  BY <1>2, <1>3
  <2> HIDE DEF lo, hi, l
  <2>3. /\ Top(r) \in Int /\ x.e \in Int /\ Top(r) - min_e(f) >= lo /\ Top(r) - min_e(f) <= hi
        /\ x.e - min_e(f) >= l
    BY <1>2, <1>3, <2>2 DEF R, i, me
  <2> QED  BY <2>1, <2>3, MeetsIn
<1> QED  BY <1>4, <1>5 DEF x

\* A signed ratio rounds as its magnitude.
LEMMA SignedRatio ==
    ASSUME NEW f, NEW sign \in BOOLEAN, NEW n \in Nat \ {0}, NEW d, NEW rm
    PROVE  \A z : RoundedRatio(f, WithSignOf(sign, n), d, z, rm) = Rounded(f, sign, rm, Ratio(n, d))
<1> SUFFICES ASSUME NEW z
             PROVE  RoundedRatio(f, WithSignOf(sign, n), d, z, rm) = Rounded(f, sign, rm, Ratio(n, d))
  OBVIOUS
<1>1. RoundedRatio(f, IF sign THEN - n ELSE n, d, z, rm) = Rounded(f, sign, rm, Ratio(n, d))  BY RatioSign
<1> QED  BY <1>1 DEF WithSignOf

\* A finite product and a finite addend.
LEMMA FusedFiniteRounds ==
    ASSUME NEW f \in Formats, NEW a, NEW p, Unpacks(f, a, p), NEW b, NEW q, Unpacks(f, b, q),
           NEW c \in Int, NEW r, Unpacks(f, c, r), ~ is_nan(p), ~ is_inf(p), ~ is_nan(q), ~ is_inf(q),
           ~ is_nan(r), ~ is_inf(r), NEW sp \in BOOLEAN, NEW sc \in BOOLEAN, r.sign = sc, NEW rm \in Rms
    PROVE  LET n == WithSignOf(sp, UnitsOf(f, a) * UnitsOf(f, b))
               d == Scale(f)
               V == UnitsOf(f, c)
           IN  FusedFinite(f, Product(p, q, sp), c, r, rm) =
                 RoundedRatio(f, n + d * (IF sc THEN - V ELSE V), d,
                              IF n = 0 /\ IsZero(f, c) THEN SumSign(sp, sc, rm) ELSE rm = "Rdn", rm)
<1> DEFINE Ua == UnitsOf(f, a)
           Ub == UnitsOf(f, b)
           U == Ua * Ub
           V == UnitsOf(f, c)
           n == WithSignOf(sp, U)
           d == Scale(f)
           z == rm = "Rdn"
           zs == IF n = 0 /\ IsZero(f, c) THEN SumSign(sp, sc, rm) ELSE z
           t == n + d * (IF sc THEN - V ELSE V)
           P == Product(p, q, sp)
           code == FusedFinite(f, P, c, r, rm)
           none == is_zero(p) \/ is_zero(q)
<1>1. d \in Nat \ {0}  BY ScaleIs
<1>2. ASSUME NEW y, NEW o, Unpacks(f, y, o), ~ is_nan(o), ~ is_inf(o)
      PROVE  UnitsOf(f, y) \in Nat /\ (is_zero(o) <=> UnitsOf(f, y) = 0)
  BY <1>2 DEF Unpacks, Means
<1>3. /\ Ua \in Nat /\ Ub \in Nat /\ V \in Nat /\ (is_zero(r) <=> V = 0)
      /\ (is_zero(p) <=> Ua = 0) /\ (is_zero(q) <=> Ub = 0)
  BY <1>2
<1>4. is_zero(r) <=> IsZero(f, c)  BY DEF Unpacks
<1> HIDE DEF Ua, Ub, V, d
<1>5. U \in Nat /\ (none <=> U = 0)
  <2>1. U \in Nat /\ (Ua = 0 \/ Ub = 0 => U = 0)  BY <1>3
  <2>2. Ua # 0 /\ Ub # 0 => U # 0
    <3>1. Ua # 0 /\ Ub # 0 => Ua \in Nat \ {0} /\ Ub \in Nat \ {0}  BY <1>3
    <3> QED  BY <3>1, PositiveProduct
  <2> QED  BY <1>3, <2>1, <2>2
<1> HIDE DEF U, none
<1>6. n \in Int /\ (n = 0 <=> U = 0)
  <2>1. CASE sp = TRUE
    <3>1. n = - U  BY <2>1 DEF WithSignOf
    <3> HIDE DEF n
    <3> QED  BY <1>5, <3>1
  <2>2. CASE sp = FALSE
    <3>1. n = U  BY <2>2 DEF WithSignOf
    <3> QED  BY <1>5, <3>1
  <2> QED  BY <2>1, <2>2
<1>7. /\ d * (IF sc THEN - V ELSE V) = WithSignOf(sc, V * d) /\ WithSignOf(sc, V * d) \in Int
      /\ V = 0 => WithSignOf(sc, V * d) = 0
  BY <1>1, <1>3, SignedTimes
<1>8. t = n + WithSignOf(sc, V * d)  BY <1>7
<1>9. /\ none => P = Special(sp, "Zero")
      /\ ~ none => P = Num(sp, p.m * q.m, p.e + q.e)
  BY DEF Product, none
<1>10. /\ none => is_zero(P) /\ P.sign = sp
       /\ ~ none => ~ is_zero(P) /\ P.sign = sp /\ P.m = p.m * q.m /\ P.e = p.e + q.e
  BY <1>9 DEF Special, Num, is_zero
<1>11. code =
         IF none /\ is_zero(r) THEN SumOfZeros(f, sp, sc, rm)
         ELSE IF none THEN Exact(WithSign(f, sc, c))
         ELSE IF is_zero(r) THEN round_pack(f, sp, p.m * q.m, p.e + q.e, rm)
         ELSE RoundSum(f, add_raw(P, r), rm)
  <2> HIDE DEF P
  <2> QED  BY <1>10 DEF FusedFinite
<1> HIDE DEF n, z, zs, t, code
<1>12. code = RoundedRatio(f, t, d, zs, rm)
  <2>1. CASE none /\ is_zero(r)
    <3>1. t = 0  BY <1>3, <1>5, <1>6, <1>7, <1>8, <2>1
    <3>2. zs = SumSign(sp, sc, rm)  BY <1>4, <1>5, <1>6, <2>1 DEF zs
    <3>3. RoundedRatio(f, t, d, zs, rm) = Exact(zero(f, zs))  BY <3>1 DEF RoundedRatio
    <3>4. SumOfZeros(f, sp, sc, rm) = Exact(zero(f, SumSign(sp, sc, rm)))
      BY DEF SumOfZeros, SumSign, zero_sign
    <3> QED  BY <1>11, <2>1, <3>2, <3>3, <3>4
  <2>2. CASE none /\ ~ is_zero(r)
    <3>1. t = WithSignOf(sc, V * d)  BY <1>5, <1>6, <1>7, <1>8, <2>2
    <3>2. ~ IsNan(f, c) /\ ~ IsInf(f, c) /\ ~ IsZero(f, c)  BY <2>2 DEF Unpacks
    <3>3. \A y : RoundedRatio(f, WithSignOf(sc, V * d), d, y, rm) = Exact(WithSign(f, sc, c))
      BY <1>1, <3>2, ExactRounds DEF V
    <3>4. RoundedRatio(f, t, d, zs, rm) = Exact(WithSign(f, sc, c))  BY <3>1, <3>3
    <3> QED  BY <1>11, <2>2, <3>4
  <2>3. CASE ~ none /\ is_zero(r)
    <3>1. t = n  BY <1>3, <1>6, <1>7, <1>8, <2>3
    <3>2. Means(f, a, p) /\ Means(f, b, q)  BY <2>3 DEF Unpacks, none
    <3>3. round_pack(f, sp, p.m * q.m, p.e + q.e, rm) = Rounded(f, sp, rm, Ratio(U, d))
      BY <3>2, ProductRounds DEF U, Ua, Ub, d
    <3>4. U \in Nat \ {0}  BY <1>5, <2>3
    <3>5. \A y : RoundedRatio(f, WithSignOf(sp, U), d, y, rm) = Rounded(f, sp, rm, Ratio(U, d))
      BY <3>4, SignedRatio
    <3>6. n = WithSignOf(sp, U)  BY DEF n
    <3>7. RoundedRatio(f, t, d, zs, rm) = Rounded(f, sp, rm, Ratio(U, d))  BY <3>1, <3>5, <3>6
    <3> QED  BY <1>11, <2>3, <3>3, <3>7
  <2>4. CASE ~ none /\ ~ is_zero(r)
    <3>1. Means(f, a, p) /\ Means(f, b, q) /\ Means(f, c, r)  BY <2>4 DEF Unpacks, none
    <3>2. Addend(f, d, U, P)
      <4>1. Addend(f, Scale(f), UnitsOf(f, a) * UnitsOf(f, b), Num(sp, p.m * q.m, p.e + q.e))
        BY <3>1, ProductAddend
      <4> QED  BY <1>9, <2>4, <4>1 DEF U, Ua, Ub, d
    <3>3. Addend(f, d, V * d, r)  BY <1>1, <3>1, AddendOf DEF V
    <3>4. Meets(f, P, r) /\ Meets(f, r, P)
      <4> DEFINE x == Num(sp, p.m * q.m, p.e + q.e)
      <4>1. Meets(f, x, r) /\ Meets(f, r, x)  BY <3>1, ProductMeets
      <4> HIDE DEF x
      <4>2. P = x  BY <1>9, <2>4 DEF x
      <4> QED  BY <4>1, <4>2
    <3>5. P.sign = sp /\ P.sign \in BOOLEAN /\ r.sign \in BOOLEAN  BY <1>10, <2>4
    <3> HIDE DEF P
    <3> DEFINE Y == V * d
    <3>6. Addend(f, d, Y, r)  BY <3>3
    <3> HIDE DEF Y
    <3>7. RoundSum(f, add_raw(P, r), rm)
            = RoundedRatio(f, WithSignOf(P.sign, U) + WithSignOf(r.sign, Y), d, rm = "Rdn", rm)
      BY <1>1, <3>2, <3>4, <3>5, <3>6, AddRounds
    <3>8. RoundSum(f, add_raw(P, r), rm) = RoundedRatio(f, t, d, z, rm)
      BY <1>8, <3>5, <3>7 DEF Y, n, z
    <3>9. zs = z  BY <1>5, <1>6, <2>4 DEF zs
    <3> QED  BY <1>11, <2>4, <3>8, <3>9
  <2> QED  BY <2>1, <2>2, <2>3, <2>4
<1> QED  BY <1>12 DEF code, t, d, zs, z, n, U, Ua, Ub, V, P

\* The fused operations round once.
LEMMA FusedRounds ==
    ASSUME NEW f \in Formats, NEW a \in Int, NEW b \in Int, NEW c \in Int, NEW rm \in Rms,
           NEW np \in BOOLEAN, NEW na \in BOOLEAN
    PROVE  fma(f, a, b, c, np, na, rm) =
             FusedSpec(f, a, b, ProductSign(f, a, b) # np, c, Negative(f, c) # na, rm)
<1> DEFINE p == unpack(f, a)
           q == unpack(f, b)
           r == Flip(unpack(f, c), na)
           sp == ProductSign(f, a, b) # np
           sc == Negative(f, c) # na
           infinite == IsInf(f, a) \/ IsInf(f, b)
           n == WithSignOf(sp, UnitsOf(f, a) * UnitsOf(f, b))
           d == Scale(f)
           V == UnitsOf(f, c)
           X == RoundedRatio(f, n + d * (IF sc THEN - V ELSE V), d,
                             IF n = 0 /\ IsZero(f, c) THEN SumSign(sp, sc, rm) ELSE rm = "Rdn", rm)
           Y == FusedFinite(f, Product(p, q, sp), c, r, rm)
           code == FusedUnpacked(f, p, q, sp, c, r, rm)
<1>1. fma(f, a, b, c, np, na, rm) = code  BY DEF fma, ProductSign
<1>2. Unpacks(f, a, p) /\ Unpacks(f, b, q)  BY UnpackIs
<1>3. Unpacks(f, c, r) /\ r.sign = sc /\ sc \in BOOLEAN  BY FlipIs
<1>4. sp \in BOOLEAN  OBVIOUS
<1>5. FusedSpec(f, a, b, sp, c, sc, rm) =
        IF NoProduct(f, a, b) THEN Invalid(f)
        ELSE IF \E v \in {a, b, c} : IsNan(f, v) THEN Nan(f, {a, b, c})
        ELSE IF infinite /\ IsInf(f, c) /\ sp # sc THEN Invalid(f)
        ELSE IF infinite THEN Exact(inf(f, sp))
        ELSE IF IsInf(f, c) THEN Exact(inf(f, sc))
        ELSE X
  BY DEF FusedSpec, Summed
<1>6. invalid(f) = Invalid(f)  BY DEF invalid, Invalid
<1> HIDE DEF p, q, r, sp, sc
<1>7. code =
        IF ZeroTimesInf(p, q) THEN Invalid(f)
        ELSE IF is_nan(p) \/ is_nan(q) \/ is_nan(r) THEN nan_result(f, {p, q, r})
        ELSE IF is_inf(p) \/ is_inf(q)
        THEN IF is_inf(r) /\ sc # sp THEN Invalid(f) ELSE Exact(inf(f, sp))
        ELSE IF is_inf(r) THEN Exact(inf(f, sc))
        ELSE Y
  BY <1>3, <1>6 DEF FusedUnpacked
<1>8. /\ (is_nan(p) <=> IsNan(f, a)) /\ (is_nan(q) <=> IsNan(f, b)) /\ (is_nan(r) <=> IsNan(f, c))
      /\ (is_inf(p) <=> IsInf(f, a)) /\ (is_inf(q) <=> IsInf(f, b)) /\ (is_inf(r) <=> IsInf(f, c))
      /\ (is_snan(p) <=> IsSignalling(f, a)) /\ (is_snan(q) <=> IsSignalling(f, b))
      /\ (is_snan(r) <=> IsSignalling(f, c))
  BY <1>2, <1>3 DEF Unpacks
<1>9. ZeroTimesInf(p, q) <=> NoProduct(f, a, b)  BY <1>2 DEF Unpacks, ZeroTimesInf, NoProduct
<1>10. nan_result(f, {p, q, r}) = Nan(f, {a, b, c})
  <2>1. (\E o \in {p, q, r} : is_snan(o)) <=> (\E v \in {a, b, c} : IsSignalling(f, v))  BY <1>8
  <2> QED  BY <2>1 DEF nan_result, Nan
<1>11. (\E v \in {a, b, c} : IsNan(f, v)) <=> (is_nan(p) \/ is_nan(q) \/ is_nan(r))  BY <1>8
<1>12. ASSUME ~ (is_nan(p) \/ is_nan(q) \/ is_nan(r)), ~ (is_inf(p) \/ is_inf(q)), ~ is_inf(r)
       PROVE  Y = X
  BY <1>2, <1>3, <1>4, <1>12, FusedFiniteRounds
<1> HIDE DEF X, Y, code
<1>13. code = FusedSpec(f, a, b, sp, c, sc, rm)
  BY <1>5, <1>7, <1>8, <1>9, <1>10, <1>11, <1>12
<1> QED  BY <1>1, <1>13 DEF sp, sc

-----------------------------------------------------------------------------
(* The instructions *)

\* A result is its pattern and its flags.
Pair(r) == r = [v |-> r.v, flags |-> r.flags]

\* Results the definitions ask for are a pattern and its flags.
LEMMA PairIs == ASSUME NEW x, NEW y PROVE Pair([v |-> x, flags |-> y])
BY DEF Pair

LEMMA RoundedPair ==
    ASSUME NEW f, NEW sign, NEW rm, NEW x
    PROVE  Pair(Rounded(f, sign, rm, x))
<1>1. \A y : Pair(Exact(y))  BY PairIs DEF Exact
<1>2. Pair(Overflowed(f, sign, rm))
  <2> DEFINE y == zero(f, sign) + IF Away(sign, rm, TRUE, 1) THEN Infinity(f) ELSE Infinity(f) - 1
  <2>1. Overflowed(f, sign, rm) = [v |-> y, flags |-> {"OF", "NX"}]  BY DEF Overflowed
  <2> HIDE DEF y
  <2> QED  BY <2>1, PairIs
<1>3. ASSUME NEW k, NEW inexact PROVE Pair(Packed(f, sign, rm, k, inexact))
  <2> DEFINE y == zero(f, sign) + k
             z == IF ~ inexact THEN {} ELSE IF k < 2^f.sig THEN {"NX", "UF"} ELSE {"NX"}
  <2>1. Packed(f, sign, rm, k, inexact) =
          IF k = Infinity(f) THEN Overflowed(f, sign, rm) ELSE [v |-> y, flags |-> z]
    BY DEF Packed
  <2> HIDE DEF y, z
  <2>2. Pair([v |-> y, flags |-> z])  BY PairIs
  <2> QED  BY <1>2, <2>1, <2>2
<1>4. ASSUME NEW lo PROVE Pair(Around(f, sign, rm, x, lo))
  <2> DEFINE e == Compare(x, 2 * Units(f, lo)) = 0
             h == Compare(x, Units(f, lo) + Units(f, lo + 1))
  <2>1. Around(f, sign, rm, x, lo) =
          IF lo = Infinity(f) THEN Overflowed(f, sign, rm) ELSE Between(f, sign, rm, lo, e, h)
    BY DEF Around
  <2>2. ASSUME NEW t \in BOOLEAN PROVE Pair(Between(f, sign, rm, lo, t, h))
    <3> DEFINE k == IF ~ t /\ Away(sign, rm, lo % 2 = 1, h) THEN lo + 1 ELSE lo
               o == ~ t
    <3>1. Between(f, sign, rm, lo, t, h) = Packed(f, sign, rm, k, o)  BY DEF Between
    <3> HIDE DEF k
    <3>2. Pair(Packed(f, sign, rm, k, TRUE)) /\ Pair(Packed(f, sign, rm, k, FALSE))  BY <1>3
    <3>3. CASE t = TRUE
      <4>1. o = FALSE  BY <3>3
      <4> HIDE DEF o
      <4> QED  BY <3>1, <3>2, <4>1
    <3>4. CASE t = FALSE
      <4>1. o = TRUE  BY <3>4
      <4> HIDE DEF o
      <4> QED  BY <3>1, <3>2, <4>1
    <3> QED  BY <3>3, <3>4
  <2>3. e \in BOOLEAN  OBVIOUS
  <2> HIDE DEF e, h
  <2> QED  BY <1>2, <2>1, <2>2, <2>3
<1> QED  BY <1>4 DEF Rounded

LEMMA SpecPair ==
    ASSUME NEW f
    PROVE  /\ \A x : Pair(Exact(x)) /\ Pair(Nan(f, x)) /\ Pair(Invalid(f))
           /\ \A n, d, z, rm : Pair(RoundedRatio(f, n, d, z, rm))
<1>1. \A x : Pair(Exact(x))  BY PairIs DEF Exact
<1>2. ASSUME NEW x PROVE Pair(Nan(f, x)) /\ Pair(Invalid(f))
  <2> DEFINE y == nan(f)
             z == IF \E v \in x : IsSignalling(f, v) THEN {"NV"} ELSE {}
  <2>1. Nan(f, x) = [v |-> y, flags |-> z] /\ Invalid(f) = [v |-> y, flags |-> {"NV"}]
    BY DEF Nan, Invalid
  <2> HIDE DEF y, z
  <2> QED  BY <2>1, PairIs
<1>3. ASSUME NEW n, NEW d, NEW z, NEW rm PROVE Pair(RoundedRatio(f, n, d, z, rm))
  <2> DEFINE neg == n < 0
             x == Ratio(Abs(n), d)
  <2>1. RoundedRatio(f, n, d, z, rm) = IF n = 0 THEN Exact(zero(f, z)) ELSE Rounded(f, neg, rm, x)
    BY DEF RoundedRatio
  <2>2. Pair(Rounded(f, TRUE, rm, x)) /\ Pair(Rounded(f, FALSE, rm, x))  BY RoundedPair
  <2>3. neg \in BOOLEAN  OBVIOUS
  <2> HIDE DEF neg, x
  <2>4. Pair(Rounded(f, neg, rm, x))
    <3>1. CASE neg = TRUE  BY <2>2, <3>1
    <3>2. CASE neg = FALSE  BY <2>2, <3>2
    <3> QED  BY <2>3, <3>1, <3>2
  <2> QED  BY <1>1, <2>1, <2>4
<1> QED  BY <1>1, <1>2, <1>3

LEMMA SummedPair ==
    ASSUME NEW f, NEW sa, NEW infinite, NEW n, NEW d, NEW c, NEW sc, NEW rm
    PROVE  Pair(Summed(f, sa, infinite, n, d, c, sc, rm))
<1> DEFINE t == n + d * (IF sc THEN - UnitsOf(f, c) ELSE UnitsOf(f, c))
           z == IF n = 0 /\ IsZero(f, c) THEN SumSign(sa, sc, rm) ELSE rm = "Rdn"
<1>1. Summed(f, sa, infinite, n, d, c, sc, rm) =
        IF infinite /\ IsInf(f, c) /\ sa # sc THEN Invalid(f)
        ELSE IF infinite THEN Exact(inf(f, sa))
        ELSE IF IsInf(f, c) THEN Exact(inf(f, sc))
        ELSE RoundedRatio(f, t, d, z, rm)
  BY DEF Summed
<1>2. \A y : Pair(RoundedRatio(f, t, d, y, rm))  BY SpecPair
<1> HIDE DEF t, z
<1>3. Pair(RoundedRatio(f, t, d, z, rm))  BY <1>2
<1>4. \A x : Pair(Exact(x)) /\ Pair(Nan(f, x)) /\ Pair(Invalid(f))  BY SpecPair
<1> QED  BY <1>1, <1>3, <1>4

ArithmeticOps == {"FADD", "FSUB", "FMUL", "FDIV", "FSQRT"}
ArithmeticSpec(f, op, a, b, rm) ==
    CASE op = "FADD" -> SumSpec(f, a, b, Negative(f, b), rm)
      [] op = "FSUB" -> SumSpec(f, a, b, ~ Negative(f, b), rm)
      [] op = "FMUL" -> ProductSpec(f, a, b, rm)
      [] op = "FDIV" -> QuotientSpec(f, a, b, rm)
      [] op = "FSQRT" -> RootSpec(f, a, rm)

LEMMA SumPair ==
    ASSUME NEW f, NEW a, NEW b, NEW sb, NEW rm
    PROVE  Pair(SumSpec(f, a, b, sb, rm)) /\ Pair(ProductSpec(f, a, b, rm))
           /\ Pair(QuotientSpec(f, a, b, rm)) /\ Pair(RootSpec(f, a, rm))
<1>1. \A x : Pair(Exact(x)) /\ Pair(Nan(f, x)) /\ Pair(Invalid(f))  BY SpecPair
<1>2. \A n, d, z : Pair(RoundedRatio(f, n, d, z, rm))  BY SpecPair
<1>3. Pair(SumSpec(f, a, b, sb, rm))
  <2> DEFINE x == Summed(f, Negative(f, a), IsInf(f, a), SignedUnits(f, a), 1, b, sb, rm)
  <2>1. Pair(x)
    <3>1. \A sa, infinite : Pair(Summed(f, sa, infinite, SignedUnits(f, a), 1, b, sb, rm))  BY SummedPair
    <3> DEFINE sa == Negative(f, a)
               o == IsInf(f, a)
    <3>2. x = Summed(f, sa, o, SignedUnits(f, a), 1, b, sb, rm)  OBVIOUS
    <3> HIDE DEF x, sa, o
    <3> QED  BY <3>1, <3>2
  <2>2. SumSpec(f, a, b, sb, rm) = IF IsNan(f, a) \/ IsNan(f, b) THEN Nan(f, {a, b}) ELSE x
    BY DEF SumSpec
  <2> HIDE DEF x
  <2> QED  BY <1>1, <2>1, <2>2
<1>4. Pair(ProductSpec(f, a, b, rm))
  <2> DEFINE s == ProductSign(f, a, b)
             x == RoundedRatio(f, SignedUnits(f, a) * SignedUnits(f, b), Scale(f), s, rm)
  <2>1. ProductSpec(f, a, b, rm) =
          IF IsNan(f, a) \/ IsNan(f, b) THEN Nan(f, {a, b})
          ELSE IF NoProduct(f, a, b) THEN Invalid(f)
          ELSE IF IsInf(f, a) \/ IsInf(f, b) THEN Exact(inf(f, s)) ELSE x
    BY DEF ProductSpec
  <2> HIDE DEF s
  <2>2. Pair(x)  BY <1>2
  <2> HIDE DEF x
  <2> QED  BY <1>1, <2>1, <2>2
<1>5. Pair(QuotientSpec(f, a, b, rm))
  <2> DEFINE s == ProductSign(f, a, b)
             x == RoundedRatio(f, WithSignOf(s, UnitsOf(f, a) * Scale(f)), UnitsOf(f, b), s, rm)
  <2>1. QuotientSpec(f, a, b, rm) =
          IF IsNan(f, a) \/ IsNan(f, b) THEN Nan(f, {a, b})
          ELSE IF (IsInf(f, a) /\ IsInf(f, b)) \/ (IsZero(f, a) /\ IsZero(f, b)) THEN Invalid(f)
          ELSE IF IsInf(f, a) THEN Exact(inf(f, s))
          ELSE IF IsInf(f, b) THEN Exact(zero(f, s))
          ELSE IF IsZero(f, b) THEN [v |-> inf(f, s), flags |-> {"DZ"}]
          ELSE x
    BY DEF QuotientSpec
  <2>2. Pair(x)
    <3> HIDE DEF s
    <3> QED  BY <1>2
  <2>3. Pair([v |-> inf(f, s), flags |-> {"DZ"}])
    <3> DEFINE y == inf(f, s)
    <3> HIDE DEF y
    <3>1. Pair([v |-> y, flags |-> {"DZ"}])  BY PairIs
    <3> QED  BY <3>1 DEF y
  <2> HIDE DEF x, s
  <2> QED  BY <1>1, <2>1, <2>2, <2>3
<1>6. Pair(RootSpec(f, a, rm))
  <2> DEFINE x == SquareRoot(UnitsOf(f, a) * Scale(f))
  <2>1. Pair(Rounded(f, FALSE, rm, x))  BY RoundedPair
  <2> QED  BY <1>1, <2>1 DEF RootSpec
<1> QED  BY <1>3, <1>4, <1>5, <1>6

LEMMA FusedPair ==
    ASSUME NEW f, NEW a, NEW b, NEW sp, NEW c, NEW sc, NEW rm
    PROVE  Pair(FusedSpec(f, a, b, sp, c, sc, rm))
<1> DEFINE o == IsInf(f, a) \/ IsInf(f, b)
           n == WithSignOf(sp, UnitsOf(f, a) * UnitsOf(f, b))
           x == Summed(f, sp, o, n, Scale(f), c, sc, rm)
<1>1. FusedSpec(f, a, b, sp, c, sc, rm) =
        IF NoProduct(f, a, b) THEN Invalid(f)
        ELSE IF \E v \in {a, b, c} : IsNan(f, v) THEN Nan(f, {a, b, c}) ELSE x
  BY DEF FusedSpec
<1>2. \A x1 : Pair(Exact(x1)) /\ Pair(Nan(f, x1)) /\ Pair(Invalid(f))  BY SpecPair
<1> HIDE DEF n
<1>3. \A infinite : Pair(Summed(f, sp, infinite, n, Scale(f), c, sc, rm))  BY SummedPair
<1> HIDE DEF o
<1>4. Pair(x)  BY <1>3
<1> HIDE DEF x
<1> QED  BY <1>1, <1>2, <1>4

\* The mode in force is a mode.
LEMMA RoundingMode ==
    ASSUME TypeOK, NEW i, i.rm \in 0 .. 7, rounding(i) # "none"
    PROVE  rounding(i) \in Rms
<1>1. frm \in 0 .. 7  BY DEF frm
<1>2. ASSUME NEW v \in 0 .. 7 PROVE from_bits(v) \in Rms \cup {"none"}
  <2>1. CASE v <= 4
    <3>1. v \in {0, 1, 2, 3, 4}  BY <2>1
    <3> QED  BY <3>1 DEF from_bits, Rms
  <2>2. CASE ~ (v <= 4)  BY <2>2 DEF from_bits
  <2> QED  BY <2>1, <2>2
<1> DEFINE v == IF i.rm = 7 THEN frm ELSE i.rm
<1>3. rounding(i) = from_bits(v)  BY DEF rounding
<1>4. v \in 0 .. 7  BY <1>1
<1> HIDE DEF v
<1> QED  BY <1>2, <1>3, <1>4

\* What an arithmetic instruction returns is what its definition asks for.
LEMMA ArithmeticReturns ==
    ASSUME NEW i, i.op \in ArithmeticOps, fp_fmt(i) \in Formats, NEW a \in Patterns(fp_fmt(i)),
           NEW b \in Patterns(fp_fmt(i)), NEW rm \in Rms
    PROVE  /\ Arithmetic(i, a, b, rm) = ArithmeticSpec(fp_fmt(i), i.op, a, b, rm)
           /\ Pair(Arithmetic(i, a, b, rm))
<1> DEFINE f == fp_fmt(i)
           r == Arithmetic(i, a, b, rm)
           nb == Negative(f, b)
<1>1. f \in Formats /\ a \in Patterns(f) /\ b \in Patterns(f)  OBVIOUS
<1>2. a \in Int /\ b \in Int /\ nb \in BOOLEAN
  <2>1. a \in Int /\ b \in Int  BY <1>1, PatternIs
  <2> QED  BY <1>1, <2>1, MaskedType
<1>3. /\ i.op = "FADD" => r = add(f, a, b, rm)
      /\ i.op = "FSUB" => r = sub(f, a, b, rm)
      /\ i.op = "FMUL" => r = mul(f, a, b, rm)
      /\ i.op = "FDIV" => r = div(f, a, b, rm)
      /\ i.op = "FSQRT" => r = sqrt(f, a, rm)
  BY DEF Arithmetic
<1>4. /\ i.op = "FADD" => ArithmeticSpec(f, i.op, a, b, rm) = SumSpec(f, a, b, nb, rm)
      /\ i.op = "FSUB" => ArithmeticSpec(f, i.op, a, b, rm) = SumSpec(f, a, b, ~ nb, rm)
      /\ i.op = "FMUL" => ArithmeticSpec(f, i.op, a, b, rm) = ProductSpec(f, a, b, rm)
      /\ i.op = "FDIV" => ArithmeticSpec(f, i.op, a, b, rm) = QuotientSpec(f, a, b, rm)
      /\ i.op = "FSQRT" => ArithmeticSpec(f, i.op, a, b, rm) = RootSpec(f, a, rm)
  BY DEF ArithmeticSpec
<1> HIDE DEF f, r
<1>5. CASE i.op = "FADD"
  <2>1. \A n \in BOOLEAN : add_or_sub(f, a, b, rm, n) = SumSpec(f, a, b, Negative(f, b) # n, rm)
    BY <1>1, AddSubRounds
  <2>2. add_or_sub(f, a, b, rm, FALSE) = SumSpec(f, a, b, Negative(f, b) # FALSE, rm)  BY <2>1
  <2>3. (Negative(f, b) # FALSE) = nb
    <3>1. CASE nb = TRUE  BY <3>1
    <3>2. CASE nb = FALSE  BY <3>2
    <3> QED  BY <1>2, <3>1, <3>2
  <2>4. r = SumSpec(f, a, b, nb, rm)  BY <1>3, <1>5, <2>2, <2>3 DEF add
  <2>5. \A s : Pair(SumSpec(f, a, b, s, rm))  BY SumPair
  <2> QED  BY <1>4, <1>5, <2>4, <2>5 DEF f, r
<1>6. CASE i.op = "FSUB"
  <2>1. \A n \in BOOLEAN : add_or_sub(f, a, b, rm, n) = SumSpec(f, a, b, Negative(f, b) # n, rm)
    BY <1>1, AddSubRounds
  <2>2. add_or_sub(f, a, b, rm, TRUE) = SumSpec(f, a, b, Negative(f, b) # TRUE, rm)  BY <2>1
  <2>3. (Negative(f, b) # TRUE) = ~ nb
    <3>1. CASE nb = TRUE  BY <3>1
    <3>2. CASE nb = FALSE  BY <3>2
    <3> QED  BY <1>2, <3>1, <3>2
  <2>4. r = SumSpec(f, a, b, ~ nb, rm)  BY <1>3, <1>6, <2>2, <2>3 DEF sub
  <2>5. \A s : Pair(SumSpec(f, a, b, s, rm))  BY SumPair
  <2> QED  BY <1>4, <1>6, <2>4, <2>5 DEF f, r
<1>7. CASE i.op = "FMUL"
  <2>1. r = ProductSpec(f, a, b, rm)  BY <1>1, <1>2, <1>3, <1>7, MulRounds
  <2>2. Pair(ProductSpec(f, a, b, rm))  BY SumPair
  <2> QED  BY <1>4, <1>7, <2>1, <2>2 DEF f, r
<1>8. CASE i.op = "FDIV"
  <2>1. r = QuotientSpec(f, a, b, rm)  BY <1>1, <1>2, <1>3, <1>8, DivRounds
  <2>2. Pair(QuotientSpec(f, a, b, rm))  BY SumPair
  <2> QED  BY <1>4, <1>8, <2>1, <2>2 DEF f, r
<1>9. CASE i.op = "FSQRT"
  <2>1. r = RootSpec(f, a, rm)  BY <1>1, <1>3, <1>9, SqrtRounds
  <2>2. Pair(RootSpec(f, a, rm))  BY SumPair
  <2> QED  BY <1>4, <1>9, <2>1, <2>2 DEF f, r
<1> QED  BY <1>5, <1>6, <1>7, <1>8, <1>9 DEF ArithmeticOps

\* What the newest instruction has to be for a property of its result to bite.
LEMMA OnlyExecuted ==
    ASSUME NEW i, execute(i), G.traced \/ last' # last, "op" \in DOMAIN last'.inst
    PROVE  last'.inst = i /\ ~ Trapped
<1>1. last' # [inst |-> NoInst]
  <2> SUFFICES ASSUME last' = [inst |-> NoInst] PROVE FALSE  OBVIOUS
  <2>1. last'.inst = [kind |-> "none"]  BY DEF NoInst
  <2>2. "op" \notin DOMAIN [kind |-> "none"]  OBVIOUS
  <2> QED  BY <2>1, <2>2
<1>2. last'.inst = i  BY <1>1, ExecuteTraces
<1> QED  BY <1>1, <1>2 DEF Trapped

\* What the newest instruction's record holds once it has been traced.
LEMMA TraceHolds ==
    ASSUME NEW i, NEW a, NEW b, NEW c, NEW v, NEW flags, Trace(i, a, b, c, v, flags),
           G.traced \/ last' # last, "rm" \in DOMAIN i
    PROVE  /\ last'.inst = i /\ last'.rm = rounding(i) /\ last'.a = a /\ last'.b = b
           /\ last'.c = c /\ last'.v = v /\ last'.flags = flags
BY DEF Trace

ArithmeticIs(l) ==
    "op" \in DOMAIN l.inst /\ l.inst.op \in ArithmeticOps =>
        [v |-> l.v, flags |-> l.flags] = ArithmeticSpec(fp_fmt(l.inst), l.inst.op, l.a, l.b, l.rm)

\* The property, as one statement about the newest record.
LEMMA ArithmeticMeans == ArithmeticRounded <=> ArithmeticIs(last)
<1>1. ASSUME ArithmeticRounded PROVE ArithmeticIs(last)
  BY <1>1 DEF ArithmeticRounded, ArithmeticIs, ArithmeticOps, ArithmeticSpec, Newest, Result, Fmt
<1>2. ASSUME ArithmeticIs(last) PROVE ArithmeticRounded
  BY <1>2 DEF ArithmeticRounded, ArithmeticIs, ArithmeticOps, ArithmeticSpec, Newest, Result, Fmt
<1> QED  BY <1>1, <1>2

\* An instruction leaves a record that satisfies it.
LEMMA StepArithmetic ==
    ASSUME TypeOK, ArithmeticIs(last), NEW i \in G.insts, execute(i)
    PROVE  ArithmeticIs(last')
<1>1. CASE last' = last  BY <1>1
<1>2. CASE last' # last /\ "op" \in DOMAIN last'.inst /\ last'.inst.op \in ArithmeticOps
  <2> DEFINE f == fp_fmt(i)
             a == freg(i, i.rs1)
             b == freg(i, i.rs2)
             rm == rounding(i)
             r == Arithmetic(i, a, b, rm)
  <2>1. last'.inst = i /\ ~ Trapped  BY <1>2, OnlyExecuted
  <2>2. "op" \in DOMAIN i /\ i.op \in ArithmeticOps  BY <1>2, <2>1
  <2>3. i.kind = "OP-FP"
    <3>1. guest \in DOMAIN Guests  BY DEF TypeOK
    <3> QED  BY <2>2, <3>1, DecodeAssumption DEF G, ArithmeticOps, FpOps
  <2>4. OpFp(i)  BY <2>3 DEF execute
  <2>5. i.fmt \in {"S", "D"} /\ execute_op_fp(i)  BY <2>1, <2>4 DEF OpFp, Illegal
  <2>6. i.rs1 \in 0 .. 2 /\ i.rs2 \in 0 .. 2 /\ "rm" \in DOMAIN i /\ i.rm \in 0 .. 7
    BY <2>3, Decoded
  <2>7. f \in Formats /\ a \in Patterns(f) /\ b \in Patterns(f)
    BY <2>5, <2>6, FmtFacts, FregPattern
  <2>8. rm # "none" /\ FpResult(i, a, b, 0, r)
    BY <2>1, <2>2, <2>5 DEF execute_op_fp, Illegal, ArithmeticOps
  <2>9. rm \in Rms  BY <2>6, <2>8, RoundingMode
  <2>10. r = ArithmeticSpec(f, i.op, a, b, rm) /\ Pair(r)
    <3> HIDE DEF a, b, rm
    <3> QED  BY <2>2, <2>7, <2>9, ArithmeticReturns
  <2>11. Trace(i, a, b, 0, r.v, r.flags)  BY <2>8 DEF FpResult
  <2>12. /\ last'.inst = i /\ last'.rm = rm /\ last'.a = a /\ last'.b = b
         /\ last'.v = r.v /\ last'.flags = r.flags
    <3> HIDE DEF r, a, b
    <3> QED  BY <1>2, <2>6, <2>11, TraceHolds
  <2> HIDE DEF r, a, b, rm
  <2> QED  BY <2>10, <2>12 DEF ArithmeticIs, Pair
<1>3. CASE ~ ("op" \in DOMAIN last'.inst /\ last'.inst.op \in ArithmeticOps)
  BY <1>3 DEF ArithmeticIs
<1> QED  BY <1>1, <1>2, <1>3

\* A step that is not an instruction's leaves no result of one behind.
LEMMA OtherSteps ==
    ASSUME [Next]_vars, ~ Step
    PROVE  last' = last \/ "op" \notin DOMAIN last'.inst
<1>1. CASE UNCHANGED last  BY <1>1
<1>2. CASE Fetch
  <2>1. PICK i \in G.halfwords :
          last' = [inst |-> [kind |-> "C", half |-> i], word |-> decompress(i, xb = Wide)]
    BY <1>2 DEF Fetch
  <2>2. "op" \notin DOMAIN last'.inst  BY <2>1
  <2> QED  BY <2>2
<1> QED  BY <1>1, <1>2 DEF Next, Switch, FirstUse, vars

\* At the start no instruction has a record.
LEMMA InitLast == Init => "op" \notin DOMAIN last.inst
<1> SUFFICES ASSUME Init PROVE "op" \notin DOMAIN last.inst  OBVIOUS
<1>1. last.inst = [kind |-> "none"]  BY DEF Init, NoInst
<1> QED  BY <1>1

\* Whatever a guest executes, an addition, subtraction, multiplication, division
\* or square root returns the exact result rounded once, in the instruction's or
\* the dynamic mode, with exactly the flags of that rounding, subnormals, zeros,
\* infinities and NaNs included (fpu.rs add_or_sub, mul, div, sqrt, round_pack).
THEOREM ArithmeticCorrect == Spec => []ArithmeticRounded
<1>1. Init => ArithmeticIs(last)  BY InitLast DEF ArithmeticIs
<1>2. TypeOK /\ ArithmeticIs(last) /\ [Next]_vars => ArithmeticIs(last)'
  <2> SUFFICES ASSUME TypeOK, ArithmeticIs(last), [Next]_vars PROVE ArithmeticIs(last')
    OBVIOUS
  <2>1. CASE Step  BY <2>1, StepArithmetic DEF Step
  <2>2. CASE ~ Step
    <3>1. last' = last \/ "op" \notin DOMAIN last'.inst  BY <2>2, OtherSteps
    <3>2. CASE last' = last  BY <3>2
    <3>3. CASE "op" \notin DOMAIN last'.inst  BY <3>3 DEF ArithmeticIs
    <3> QED  BY <3>1, <3>2, <3>3
  <2> QED  BY <2>1, <2>2
<1>3. ArithmeticIs(last) => ArithmeticRounded  BY ArithmeticMeans
<1> QED  BY <1>1, <1>2, <1>3, ExecuteTypeCorrect, PTL DEF Spec

FusedIs(l) ==
    "op" \in DOMAIN l.inst /\ l.inst.op \in FusedOps =>
        [v |-> l.v, flags |-> l.flags] =
          FusedSpec(fp_fmt(l.inst), l.a, l.b,
                    ProductSign(fp_fmt(l.inst), l.a, l.b) # NegatesProduct(l.inst),
                    l.c, Negative(fp_fmt(l.inst), l.c) # NegatesAddend(l.inst), l.rm)

\* A fused instruction leaves a record that satisfies the property.
LEMMA StepFused ==
    ASSUME TypeOK, FusedIs(last), NEW i \in G.insts, execute(i)
    PROVE  FusedIs(last')
<1>1. CASE last' = last  BY <1>1
<1>2. CASE last' # last /\ "op" \in DOMAIN last'.inst /\ last'.inst.op \in FusedOps
  <2> DEFINE f == fp_fmt(i)
             a == freg(i, i.rs1)
             b == freg(i, i.rs2)
             c == freg(i, i.rs3)
             rm == rounding(i)
             r == fma(f, a, b, c, NegatesProduct(i), NegatesAddend(i), rm)
             sp == ProductSign(f, a, b) # NegatesProduct(i)
             sc == Negative(f, c) # NegatesAddend(i)
  <2>1. last'.inst = i /\ ~ Trapped  BY <1>2, OnlyExecuted
  <2>2. "op" \in DOMAIN i /\ i.op \in FusedOps  BY <1>2, <2>1
  <2>3. i.kind = "FMADD"
    <3>1. guest \in DOMAIN Guests  BY DEF TypeOK
    <3> QED  BY <2>2, <3>1, DecodeAssumption DEF G
  <2>4. Fused(i)  BY <2>3 DEF execute
  <2>5. i.fmt \in {"S", "D"} /\ rm # "none" /\ FpResult(i, a, b, c, r)
    BY <2>1, <2>4 DEF Fused, Illegal
  <2>6. /\ i.rs1 \in 0 .. 2 /\ i.rs2 \in 0 .. 2 /\ i.rs3 \in 0 .. 2
        /\ "rm" \in DOMAIN i /\ i.rm \in 0 .. 7
    BY <2>3, Decoded
  <2>7. f \in Formats /\ a \in Int /\ b \in Int /\ c \in Int
    BY <2>5, <2>6, FmtFacts
  <2>8. rm \in Rms  BY <2>5, <2>6, RoundingMode
  <2>9. r = FusedSpec(f, a, b, sp, c, sc, rm)
    <3>1. \A np, na \in BOOLEAN :
            fma(f, a, b, c, np, na, rm) =
              FusedSpec(f, a, b, ProductSign(f, a, b) # np, c, Negative(f, c) # na, rm)
      <4> HIDE DEF f, a, b, c, rm
      <4> QED  BY <2>7, <2>8, FusedRounds
    <3>2. NegatesProduct(i) \in BOOLEAN /\ NegatesAddend(i) \in BOOLEAN
      BY DEF NegatesProduct, NegatesAddend
    <3> HIDE DEF f, a, b, c, rm
    <3> QED  BY <3>1, <3>2
  <2>10. Pair(r)
    <3>1. \A s, t : Pair(FusedSpec(f, a, b, s, c, t, rm))  BY FusedPair
    <3> HIDE DEF f, a, b, c, rm, r, sp, sc
    <3> QED  BY <2>9, <3>1
  <2>11. Trace(i, a, b, c, r.v, r.flags)  BY <2>5 DEF FpResult
  <2>12. /\ last'.inst = i /\ last'.rm = rm /\ last'.a = a /\ last'.b = b /\ last'.c = c
         /\ last'.v = r.v /\ last'.flags = r.flags
    <3> HIDE DEF r, a, b, c
    <3> QED  BY <1>2, <2>6, <2>11, TraceHolds
  <2>13. FusedSpec(fp_fmt(last'.inst), last'.a, last'.b,
                   ProductSign(fp_fmt(last'.inst), last'.a, last'.b) # NegatesProduct(last'.inst),
                   last'.c, Negative(fp_fmt(last'.inst), last'.c) # NegatesAddend(last'.inst),
                   last'.rm) = FusedSpec(f, a, b, sp, c, sc, rm)
    <3> HIDE DEF r, a, b, c, rm
    <3> QED  BY <2>12
  <2> HIDE DEF r, a, b, c, rm, sp, sc
  <2> QED  BY <2>9, <2>10, <2>12, <2>13 DEF FusedIs, Pair
<1>3. CASE ~ ("op" \in DOMAIN last'.inst /\ last'.inst.op \in FusedOps)
  BY <1>3 DEF FusedIs
<1> QED  BY <1>1, <1>2, <1>3

\* The four fused instructions round the exact a * b + c once, however far apart
\* the product and the addend lie and however much of them cancels (fpu.rs fma,
\* add_raw).
THEOREM FusedCorrect == Spec => []FusedRoundsOnce
<1>1. Init => FusedIs(last)  BY InitLast DEF FusedIs
<1>2. TypeOK /\ FusedIs(last) /\ [Next]_vars => FusedIs(last)'
  <2> SUFFICES ASSUME TypeOK, FusedIs(last), [Next]_vars PROVE FusedIs(last')
    OBVIOUS
  <2>1. CASE Step  BY <2>1, StepFused DEF Step
  <2>2. CASE ~ Step
    <3>1. last' = last \/ "op" \notin DOMAIN last'.inst  BY <2>2, OtherSteps
    <3>2. CASE last' = last  BY <3>2
    <3>3. CASE "op" \notin DOMAIN last'.inst  BY <3>3 DEF FusedIs
    <3> QED  BY <3>1, <3>2, <3>3
  <2> QED  BY <2>1, <2>2
<1>3. FusedIs(last) => FusedRoundsOnce
  BY DEF FusedIs, FusedOps, FusedRoundsOnce, Newest, Result, Fmt
<1> QED  BY <1>1, <1>2, <1>3, ExecuteTypeCorrect, PTL DEF Spec

\* Conversions between the formats.
FormatIs(l) ==
    "op" \in DOMAIN l.inst /\ l.inst.op = "FCVT.F.F" =>
        [v |-> l.v, flags |-> l.flags] = ConvertSpec(OtherFmt(l.inst), fp_fmt(l.inst), l.a, l.rm)
FromIs(l) ==
    "op" \in DOMAIN l.inst /\ l.inst.op = "FCVT.F.X" =>
        [v |-> l.v, flags |-> l.flags] =
          RoundedRatio(fp_fmt(l.inst), IntOperand(l.inst, l.a) * Scale(fp_fmt(l.inst)), 1, FALSE, l.rm)
ToIs(l) ==
    "op" \in DOMAIN l.inst /\ l.inst.op = "FCVT.X.F" =>
        LET r == IntegerSpec(fp_fmt(l.inst), l.a, IntWidth(l.inst), IntSigned(l.inst), l.rm)
        IN  l.v = sext(r.v, IntWidth(l.inst)) /\ l.flags = r.flags

\* The instruction the newest record is about, and the way its result came about.
LEMMA OpFpExecuted ==
    ASSUME TypeOK, NEW i \in G.insts, execute(i), G.traced \/ last' # last,
           "op" \in DOMAIN last'.inst, last'.inst.op \in {"FCVT.F.F", "FCVT.F.X", "FCVT.X.F"}
    PROVE  /\ last'.inst = i /\ ~ Trapped /\ "op" \in DOMAIN i /\ i.fmt \in {"S", "D"}
           /\ execute_op_fp(i)
           /\ i.rs1 \in 1 .. 2 /\ i.rs2 \in 1 .. 2 /\ "rm" \in DOMAIN i
           /\ rounding(i) # "none" => rounding(i) \in Rms
<1>1. last'.inst = i /\ ~ Trapped  BY OnlyExecuted
<1>2. "op" \in DOMAIN i /\ i.op \in {"FCVT.F.F", "FCVT.F.X", "FCVT.X.F"}  BY <1>1
<1>3. i.kind = "OP-FP"
  <2>1. guest \in DOMAIN Guests  BY DEF TypeOK
  <2> QED  BY <1>2, <2>1, DecodeAssumption DEF G, FpOps
<1>4. OpFp(i)  BY <1>3 DEF execute
<1>5. i.fmt \in {"S", "D"} /\ execute_op_fp(i)  BY <1>1, <1>4 DEF OpFp, Illegal
<1>6. i.rs1 \in 1 .. 2 /\ i.rs2 \in 1 .. 2 /\ "rm" \in DOMAIN i /\ i.rm \in 0 .. 7
  BY <1>3, Decoded
<1>7. rounding(i) # "none" => rounding(i) \in Rms  BY <1>6, RoundingMode
<1> QED  BY <1>1, <1>2, <1>5, <1>6, <1>7

LEMMA ConvertPair ==
    ASSUME NEW from, NEW to, NEW a, NEW rm PROVE Pair(ConvertSpec(from, to, a, rm))
<1> DEFINE fl == IF IsSignalling(from, a) THEN {"NV"} ELSE {}
           x == RoundedRatio(to, SignedUnits(from, a) * Scale(to), Scale(from), Negative(from, a), rm)
<1>1. ConvertSpec(from, to, a, rm) =
        IF IsNan(from, a) THEN [v |-> nan(to), flags |-> fl]
        ELSE IF IsInf(from, a) THEN Exact(inf(to, Negative(from, a))) ELSE x
  BY DEF ConvertSpec
<1>2. \A y : Pair(Exact(y))  BY SpecPair
<1>3. Pair(x)
  <2>1. \A n, d, z : Pair(RoundedRatio(to, n, d, z, rm))  BY SpecPair
  <2> QED  BY <2>1
<1> HIDE DEF x, fl
<1>4. Pair([v |-> nan(to), flags |-> fl])
  <2> DEFINE y == nan(to)
  <2> HIDE DEF y
  <2>1. Pair([v |-> y, flags |-> fl])  BY PairIs
  <2> QED  BY <2>1 DEF y
<1> QED  BY <1>1, <1>2, <1>3, <1>4

\* A conversion between formats, one from an integer and one to an integer.
LEMMA StepFormat ==
    ASSUME TypeOK, FormatIs(last), NEW i \in G.insts, execute(i)
    PROVE  FormatIs(last')
<1>1. CASE last' = last  BY <1>1
<1>2. CASE last' # last /\ "op" \in DOMAIN last'.inst /\ last'.inst.op = "FCVT.F.F"
  <2> DEFINE f == fp_fmt(i)
             o == OtherFmt(i)
             a == OtherOperand(i)
             rm == rounding(i)
             r == convert(o, f, a, rm)
  <2>1. /\ last'.inst = i /\ ~ Trapped /\ i.fmt \in {"S", "D"} /\ execute_op_fp(i)
        /\ i.rs1 \in 0 .. 2 /\ "rm" \in DOMAIN i
        /\ rm # "none" => rm \in Rms
    BY <1>2, OpFpExecuted
  <2>2. i.op = "FCVT.F.F"  BY <1>2, <2>1
  <2>3. rm # "none" /\ FpResult(i, a, 0, 0, r)
    BY <2>1, <2>2 DEF execute_op_fp, Illegal
  <2>4. f \in Formats /\ o \in Formats /\ a \in Int  BY <2>1, FmtFacts
  <2>5. r = ConvertSpec(o, f, a, rm) /\ Pair(r)
    <3> HIDE DEF f, o, a, rm
    <3> QED  BY <2>1, <2>3, <2>4, ConvertRounds, ConvertPair
  <2>6. Trace(i, a, 0, 0, r.v, r.flags)  BY <2>3 DEF FpResult
  <2>7. /\ last'.inst = i /\ last'.rm = rm /\ last'.a = a
        /\ last'.v = r.v /\ last'.flags = r.flags
    <3> HIDE DEF r, a
    <3> QED  BY <1>2, <2>1, <2>6, TraceHolds
  <2> HIDE DEF r, a, rm
  <2> QED  BY <2>5, <2>7 DEF FormatIs, Pair
<1>3. CASE ~ ("op" \in DOMAIN last'.inst /\ last'.inst.op = "FCVT.F.F")
  BY <1>3 DEF FormatIs
<1> QED  BY <1>1, <1>2, <1>3

\* The operand of a conversion from an integer is one of its width.
LEMMA IntOperandRange ==
    ASSUME NEW i, NEW v \in Int
    PROVE  /\ IntWidth(i) \in Widths /\ IntSigned(i) \in BOOLEAN
           /\ IntOperand(i, v) \in Int /\ Abs(IntOperand(i, v)) < 2^Wide
<1> DEFINE w == IntWidth(i)
           x == IntOperand(i, v)
           W == 2^Wide
<1>1. w \in Widths /\ IntSigned(i) \in BOOLEAN  BY DEF IntWidth, IntSigned, Widths
<1>2. /\ Signed(v, w) \in Int /\ - W < Signed(v, w) /\ Signed(v, w) < W
      /\ trunc(v, w) \in Int /\ - W < trunc(v, w) /\ trunc(v, w) < W
  BY <1>1, OperandRange
<1>3. x = Signed(v, w) \/ x = trunc(v, w)  BY DEF IntOperand
<1>4. W \in Nat  BY Powers
<1>5. Abs(x) = IF x < 0 THEN - x ELSE x  BY DEF Abs
<1> HIDE DEF x, W, w
<1>6. x \in Int /\ - W < x /\ x < W  BY <1>2, <1>3
<1>7. Abs(x) < W  BY <1>4, <1>5, <1>6
<1> QED  BY <1>1, <1>6, <1>7 DEF x, W, w

LEMMA StepFrom ==
    ASSUME TypeOK, FromIs(last), NEW i \in G.insts, execute(i)
    PROVE  FromIs(last')
<1>1. CASE last' = last  BY <1>1
<1>2. CASE last' # last /\ "op" \in DOMAIN last'.inst /\ last'.inst.op = "FCVT.F.X"
  <2> DEFINE f == fp_fmt(i)
             a == regs[i.rs1]
             x == IntOperand(i, a)
             rm == rounding(i)
             r == from_int(f, x < 0, Abs(x), rm)
  <2>1. /\ last'.inst = i /\ ~ Trapped /\ i.fmt \in {"S", "D"} /\ execute_op_fp(i)
        /\ i.rs1 \in 1 .. 2 /\ "rm" \in DOMAIN i
        /\ rm # "none" => rm \in Rms
    BY <1>2, OpFpExecuted
  <2>2. i.op = "FCVT.F.X"  BY <1>2, <2>1
  <2>3. rm # "none" /\ FpResult(i, a, 0, 0, r)
    BY <2>1, <2>2 DEF execute_op_fp, Illegal
  <2>4. f \in Formats  BY <2>1, FmtFacts
  <2>5. a \in Int  BY <2>1, HartTypes
  <2>6. x \in Int /\ Abs(x) < 2^Wide  BY <2>5, IntOperandRange
  <2>7. r = RoundedRatio(f, x * Scale(f), 1, FALSE, rm) /\ Pair(r)
    <3> HIDE DEF f, x, rm
    <3>1. r = RoundedRatio(f, x * Scale(f), 1, FALSE, rm)  BY <2>1, <2>3, <2>4, <2>6, FromIntRounds
    <3>2. \A n, d, z : Pair(RoundedRatio(f, n, d, z, rm))  BY SpecPair
    <3> QED  BY <3>1, <3>2
  <2>8. Trace(i, a, 0, 0, r.v, r.flags)  BY <2>3 DEF FpResult
  <2>9. /\ last'.inst = i /\ last'.rm = rm /\ last'.a = a
        /\ last'.v = r.v /\ last'.flags = r.flags
    <3> HIDE DEF r, a
    <3> QED  BY <1>2, <2>1, <2>8, TraceHolds
  <2>10. IntOperand(last'.inst, last'.a) = x
    <3> HIDE DEF a
    <3> QED  BY <2>9
  <2> HIDE DEF r, a, rm, x
  <2> QED  BY <2>7, <2>9, <2>10 DEF FromIs, Pair
<1>3. CASE ~ ("op" \in DOMAIN last'.inst /\ last'.inst.op = "FCVT.F.X")
  BY <1>3 DEF FromIs
<1> QED  BY <1>1, <1>2, <1>3

LEMMA StepTo ==
    ASSUME TypeOK, ToIs(last), NEW i \in G.insts, execute(i)
    PROVE  ToIs(last')
<1>1. CASE last' = last  BY <1>1
<1>2. CASE last' # last /\ "op" \in DOMAIN last'.inst /\ last'.inst.op = "FCVT.X.F"
  <2> DEFINE f == fp_fmt(i)
             a == freg(i, i.rs1)
             w == IntWidth(i)
             rm == rounding(i)
             r == to_int(f, a, w, IntSigned(i), rm)
             n == sext(r.v, w)
  <2>1. /\ last'.inst = i /\ ~ Trapped /\ i.fmt \in {"S", "D"} /\ execute_op_fp(i)
        /\ i.rs1 \in 0 .. 2 /\ "rm" \in DOMAIN i
        /\ rm # "none" => rm \in Rms
    BY <1>2, OpFpExecuted
  <2>2. i.op = "FCVT.X.F"  BY <1>2, <2>1
  <2>3. rm # "none" /\ FpToInteger(i, a, 0, n, r)
    BY <2>1, <2>2 DEF execute_op_fp, Illegal
  <2>4. f \in Formats /\ a \in Int  BY <2>1, FmtFacts
  <2>5. w \in Widths /\ IntSigned(i) \in BOOLEAN  BY DEF IntWidth, IntSigned, Widths
  <2>6. r = IntegerSpec(f, a, w, IntSigned(i), rm)
    <3>1. \A s \in BOOLEAN : to_int(f, a, w, s, rm) = IntegerSpec(f, a, w, s, rm)
      <4> HIDE DEF f, a, w, rm
      <4> QED  BY <2>1, <2>3, <2>4, <2>5, ToIntRounds
    <3> HIDE DEF f, a, w, rm
    <3> QED  BY <2>5, <3>1
  <2>7. Trace(i, a, 0, 0, n, r.flags)  BY <2>3 DEF FpToInteger
  <2>8. /\ last'.inst = i /\ last'.rm = rm /\ last'.a = a
        /\ last'.v = n /\ last'.flags = r.flags
    <3> HIDE DEF r, a, n
    <3> QED  BY <1>2, <2>1, <2>7, TraceHolds
  <2>9. IntegerSpec(fp_fmt(last'.inst), last'.a, IntWidth(last'.inst), IntSigned(last'.inst), last'.rm) = r
    <3> HIDE DEF a, rm, r
    <3> QED  BY <2>6, <2>8
  <2>10. IntWidth(last'.inst) = w  BY <2>8
  <2> HIDE DEF r, a, rm, w
  <2> QED  BY <2>8, <2>9, <2>10 DEF ToIs
<1>3. CASE ~ ("op" \in DOMAIN last'.inst /\ last'.inst.op = "FCVT.X.F")
  BY <1>3 DEF ToIs
<1> QED  BY <1>1, <1>2, <1>3

\* A register whose upper half is not all ones does not hold a single.
LEMMA NotBoxed ==
    ASSUME NEW v \in Nat, v < 2^Wide - 2^Narrow
    PROVE  unbox(v) = nan(S)
<1> DEFINE d == Wide - Narrow
           K == 2^Narrow
           W == 2^Wide
           J == 2^d
           q == v \div K
<1>1. Narrow \in 0 .. Wide /\ Wide \in 0 .. Wide /\ d \in 0 .. Wide /\ Wide = Narrow + d
  BY AluAssumption
<1>2. K \in Nat \ {0} /\ W \in Nat \ {0} /\ J \in Nat \ {0}  BY <1>1, PowerType
<1>3. W = K * J  BY <1>1, PowerSum
<1>4. v < W - K  OBVIOUS
<1>5. unbox(v) = IF q = J - 1 THEN v % K ELSE nan(S)  BY DEF unbox
<1> HIDE DEF K, W, J, q, d
<1>6. q # J - 1
  <2> SUFFICES ASSUME q = J - 1 PROVE FALSE  OBVIOUS
  <2>1. q \in Nat /\ v >= K * q  BY <1>2 DEF q
  <2>2. K * (J - 1) = K * J - K  BY <1>2
  <2> QED  BY <1>2, <1>3, <1>4, <2>1, <2>2
<1> QED  BY <1>5, <1>6

\* The canonical NaN is one.
LEMMA NanIsNan ==
    ASSUME NEW f \in Formats PROVE IsNan(f, nan(f))
<1> DEFINE Q == 2^(f.sig - 1)
           A == 2^f.sig
           E == 2^exp_bits(f)
           K == 2^(f.bits - 1)
           N == 2^f.bits
           n == nan(f)
           Y == Infinity(f)
<1>1. Q \in Nat \ {0} /\ A = 2 * Q /\ E \in Nat /\ E >= 4 /\ K = E * A /\ N = 2 * K
      /\ A \in Nat \ {0} /\ K \in Nat \ {0}
  BY FormatPowers
<1>2. Y = (E - 1) * A /\ Y \in Nat  BY InfinityIs
<1>3. n = Y + Q  BY DEF nan, quiet_bit, Infinity
<1>4. Magnitude(f, n) = (n % N) % K  BY DEF Magnitude, Masked, sign_mask
<1> SUFFICES Magnitude(f, n) > Y  BY DEF IsNan
<1> HIDE DEF Q, A, E, K, N, n, Y
<1>5. Y = K - A
  <2>1. (E - 1) * A = E * A - A  BY <1>1
  <2> QED  BY <1>1, <1>2, <2>1
<1>6. n \in Nat /\ n < K /\ n < N /\ n > Y  BY <1>1, <1>2, <1>3, <1>5
<1>7. n % N = n /\ n % K = n  BY <1>1, <1>6
<1> QED  BY <1>4, <1>6, <1>7

BoxIs(l, fs1, fregs1) ==
    /\ "op" \in DOMAIN l.inst /\ l.inst.op = "FCVT.F.F"
    /\ l.inst.fmt = "D" /\ l.inst.rs1 # l.inst.rd /\ fs1 = Dirty
    /\ fregs1[l.inst.rs1] < 2^Wide - 2^Narrow
    => l.v = nan(D)

\* The part of the inductive invariant that ties a record to the guest: only a
\* guest that is traced has one of an instruction.
BoxInv == BoxIs(last, fs, fregs) /\ (~ G.traced => "op" \notin DOMAIN last.inst)

\* A conversion of a register that holds no single.
LEMMA StepBox ==
    ASSUME TypeOK, BoxInv, NEW i \in G.insts, execute(i), UNCHANGED guest
    PROVE  BoxInv'
<1>1. G' = G  BY DEF G
<1>2. CASE "op" \notin DOMAIN last'.inst  BY <1>2 DEF BoxInv, BoxIs
<1>3. CASE "op" \in DOMAIN last'.inst
  <2>1. G.traced
    <3> SUFFICES ASSUME ~ G.traced PROVE FALSE  OBVIOUS
    <3>1. last' # last  BY <1>3 DEF BoxInv
    <3>2. last'.inst = i /\ ~ Trapped  BY <1>3, <3>1, OnlyExecuted
    <3>3. last' = [inst |-> NoInst]  BY <3>1, ExecuteTraces
    <3>4. last'.inst = [kind |-> "none"]  BY <3>3 DEF NoInst
    <3>5. "op" \notin DOMAIN [kind |-> "none"]  OBVIOUS
    <3> QED  BY <1>3, <3>4, <3>5
  <2>2. BoxIs(last', fs', fregs')
    <3> DEFINE l == last'
    <3> SUFFICES ASSUME l.inst.op = "FCVT.F.F", l.inst.fmt = "D", l.inst.rs1 # l.inst.rd,
                        fregs'[l.inst.rs1] < 2^Wide - 2^Narrow
                 PROVE  l.v = nan(D)
      BY DEF BoxIs
    <3> DEFINE a == OtherOperand(i)
               rm == rounding(i)
               r == convert(S, D, a, rm)
    <3>1. /\ last'.inst = i /\ ~ Trapped /\ i.fmt \in {"S", "D"} /\ execute_op_fp(i)
          /\ i.rs1 \in 0 .. 2 /\ "rm" \in DOMAIN i
          /\ rm # "none" => rm \in Rms
      BY <1>3, <2>1, OpFpExecuted
    <3>2. i.op = "FCVT.F.F" /\ i.fmt = "D" /\ i.rs1 # i.rd /\ fregs'[i.rs1] < 2^Wide - 2^Narrow
      BY <3>1
    <3>3. fp_fmt(i) = D /\ OtherFmt(i) = S /\ a = unbox(fregs[i.rs1])
      BY <3>2 DEF fp_fmt, OtherFmt, OtherOperand
    <3>4. rm # "none" /\ FpResult(i, a, 0, 0, r)
      BY <3>1, <3>2, <3>3 DEF execute_op_fp, Illegal
    <3>5. fregs'[i.rs1] = fregs[i.rs1] /\ fregs[i.rs1] \in Nat
      <4>1. DOMAIN fregs = 0 .. 2  BY DEF TypeOK
      <4>2. fregs[i.rs1] \in Nat  BY <3>1, HartTypes
      <4>3. \E x : fregs' = [fregs EXCEPT ![i.rd] = x]  BY <3>4 DEF FpResult
      <4> QED  BY <3>1, <3>2, <4>1, <4>2, <4>3
    <3>6. a = nan(S)
      <4>1. fregs[i.rs1] < 2^Wide - 2^Narrow  BY <3>2, <3>5
      <4>2. unbox(fregs[i.rs1]) = nan(S)  BY <3>5, <4>1, NotBoxed
      <4> QED  BY <3>3, <4>2
    <3>7. S \in Formats /\ D \in Formats  BY DEF Formats
    <3>8. a \in Int
      <4>1. i.fmt \in {"S", "D"} /\ i.rs1 \in 0 .. 2  BY <3>1
      <4> QED  BY <4>1, FmtFacts
    <3>9. r = ConvertSpec(S, D, a, rm)
      <4> HIDE DEF a, rm
      <4> QED  BY <3>1, <3>4, <3>7, <3>8, ConvertRounds
    <3>10. IsNan(S, a)  BY <3>6, <3>7, NanIsNan
    <3>11. r.v = nan(D)
      <4> HIDE DEF a, r
      <4> QED  BY <3>9, <3>10 DEF ConvertSpec
    <3>12. Trace(i, a, 0, 0, r.v, r.flags)  BY <3>4 DEF FpResult
    <3>13. last'.v = r.v
      <4> HIDE DEF r, a
      <4> QED  BY <2>1, <3>1, <3>12, TraceHolds
    <3> QED  BY <3>11, <3>13
  <2> QED  BY <1>1, <2>1, <2>2 DEF BoxInv
<1> QED  BY <1>2, <1>3

ConversionInv == FormatIs(last) /\ FromIs(last) /\ ToIs(last) /\ BoxInv

\* Every step keeps the invariant.
LEMMA NextConversion == TypeOK /\ ConversionInv /\ [Next]_vars => ConversionInv'
<1> SUFFICES ASSUME TypeOK, ConversionInv, [Next]_vars PROVE ConversionInv'  OBVIOUS
<1> USE DEF ConversionInv
<1>1. CASE Step
  <2>1. UNCHANGED guest  BY <1>1 DEF Step
  <2>2. PICK i \in G.insts : execute(i)  BY <1>1 DEF Step
  <2>3. FormatIs(last') /\ FromIs(last') /\ ToIs(last')  BY <2>2, StepFormat, StepFrom, StepTo
  <2>4. BoxInv'  BY <2>1, <2>2, StepBox
  <2> QED  BY <2>3, <2>4
<1>2. CASE ~ Step
  <2>0. UNCHANGED guest
    BY <1>2 DEF Next, Fetch, Switch, FirstUse, vars
  <2>1. G' = G  BY <2>0 DEF G
  <2>2. last' = last \/ "op" \notin DOMAIN last'.inst  BY <1>2, OtherSteps
  <2>3. CASE "op" \notin DOMAIN last'.inst
    BY <2>3 DEF FormatIs, FromIs, ToIs, BoxInv, BoxIs
  <2>4. CASE last' = last /\ "op" \in DOMAIN last'.inst
    <3>1. (fs' = fs /\ fregs' = fregs) \/ fs' # Dirty
      BY <1>2 DEF Next, Fetch, Switch, FirstUse, vars, fpVars, Dirty, Off, Clean
    <3>2. BoxIs(last', fs', fregs')  BY <2>4, <3>1 DEF BoxInv, BoxIs
    <3> QED  BY <2>1, <2>4, <3>2 DEF BoxInv
  <2> QED  BY <2>2, <2>3, <2>4
<1> QED  BY <1>1, <1>2

\* A conversion between formats or from an integer rounds once; one to an integer
\* rounds and then saturates, reporting invalid alone; and a register that was
\* not given a single converts as a NaN (fpu.rs convert, from_int, to_int, cpu.rs
\* unbox).
THEOREM ConversionsCorrect == Spec => []ConversionsRounded
<1>1. Init => ConversionInv
  BY InitLast DEF ConversionInv, FormatIs, FromIs, ToIs, BoxInv, BoxIs
<1>2. ConversionInv => ConversionsRounded
  BY DEF ConversionInv, FormatIs, FromIs, ToIs, BoxInv, BoxIs, ConversionsRounded, Newest, Result, Fmt
<1> QED  BY <1>1, <1>2, NextConversion, ExecuteTypeCorrect, PTL DEF Spec
=============================================================================
