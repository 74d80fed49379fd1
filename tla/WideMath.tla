------------------------------- MODULE WideMath -------------------------------
(***************************************************************************)
(* The wide integers of src/src/wide_math.rs, limb by limb.  A limb (u128  *)
(* in the source) has BITS bits and is multiplied through its two halves   *)
(* (u64); a U256 is <<lo, hi>>, a U512 four limbs, an I256 the two limbs   *)
(* of a two's complement number.  Operators on limbs use only what the     *)
(* machine has: sums, differences and products modulo B with a carry.      *)
(* Production stores four u64 and computes on the halves lo() and hi();    *)
(* only the copy for Kani stores the two u128.                             *)
(* A result that is an Option is None or the value; a panic is Panic.      *)
(***************************************************************************)
EXTENDS Integers, Sequences, SequencesExt

CONSTANT BITS                    \* bits of a limb

ASSUME BitsAssumption == BITS \in Nat \ {0} /\ BITS % 2 = 0

B == 2^BITS
HALF == 2^(BITS \div 2)
Limb == 0..(B - 1)
None == <<>>
Panic == <<"panic">>

\* overflowing_add, overflowing_sub of a limb: <<result, carry>>
AddLimb(a, b) == <<(a + b) % B, (a + b) \div B>>
SubLimb(a, b) == <<(a - b) % B, IF a < b THEN 1 ELSE 0>>
Either(c, d) == IF c + d > 0 THEN 1 ELSE 0

Lo(x) == x[1]
Hi(x) == x[2]
ZERO == <<0, 0>>
ONE == <<1, 0>>

-----------------------------------------------------------------------------
(* Unsigned: U256 *)

add_u128_carry(a, b, c) ==
    LET s == AddLimb(a, b)
        t == AddLimb(s[1], c)
    IN  <<t[1], Either(s[2], t[2])>>

sub_u128_borrow(a, b, c) ==
    LET s == SubLimb(a, b)
        t == SubLimb(s[1], c)
    IN  <<t[1], Either(s[2], t[2])>>

checked_add(x, y) ==
    LET lo == add_u128_carry(Lo(x), Lo(y), 0)
        hi == add_u128_carry(Hi(x), Hi(y), lo[2])
    IN  IF hi[2] = 1 THEN None ELSE <<lo[1], hi[1]>>

checked_sub(x, y) ==
    LET lo == sub_u128_borrow(Lo(x), Lo(y), 0)
        hi == sub_u128_borrow(Hi(x), Hi(y), lo[2])
    IN  IF hi[2] = 1 THEN None ELSE <<lo[1], hi[1]>>

\* Schoolbook on halves: <<lo, hi>> of the product.
V_widening_mul_u128(a, b) ==  \* the carry of the middle sum is lost
    LET mid == AddLimb((a % HALF) * (b \div HALF), (a \div HALF) * (b % HALF))
        lo == AddLimb((a % HALF) * (b % HALF), (mid[1] * HALF) % B)
    IN  <<lo[1], (a \div HALF) * (b \div HALF) + (mid[1] \div HALF) + lo[2]>>

widening_mul_u128(a, b) ==
    LET mid == AddLimb((a % HALF) * (b \div HALF), (a \div HALF) * (b % HALF))
        lo == AddLimb((a % HALF) * (b % HALF), (mid[1] * HALF) % B)
    IN  <<lo[1], (a \div HALF) * (b \div HALF) + (mid[1] \div HALF) + mid[2] * HALF + lo[2]>>

checked_mul(x, y) ==
    LET prod == widening_mul_u128(Lo(x), Lo(y))
        cross1 == widening_mul_u128(Lo(x), Hi(y))
        cross2 == widening_mul_u128(Hi(x), Lo(y))
        hi == AddLimb(prod[2], cross1[1])
        top == AddLimb(hi[1], cross2[1])
    IN  IF \/ Hi(x) # 0 /\ Hi(y) # 0
           \/ cross1[2] # 0 \/ cross2[2] # 0 \/ hi[2] = 1 \/ top[2] = 1
        THEN None ELSE <<prod[1], top[1]>>

shl(x, n) ==
    IF n >= 2 * BITS THEN ZERO ELSE IF n = 0 THEN x
    ELSE IF n >= BITS THEN <<0, (Lo(x) * 2^(n - BITS)) % B>>
    ELSE <<(Lo(x) * 2^n) % B, ((Hi(x) * 2^n) % B) + (Lo(x) \div 2^(BITS - n))>>

shr(x, n) ==
    IF n >= 2 * BITS THEN ZERO ELSE IF n = 0 THEN x
    ELSE IF n >= BITS THEN <<Hi(x) \div 2^(n - BITS), 0>>
    ELSE <<(Lo(x) \div 2^n) + ((Hi(x) * 2^(BITS - n)) % B), Hi(x) \div 2^n>>

Less(x, y) == Hi(x) < Hi(y) \/ (Hi(x) = Hi(y) /\ Lo(x) < Lo(y))

LimbZeros(a) == BITS - (CHOOSE n \in 0..BITS : a < 2^n /\ (n = 0 \/ a >= 2^(n - 1)))

leading_zeros_u256(x) == IF Hi(x) # 0 THEN LimbZeros(Hi(x)) ELSE BITS + LimbZeros(Lo(x))

\* bitor with a single bit
WithBit(a, n) == IF (a \div 2^n) % 2 = 1 THEN a ELSE a + 2^n
SetBit(x, n) == [x EXCEPT ![(n \div BITS) + 1] = WithBit(@, n % BITS)]

\* The bits shift, shift - 1, ..., 0 of a long division
Countdown(shift) == [k \in 1..(shift + 1) |-> shift + 1 - k]

DivStep(s, i) ==
    LET fits == ~Less(s.rem, s.div)
    IN  [rem |-> IF fits THEN checked_sub(s.rem, s.div) ELSE s.rem,
         quo |-> IF fits THEN SetBit(s.quo, i) ELSE s.quo,
         div |-> shr(s.div, 1)]

LongDivision(num, den, shift) ==
    LET s == FoldLeft(DivStep, [rem |-> num, quo |-> ZERO, div |-> shl(den, shift)],
                      Countdown(shift))
    IN  <<s.quo, s.rem>>

div_rem_u256(num, den) ==
    IF den = ZERO THEN Panic
    ELSE IF Less(num, den) THEN <<ZERO, num>>
    ELSE IF Hi(num) = 0 /\ Hi(den) = 0
         THEN << <<Lo(num) \div Lo(den), 0>>, <<Lo(num) % Lo(den), 0>> >>
    ELSE LongDivision(num, den, leading_zeros_u256(den) - leading_zeros_u256(num))

-----------------------------------------------------------------------------
(* U512, the intermediate of mul_div *)

mul_u256(x, y) ==
    LET c == widening_mul_u128(Lo(x), Lo(y))
        p == widening_mul_u128(Lo(x), Hi(y))
        q == widening_mul_u128(Hi(x), Lo(y))
        z == widening_mul_u128(Hi(x), Hi(y))
        r1a == AddLimb(c[2], p[1])
        r1 == AddLimb(r1a[1], q[1])
        r2a == AddLimb(p[2], q[2])
        r2b == AddLimb(r2a[1], z[1])
        r2 == AddLimb(r2b[1], r1a[2] + r1[2])
    IN  <<c[1], r1[1], r2[1], z[2] + r2a[2] + r2b[2] + r2[2]>>

Widened(x) == <<Lo(x), Hi(x), 0, 0>>

\* cmp_u512: the highest limb that differs decides.
LessU512(x, y) ==
    \E i \in 1..4 : x[i] < y[i] /\ \A j \in (i + 1)..4 : x[j] = y[j]

LimbAt(x, i) == IF i \in 1..4 THEN x[i] ELSE 0

shl_u512(x, n) ==
    LET w == n \div BITS
        b == n % BITS
    IN  [i \in 1..4 |-> ((LimbAt(x, i - w) * 2^b) % B) + (LimbAt(x, i - w - 1) \div 2^(BITS - b))]

shr_u512(x, n) ==
    LET w == n \div BITS
        b == n % BITS
    IN  [i \in 1..4 |-> (LimbAt(x, i + w) \div 2^b) + ((LimbAt(x, i + w + 1) * 2^(BITS - b)) % B)]

sub_u512(x, y) ==
    LET sub(s, i) == LET d == sub_u128_borrow(x[i], y[i], s.borrow)
                     IN  [limbs |-> Append(s.limbs, d[1]), borrow |-> d[2]]
    IN  FoldLeft(sub, [limbs |-> <<>>, borrow |-> 0], <<1, 2, 3, 4>>).limbs

leading_zeros(x) ==
    IF x = Widened(ZERO) THEN 4 * BITS
    ELSE LET i == CHOOSE j \in 1..4 : x[j] # 0 /\ \A k \in (j + 1)..4 : x[k] = 0
         IN  (4 - i) * BITS + LimbZeros(x[i])

try_into_u256(x) == IF x[3] # 0 \/ x[4] # 0 THEN None ELSE <<x[1], x[2]>>

DivStepU512(s, i) ==
    LET fits == ~LessU512(s.rem, s.div)
    IN  [rem |-> IF fits THEN sub_u512(s.rem, s.div) ELSE s.rem,
         quo |-> IF fits THEN SetBit(s.quo, i) ELSE s.quo,
         div |-> shr_u512(s.div, 1)]

LongDivisionU512(num, den, shift) ==
    LET s == FoldLeft(DivStepU512, [rem |-> num, quo |-> Widened(ZERO), div |-> shl_u512(den, shift)],
                      Countdown(shift))
    IN  IF try_into_u256(s.quo) = None THEN None
        ELSE <<try_into_u256(s.quo), try_into_u256(s.rem)>>

checked_div_rem_by_u256(num, den) ==
    IF den = ZERO THEN Panic
    ELSE IF LessU512(num, Widened(den)) THEN <<ZERO, try_into_u256(num)>>
    ELSE LongDivisionU512(num, Widened(den), leading_zeros(Widened(den)) - leading_zeros(num))

\* mul_div_floor_u256_with_rem and mul_div_ceil_u256; both panic when the
\* quotient does not fit.
OrPanic(option) == IF option = None THEN Panic ELSE option

RoundUp(qr) == IF qr[2] = ZERO THEN qr[1] ELSE checked_add(qr[1], ONE)

mul_div_floor_u256_with_rem(x, y, d) == OrPanic(checked_div_rem_by_u256(mul_u256(x, y), d))

mul_div_ceil_u256(x, y, d) ==
    LET qr == checked_div_rem_by_u256(mul_u256(x, y), d)
    IN  IF qr = None THEN Panic ELSE OrPanic(RoundUp(qr))

-----------------------------------------------------------------------------
(* Signed: I256 *)

Negative(x) == Hi(x) >= B \div 2
I256MIN == <<0, B \div 2>>

\* !x + 1, the carry out of the high limb dropped
Negated(x) ==
    LET lo == AddLimb(B - 1 - Lo(x), 1)
    IN  <<lo[1], (B - 1 - Hi(x) + lo[2]) % B>>

\* abs_u256 panics on MIN, which no caller passes; floor_div_signed_conservative
\* takes |n| from the raw bits, so that there MIN is allowed.
abs_u256(x) == IF Negative(x) THEN Negated(x) ELSE x

checked_neg(x) == IF x = I256MIN THEN None ELSE Negated(x)

WrappedSum(x, y) ==
    LET lo == AddLimb(Lo(x), Lo(y))
    IN  <<lo[1], (Hi(x) + Hi(y) + lo[2]) % B>>

WrappedDifference(x, y) ==
    LET lo == SubLimb(Lo(x), Lo(y))
    IN  <<lo[1], (Hi(x) - Hi(y) - lo[2]) % B>>

checked_add_i256(x, y) ==
    LET sum == WrappedSum(x, y)
    IN  IF Negative(x) = Negative(y) /\ Negative(sum) # Negative(x) THEN None ELSE sum

checked_sub_i256(x, y) ==
    LET diff == WrappedDifference(x, y)
    IN  IF checked_neg(y) # None THEN checked_add_i256(x, checked_neg(y))
        ELSE IF ~Negative(x) /\ Negative(diff) THEN None ELSE diff

\* the limb of an i128, sign-extended
from_i128(v) == <<v, IF v >= B \div 2 THEN B - 1 ELSE 0>>

from_u256_or_overflow(x) == IF Negative(x) THEN None ELSE x

\* checked_mul_i256.  The magnitude a negative product is compared with is
\* 1 << 127 in the low limb.
NegativeProduct(p) ==
    LET min_mag == <<B \div 2, 0>>
    IN  IF p = None \/ Less(min_mag, p) THEN None
        ELSE IF p = min_mag THEN I256MIN
        ELSE checked_neg(from_u256_or_overflow(p))

checked_mul_i256(x, y) ==
    IF x = ZERO \/ y = ZERO THEN ZERO
    ELSE IF x = I256MIN THEN IF y = ONE THEN I256MIN ELSE None
    ELSE IF y = I256MIN THEN IF x = ONE THEN I256MIN ELSE None
    ELSE LET p == checked_mul(abs_u256(x), abs_u256(y))
         IN  IF Negative(x) # Negative(y) THEN NegativeProduct(p)
             ELSE IF p = None THEN None ELSE from_u256_or_overflow(p)

V_Floored(qr, negative) == IF negative THEN checked_neg(qr[1]) ELSE qr[1]  \* towards zero

Floored(qr, negative) == IF negative THEN checked_neg(RoundUp(qr)) ELSE qr[1]

floor_div_signed_conservative(n, d) ==
    OrPanic(Floored(div_rem_u256(abs_u256(n), d), Negative(n)))

-----------------------------------------------------------------------------
(* The settlement of percolator.rs in wide integers *)

CONSTANT FUNDING_DEN             \* units of F per unit of K

ASSUME FundingDenAssumption == FUNDING_DEN \in Limb \ {0}

Embed(a) == <<a, 0>>             \* U256::from_u128

\* try_into_u128 of the magnitude, then at most i128::MAX; the sign is put back
Narrowed(mag, negative) ==
    IF mag = None THEN None
    ELSE IF Hi(mag) # 0 \/ Lo(mag) > (B \div 2) - 1 THEN None
    ELSE IF negative THEN checked_neg(mag) ELSE mag

Settled(product, den, negative) ==
    LET qr == div_rem_u256(product, den)
    IN  Narrowed(IF negative THEN RoundUp(qr) ELSE qr[1], negative)

\* K_diff * FUNDING_DEN + F_diff; k and f are pairs <<then, now>> of limbs
Combined(k, f) ==
    LET k_diff == checked_sub_i256(from_i128(k[2]), from_i128(k[1]))
        f_diff == checked_sub_i256(from_i128(f[2]), from_i128(f[1]))
        prod == checked_mul(abs_u256(k_diff), Embed(FUNDING_DEN))
        pos == IF prod = None THEN None ELSE from_u256_or_overflow(prod)
    IN  IF pos = None THEN None
        ELSE checked_add_i256(IF Negative(k_diff) THEN checked_sub_i256(ZERO, pos) ELSE pos, f_diff)

compute_kf_pnl_delta(basis, k, f, den) ==
    LET combined == Combined(k, f)
        product == checked_mul(Embed(basis), abs_u256(combined))
    IN  IF basis = 0 THEN ZERO
        ELSE IF combined \in {None, I256MIN} THEN None
        ELSE IF product = None THEN None
        ELSE Settled(product, checked_mul(Embed(den), Embed(FUNDING_DEN)), Negative(combined))
=============================================================================
