------------------------------ MODULE Arithmetic ------------------------------
(***************************************************************************)
(* The functions of modules WideMath and Dlmm, called on two operands and, *)
(* where they take one, a divisor; and what each of them has to return,    *)
(* said with the integers the limbs stand for.                             *)
(***************************************************************************)
EXTENDS WideMath, Dlmm

CONSTANT Limbs                   \* the limbs the operands are made of

ASSUME LimbsAssumption == Limbs \subseteq Limb

VARIABLES x, y,                  \* the operands
          call                   \* the last call: [op, d, res]

vars == <<x, y, call>>

Operands == Limbs \X Limbs

\* The signed number a limb stands for
I(limb) == IF limb >= B \div 2 THEN limb - B ELSE limb

Init ==
    /\ x \in Operands /\ y \in Operands
    /\ call = [op |-> "none", d |-> ZERO, res |-> None]

Call(op, d, res) ==
    /\ call.op = "none"
    /\ call' = [op |-> op, d |-> d, res |-> res]
    /\ UNCHANGED <<x, y>>

Unsigned ==
    \/ Call("add", ZERO, checked_add(x, y))
    \/ Call("sub", ZERO, checked_sub(x, y))
    \/ Call("mul", ZERO, checked_mul(x, y))
    \/ y # ZERO /\ Call("div_rem", ZERO, div_rem_u256(x, y))

Signed ==
    \/ Call("add_i256", ZERO, checked_add_i256(x, y))
    \/ Call("sub_i256", ZERO, checked_sub_i256(x, y))
    \/ Call("mul_i256", ZERO, checked_mul_i256(x, y))
    \/ y # ZERO /\ Call("floor_div", ZERO, floor_div_signed_conservative(x, y))

MulDiv ==
    \E d \in Operands \ {ZERO} :
        \/ Call("mul_div_floor", d, mul_div_floor_u256_with_rem(x, y, d))
        \/ Call("mul_div_ceil", d, mul_div_ceil_u256(x, y, d))

\* x holds the basis and K when the account was last settled, y K and F now,
\* d the denominator and F when it was last settled.
Settle ==
    \E d \in Operands :
        /\ d[1] # 0
        /\ Call("kf_pnl_delta", d,
                compute_kf_pnl_delta(x[1], <<x[2], y[1]>>, <<d[2], y[2]>>, d[1]))

\* x holds the price of bin 0 and the step, y the number of the active bin.
ReadDlmm ==
    y[2] = 0 /\ Call("dlmm", ZERO, <<read_meteora_dlmm(x[1], x[2], I(y[1]))>>)

Next == Unsigned \/ Signed \/ MulDiv \/ Settle \/ ReadDlmm

Spec == Init /\ [][Next]_vars

-----------------------------------------------------------------------------
(* Properties *)

W == B * B                       \* 2^256
U(v) == v[1] + B * v[2]
S(v) == IF Negative(v) THEN U(v) - W ELSE U(v)

\* What an Option must be: the value where it is in range, else None.
ExactU(res, v) == IF v \in 0..(W - 1) THEN Len(res) = 2 /\ U(res) = v ELSE res = None
ExactS(res, v) ==
    IF v \in -(W \div 2)..(W \div 2 - 1) THEN Len(res) = 2 /\ S(res) = v ELSE res = None

Is(op) == call.op = op

\* mul_div rounded down with its remainder, and rounded up
MulDivExact ==
    LET p == U(x) * U(y)
        d == U(call.d)
        q == p \div d
    IN  /\ Is("mul_div_floor") =>
              IF q >= W THEN call.res = Panic
              ELSE call.res # Panic /\ U(call.res[1]) = q /\ U(call.res[2]) = p % d
        /\ Is("mul_div_ceil") =>
              IF -((-p) \div d) >= W THEN call.res = Panic
              ELSE call.res # Panic /\ U(call.res) = -((-p) \div d)

\* Unsigned arithmetic is exact at every carry.  The checked operations of
\* U256 fail exactly when the result has more than 256 bits; div_rem_u256
\* satisfies n = q*d + r, r < d, on every path (native, long division); a*b/d
\* through the 512-bit intermediate loses no bit, rounded down or up, and
\* panics exactly when the quotient has more than 256 bits.
UnsignedExact ==
    /\ Is("add") => ExactU(call.res, U(x) + U(y))
    /\ Is("sub") => ExactU(call.res, U(x) - U(y))
    /\ Is("mul") => ExactU(call.res, U(x) * U(y))
    /\ Is("div_rem") => /\ U(call.res[1]) * U(y) + U(call.res[2]) = U(x)
                        /\ U(call.res[2]) < U(y)
    /\ MulDivExact

\* The settlement of an account whose basis is x[1]
SettlementExact ==
    Is("kf_pnl_delta") =>
        LET num == x[1] * ((I(y[1]) - I(x[2])) * FUNDING_DEN + I(y[2]) - I(call.d[2]))
            v == num \div (call.d[1] * FUNDING_DEN)
        IN  IF call.res = None
            THEN num \notin (1 - W)..(W - 1) \/ v \notin (1 - (B \div 2))..((B \div 2) - 1)
            ELSE S(call.res) = v

\* Signed arithmetic is exact at both ends of the range and always rounds
\* against the account.  Sums and differences of I256 are right for MIN as an
\* operand too; the signed division rounds towards minus infinity for every
\* numerator, and only a quotient of exactly MIN makes it panic; mark and
\* funding are settled with one floor over both, for opposite signs of K and
\* F, and an error of it means that the result is outside i128 or the numerator
\* outside 256 bits, never that an intermediate was narrowed.
SignedExact ==
    /\ Is("add_i256") => ExactS(call.res, S(x) + S(y))
    /\ Is("sub_i256") => ExactS(call.res, S(x) - S(y))
    /\ Is("floor_div") =>
           IF S(x) \div U(y) = -(W \div 2) THEN call.res = Panic
           ELSE call.res # Panic /\ S(call.res) = S(x) \div U(y)
    /\ SettlementExact

\* The DLMM reader never reports more than the price of the bin it reached,
\* loses at most one unit per bin to rounding (upwards: one unit compounded),
\* and on a valid pool fails only when that price does not fit u64, never
\* because an intermediate product did not.
DlmmExact ==
    LET n == Turns(I(y[1]))
        up == I(y[1]) >= 0
        den == Den(x[2], I(y[1]))^n
        num == Num(x[2], I(y[1]))^n
        price == call.res[1]
        lost == x[1] * num - price * den
    IN  Is("dlmm") /\ x[1] > 0 /\ x[2] \in 1..BPS =>
            IF price = ReadError THEN x[1] * num > U64_MAX * den
            ELSE /\ price \in 0..U64_MAX
                 /\ lost >= 0
                 /\ lost <= n * (IF up THEN num ELSE den)

\* What checked_mul_i256 says of itself: "Returns None on overflow (result
\* doesn't fit I256)", "Result must be <= 2^255 (magnitude of MIN)".
SignedMulExact == Is("mul_i256") => ExactS(call.res, S(x) * S(y))
=============================================================================
