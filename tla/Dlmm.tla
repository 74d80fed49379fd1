-------------------------------- MODULE Dlmm --------------------------------
(***************************************************************************)
(* The Meteora DLMM reader of the oracle (read_meteora_dlmm): the price of *)
(* bin 0 is compounded by (1 + bin_step / BPS) once per bin, upwards or    *)
(* downwards, rounding down each time, for at most MAX_STEPS bins.         *)
(***************************************************************************)
EXTENDS Integers, SequencesExt

CONSTANTS
    BPS,         \* 10_000
    MAX_STEPS,   \* 10_000, the cap on |active_bin_id|
    U64_MAX,
    U128_MAX

ASSUME DlmmAssumption ==
    /\ BPS \in Nat \ {0} /\ MAX_STEPS \in Nat
    /\ U64_MAX \in Nat \ {0} /\ U128_MAX \in Nat /\ U64_MAX * BPS <= U128_MAX

\* An error of a reader; its callers treat the price 0 alike.
ReadError == -1

\* The cap and the loop's length.
Turns(bin_id) ==
    LET bins == IF bin_id < 0 THEN -bin_id ELSE bin_id
    IN  IF bins < MAX_STEPS THEN bins ELSE MAX_STEPS

\* The ratio of neighbouring bins.
Num(bin_step, bin_id) == IF bin_id >= 0 THEN BPS + bin_step ELSE BPS
Den(bin_step, bin_id) == IF bin_id >= 0 THEN BPS ELSE BPS + bin_step

V_Compound(price, num, den) == (price * num + den - 1) \div den  \* rounded up

\* One turn: the product must fit u128.  0 and an error end the loop.
Compound(price, num, den) ==
    IF price = ReadError \/ price * num > U128_MAX THEN ReadError
    ELSE (price * num) \div den

read_meteora_dlmm(base_price, bin_step, bin_id) ==
    LET turn(price, k) == Compound(price, Num(bin_step, bin_id), Den(bin_step, bin_id))
        price == FoldLeft(turn, base_price, [k \in 1..Turns(bin_id) |-> k])
    IN  IF base_price = 0 \/ bin_step = 0 \/ bin_step > BPS \/ price > U64_MAX THEN ReadError
        ELSE price
=============================================================================
