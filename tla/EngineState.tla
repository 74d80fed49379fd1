----------------------------- MODULE EngineState -----------------------------
(***************************************************************************)
(* The state of the risk engine (struct RiskEngine of                      *)
(* src/src/percolator.rs) as one record, and the setters and read-only     *)
(* queries every instruction is built from.                                *)
(*                                                                         *)
(* An engine function of the source takes &mut self and returns a Result.  *)
(* Here it is an operator from an engine record to an engine record whose  *)
(* field err says how the call ended: "none", "Reject" (an error a caller  *)
(* may provoke) or "Corrupt" (RiskError::CorruptState).  The first error   *)
(* stays, as with the `?' of the source: a record that has failed goes     *)
(* through the rest of a function unused, and its instruction discards it. *)
(* The field ctx is the InstructionContext.                                *)
(*                                                                         *)
(* Position quantities, prices and money are small integers: the scales    *)
(* POS_SCALE, ADL_ONE, FUNDING_DEN and BPS (10_000 in the source) are      *)
(* constants, so that every rounding of the source still rounds.           *)
(***************************************************************************)
EXTENDS ReserveOps, FiniteSets, SequencesExt

CONSTANTS
    Accounts,                    \* account indices
    POS_SCALE, ADL_ONE, MIN_A_SIDE, FUNDING_DEN, BPS,
    MAX_ORACLE_PRICE, MAX_VAULT_TVL, MAX_POSITION_ABS_Q, MAX_OI_SIDE_Q,
    MAX_ACCOUNT_POSITIVE_PNL, MAX_PNL_POS_TOT,
    I128_MAX,                    \* bound on the K and F indices
    maintenance_margin_bps, initial_margin_bps, trading_fee_bps,
    liquidation_fee_bps, liquidation_fee_cap, min_liquidation_abs,
    min_nonzero_mm_req, min_nonzero_im_req, min_initial_deposit,
    insurance_floor, max_accrual_dt_slots, max_active_positions_per_side,
    max_abs_funding, resolve_price_deviation_bps

\* validate_params; h_min and h_max are in HorizonAssumption.
ValidParams ==
    /\ 0 < max_active_positions_per_side
    /\ max_active_positions_per_side <= Cardinality(Accounts)
    /\ maintenance_margin_bps <= initial_margin_bps /\ initial_margin_bps <= BPS
    /\ trading_fee_bps <= BPS /\ liquidation_fee_bps <= BPS
    /\ 0 < min_nonzero_mm_req /\ min_nonzero_mm_req < min_nonzero_im_req
    /\ min_nonzero_im_req <= min_initial_deposit
    /\ min_initial_deposit <= MAX_VAULT_TVL
    /\ min_liquidation_abs <= liquidation_fee_cap
    /\ insurance_floor <= MAX_VAULT_TVL
    /\ resolve_price_deviation_bps <= BPS
    /\ 0 < max_accrual_dt_slots
    /\ ADL_ONE * MAX_ORACLE_PRICE * max_abs_funding * max_accrual_dt_slots <= I128_MAX

ASSUME EngineAssumption ==
    /\ Accounts \subseteq Nat /\ IsFiniteSet(Accounts)
    /\ {POS_SCALE, ADL_ONE, FUNDING_DEN, BPS} \subseteq Nat \ {0}
    /\ {maintenance_margin_bps, initial_margin_bps, trading_fee_bps,
        liquidation_fee_bps, min_liquidation_abs, liquidation_fee_cap,
        min_nonzero_mm_req, min_nonzero_im_req, min_initial_deposit,
        insurance_floor, max_abs_funding, resolve_price_deviation_bps,
        max_accrual_dt_slots, max_active_positions_per_side,
        MIN_A_SIDE, MAX_POSITION_ABS_Q, MAX_OI_SIDE_Q, MAX_VAULT_TVL,
        MAX_ACCOUNT_POSITIVE_PNL, MAX_PNL_POS_TOT, MAX_ORACLE_PRICE,
        I128_MAX} \subseteq Nat
    /\ ValidParams

Side == {"Long", "Short"}
Opposite(s) == IF s = "Long" THEN "Short" ELSE "Long"       \* opposite_side
Abs(x) == IF x < 0 THEN -x ELSE x
FloorDiv(x, d) == x \div d
CeilDiv(x, d) == -((-x) \div d)

\* The sum of a function over the accounts.
Sum(f) == SumFunctionOnSet(f, Accounts)

\* e taken through the accounts of S, the lowest index first.
InOrder(op(_, _), e, S) == MapThenFoldSet(op, e, LAMBDA i : i, Max, S)

\* side_of_i128; "None" for a flat position
SideOf(q) == CASE q > 0 -> "Long" [] q < 0 -> "Short" [] q = 0 -> "None"

-----------------------------------------------------------------------------
(* The records *)

\* empty_account
EmptyAccount ==
    [capital |-> 0, pnl |-> 0, reserved_pnl |-> 0, sched |-> NoSched, pending |-> NoPending,
     position_basis_q |-> 0, adl_a_basis |-> ADL_ONE, adl_k_snap |-> 0, f_snap |-> 0,
     adl_epoch_snap |-> 0, fee_credits |-> 0, last_fee_slot |-> 0]

EmptySide ==
    [mult |-> ADL_ONE, coeff |-> 0, f |-> 0, epoch |-> 0, epoch_start_k |-> 0,
     f_epoch_start |-> 0, oi |-> 0, mode |-> "Normal", stored |-> 0, stale |-> 0, dust |-> 0]

\* InstructionContext::new_with_admission
Context(lo, hi) ==
    [lo |-> lo, hi |-> hi, touched |-> {}, sticky |-> {}, pending_reset |-> {}]
NoContext == Context(0, 0)

\* init_in_place
NewMarket(slot, price) ==
    [vault |-> 0, insurance |-> 0, c_tot |-> 0, pnl_pos_tot |-> 0, pnl_matured_pos_tot |-> 0,
     neg_pnl_account_count |-> 0, current_slot |-> slot, last_market_slot |-> slot,
     last_oracle_price |-> price, market_mode |-> "Live",
     side |-> [s \in Side |-> EmptySide],
     acc |-> [i \in Accounts |-> EmptyAccount], used |-> {},
     resolved |-> [price |-> 0, slot |-> 0, k_delta |-> [s \in Side |-> 0],
                   ready |-> FALSE, h_num |-> 0, h_den |-> 0],
     ctx |-> NoContext, err |-> "none"]

-----------------------------------------------------------------------------
(* Results *)

Ok(e) == e.err = "none"
Fail(e, kind) == IF Ok(e) THEN [e EXCEPT !.err = kind] ELSE e
Reject(e) == Fail(e, "Reject")
Corrupt(e) == Fail(e, "Corrupt")
RejectUnless(e, cond) == IF Ok(e) /\ ~cond THEN Reject(e) ELSE e
CorruptUnless(e, cond) == IF Ok(e) /\ ~cond THEN Corrupt(e) ELSE e

-----------------------------------------------------------------------------
(* Read-only queries *)

FeeDebt(a) == Pos(-a.fee_credits)                 \* fee_debt_u128_checked

\* V - (C_tot + I), the money that backs junior claims
Residual(e) == Pos(e.vault - (e.c_tot + e.insurance))

\* effective_pos_q
EffectivePos(e, i) ==
    LET a == e.acc[i]
        s == SideOf(a.position_basis_q)
    IN  IF s = "None" \/ a.adl_a_basis = 0 THEN 0
        ELSE IF a.adl_epoch_snap # e.side[s].epoch THEN 0
        ELSE LET q == FloorDiv(Abs(a.position_basis_q) * e.side[s].mult, a.adl_a_basis)
             IN  IF s = "Long" THEN q ELSE -q

\* haircut_ratio, effective_matured_pnl
V_HaircutNum(e) ==  \* the insurance fund is not senior to profit
    IF e.pnl_matured_pos_tot = 0 THEN 1 ELSE Lesser(Pos(e.vault - e.c_tot), e.pnl_matured_pos_tot)

HaircutNum(e) == IF e.pnl_matured_pos_tot = 0 THEN 1 ELSE Lesser(Residual(e), e.pnl_matured_pos_tot)
HaircutDen(e) == IF e.pnl_matured_pos_tot = 0 THEN 1 ELSE e.pnl_matured_pos_tot
EffectiveMatured(e, i) == FloorDiv(ReleasedPos(e.acc[i]) * HaircutNum(e), HaircutDen(e))

NotionalOf(q, price) == FloorDiv(Abs(q) * price, POS_SCALE)
MarginOf(q, price, bps, least) ==
    IF q = 0 THEN 0 ELSE Greater(FloorDiv(NotionalOf(q, price) * bps, BPS), least)
MaintReq(q, price) == MarginOf(q, price, maintenance_margin_bps, min_nonzero_mm_req)
InitReq(q, price) == MarginOf(q, price, initial_margin_bps, min_nonzero_im_req)

EquityMaint(a) == a.capital + a.pnl - FeeDebt(a)  \* account_equity_maint_raw

\* account_equity_init_raw and account_equity_withdraw_raw
EquityInit(e, i) ==
    LET a == e.acc[i]
    IN  a.capital + Lesser(a.pnl, 0) + EffectiveMatured(e, i) - FeeDebt(a)

\* is_above_maintenance_margin
AboveMaintenance(e, i, price) ==
    Pos(EquityMaint(e.acc[i])) > MaintReq(EffectivePos(e, i), price)

\* account_equity_trade_open_raw: the trade's own gain does not count, other
\* positive PnL counts with the haircut over all positive claims.
EquityTradeOpen(e, i, gain) ==
    LET a == e.acc[i]
        pos == Greater(Pos(a.pnl) - Pos(gain), 0)
        tot == e.pnl_pos_tot - Pos(a.pnl) + pos
        eff == IF tot = 0 THEN pos ELSE FloorDiv(pos * Lesser(Residual(e), tot), tot)
    IN  a.capital + Lesser(a.pnl - Pos(gain), 0) + eff - FeeDebt(a)

\* is_above_initial_margin_trade_open
AboveInitialTradeOpen(e, i, price, gain) ==
    EquityTradeOpen(e, i, gain) >= InitReq(EffectivePos(e, i), price)

-----------------------------------------------------------------------------
(* Setters *)

\* set_capital
V_SetCapital(e, i, new) ==  \* the total is not adjusted
    [e EXCEPT !.acc[i].capital = new]

SetCapital(e, i, new) ==
    [e EXCEPT !.c_tot = @ + (new - e.acc[i].capital), !.acc[i].capital = new]

(***************************************************************************)
(* set_pnl_with_reserve.  gains says what a positive increase may do:      *)
(* "Admit" it under the context's horizon pair, release it at once after   *)
(* resolution ("Resolved", which is also set_pnl), or refuse it ("None").  *)
(***************************************************************************)
PnlGateOk(e, i, new, gains) ==
    LET gain == Gain(e.acc[i], new)
    IN  /\ gain > 0 => \/ gains = "Admit" /\ e.market_mode = "Live"
                       \/ gains = "Resolved" /\ e.market_mode # "Live"
        /\ e.market_mode = "Live" =>
               /\ Pos(new) <= MAX_ACCOUNT_POSITIVE_PNL
               /\ gain > 0 => e.pnl_pos_tot + gain <= MAX_PNL_POS_TOT

\* The horizon of a fresh gain: admit_fresh_reserve_h_lock, or none.
GainHorizon(e, i, new, gains) ==
    IF gains # "Admit" THEN 0
    ELSE AdmittedHorizon(i \in e.ctx.sticky, Gain(e.acc[i], new), e.pnl_matured_pos_tot,
                         Residual(e), e.ctx.lo, e.ctx.hi)

V_NegCountAfter(e, old, new) ==  \* a recovery from negative PnL is not counted
    IF old >= 0 /\ new < 0 THEN e.neg_pnl_account_count + 1 ELSE e.neg_pnl_account_count

NegCountAfter(e, old, new) ==
    CASE old < 0 /\ new >= 0 -> e.neg_pnl_account_count - 1
      [] old >= 0 /\ new < 0 -> e.neg_pnl_account_count + 1
      [] OTHER -> e.neg_pnl_account_count

PnlShapeOk(e, a, new, h) ==
    IF Gain(a, new) > 0
    THEN h # 0 => ShapeOk([a EXCEPT !.pnl = new])
    ELSE e.market_mode = "Live" /\ ReserveLoss(a, new) > 0 => ShapeOk(a)

PnlResultOk(e, b) ==
    /\ e.pnl_matured_pos_tot \in 0..e.pnl_pos_tot
    /\ e.neg_pnl_account_count >= 0
    /\ b.reserved_pnl <= Pos(b.pnl)
    /\ e.market_mode = "Live" /\ Pos(b.pnl) = 0 =>
           b.reserved_pnl = 0 /\ ~b.sched.present /\ ~b.pending.present

PnlChecked(e, i) == CorruptUnless(e, PnlResultOk(e, e.acc[i]))

\* The commit with the horizon h; a gain admitted for the long horizon makes
\* the account's later gains in this instruction wait as long.
PnlAtHorizon(e, i, new, gains, h) ==
    LET a == e.acc[i]
        sticks == gains = "Admit" /\ Gain(a, new) > 0 /\ h = e.ctx.hi
    IN  IF ~PnlShapeOk(e, a, new, h) THEN Corrupt(e)
        ELSE PnlChecked([e EXCEPT
                !.acc[i] = PnlSet(a, new, h, e.current_slot),
                !.pnl_pos_tot = @ + Gain(a, new),
                !.pnl_matured_pos_tot = MaturedAfter(a, new, h, @),
                !.neg_pnl_account_count = NegCountAfter(e, a.pnl, new),
                !.ctx.sticky = IF sticks THEN @ \union {i} ELSE @], i)

SetPnl(e, i, new, gains) ==
    LET a == e.acc[i]
    IN  IF ~Ok(e) THEN e
        ELSE IF a.reserved_pnl > Pos(a.pnl) THEN Corrupt(e)
        ELSE IF e.market_mode # "Live" /\ a.reserved_pnl # 0 THEN Corrupt(e)
        ELSE IF ~PnlGateOk(e, i, new, gains) THEN Reject(e)
        ELSE PnlAtHorizon(e, i, new, gains, GainHorizon(e, i, new, gains))

\* consume_released_pnl
ConsumeReleased(e, i, x) ==
    CorruptUnless([e EXCEPT !.acc[i].pnl = @ - x, !.pnl_pos_tot = @ - x,
                            !.pnl_matured_pos_tot = @ - x],
        /\ x # 0
        /\ x <= Pos(e.acc[i].pnl) - e.acc[i].reserved_pnl
        /\ x <= e.pnl_matured_pos_tot /\ e.pnl_matured_pos_tot <= e.pnl_pos_tot)

\* set_position_basis_q
SetBasis(e, i, new) ==
    LET old == SideOf(e.acc[i].position_basis_q)
        now == SideOf(new)
        stored(s) == e.side[s].stored - (IF s = old THEN 1 ELSE 0) + (IF s = now THEN 1 ELSE 0)
        done == [e EXCEPT !.acc[i].position_basis_q = new,
                          !.side = [s \in Side |-> [e.side[s] EXCEPT !.stored = stored(s)]]]
    IN  CorruptUnless(done, old # "None" => e.side[old].stored > 0)

\* The canonical zero-position defaults.
Flatten(e, i) ==
    [SetBasis(e, i, 0) EXCEPT !.acc[i].adl_a_basis = ADL_ONE, !.acc[i].adl_k_snap = 0,
                              !.acc[i].f_snap = 0, !.acc[i].adl_epoch_snap = 0]

\* attach_effective_position: replacing a basis of this epoch orphans its
\* fractional part, which the dust bound must cover.
OrphanedDust(e, i) ==
    LET a == e.acc[i]
        s == SideOf(a.position_basis_q)
    IN  {t \in Side : /\ t = s /\ a.adl_epoch_snap = e.side[t].epoch /\ a.adl_a_basis # 0
                      /\ (Abs(a.position_basis_q) * e.side[t].mult) % a.adl_a_basis # 0}

AddDust(e, sides, n) ==
    [e EXCEPT !.side = [s \in Side |-> IF s \in sides THEN [e.side[s] EXCEPT !.dust = @ + n]
                                       ELSE e.side[s]]]

Snapped(e, i, o) ==
    [e EXCEPT !.acc[i].adl_a_basis = o.mult, !.acc[i].adl_k_snap = o.coeff,
              !.acc[i].f_snap = o.f, !.acc[i].adl_epoch_snap = o.epoch]

AttachPosition(e, i, q) ==
    LET d == AddDust(e, OrphanedDust(e, i), 1)
    IN  IF q = 0 THEN Flatten(d, i)
        ELSE Snapped(SetBasis(RejectUnless(d, Abs(q) <= MAX_POSITION_ABS_Q), i, q),
                     i, e.side[SideOf(q)])

-----------------------------------------------------------------------------
(* Money between an account and the insurance fund *)

\* settle_losses: negative PnL is paid from the account's own capital.
SettleLosses(e, i) ==
    LET a == e.acc[i]
        pay == Lesser(Pos(-a.pnl), a.capital)
    IN  IF pay = 0 THEN e
        ELSE SetPnl(SetCapital(e, i, a.capital - pay), i, a.pnl + pay, "Resolved")

\* use_insurance_buffer: what is left of the loss, and the fund after it.
InsurancePays(e, loss) == Lesser(loss, Greater(e.insurance - insurance_floor, 0))
UseInsurance(e, loss) == [e EXCEPT !.insurance = @ - InsurancePays(e, loss)]

\* resolve_flat_negative, with absorb_protocol_loss: the fund pays, the rest
\* is left to the haircut of the junior claims.
ResolveFlatNegative(e, i) ==
    IF EffectivePos(e, i) = 0 /\ e.acc[i].pnl < 0
    THEN SetPnl(UseInsurance(e, -e.acc[i].pnl), i, 0, "Resolved")
    ELSE e

\* fee_debt_sweep
FeeDebtSweep(e, i) ==
    LET a == e.acc[i]
        pay == Lesser(FeeDebt(a), a.capital)
    IN  [SetCapital(e, i, a.capital - pay) EXCEPT
            !.acc[i].fee_credits = @ + pay, !.insurance = @ + pay]

\* charge_fee_to_insurance: from capital, the shortfall as fee debt up to
\* the width of fee_credits; the rest of it is dropped.
FeePaid(a, fee) == Lesser(fee, a.capital)
FeeImpact(a, fee) ==
    FeePaid(a, fee) + Lesser(fee - FeePaid(a, fee), Greater(a.fee_credits + I128_MAX, 0))

ChargeFee(e, i, fee) ==
    LET a == e.acc[i]
        paid == FeePaid(a, fee)
    IN  [SetCapital(e, i, a.capital - paid) EXCEPT
            !.insurance = @ + paid,
            !.acc[i].fee_credits = @ - (FeeImpact(a, fee) - paid)]

\* assert_public_postconditions
PostconditionsHold(e) ==
    /\ e.vault >= e.c_tot + e.insurance
    /\ e.side["Long"].oi = e.side["Short"].oi

AssertPostconditions(e) == CorruptUnless(e, PostconditionsHold(e))
=============================================================================
