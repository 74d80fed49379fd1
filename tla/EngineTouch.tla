----------------------------- MODULE EngineTouch -----------------------------
(***************************************************************************)
(* The steps an instruction is made of once the market has accrued: the    *)
(* live touch of an account, liquidation, the two legs of a trade, and     *)
(* the finalisation of the touched accounts (src/src/percolator.rs).       *)
(***************************************************************************)
EXTENDS EngineSides

-----------------------------------------------------------------------------
(* touch_account_live_local *)

\* compute_kf_pnl_delta: one floor over the combined mark and funding.
V_KfPnlDelta(a, k, f) ==  \* truncates towards zero
    LET num == Abs(a.position_basis_q) * ((k - a.adl_k_snap) * FUNDING_DEN + (f - a.f_snap))
        den == a.adl_a_basis * POS_SCALE * FUNDING_DEN
    IN  IF num >= 0 THEN FloorDiv(num, den) ELSE -FloorDiv(-num, den)

KfPnlDelta(a, k, f) ==
    FloorDiv(Abs(a.position_basis_q) * ((k - a.adl_k_snap) * FUNDING_DEN + (f - a.f_snap)),
             a.adl_a_basis * POS_SCALE * FUNDING_DEN)

\* admit_outstanding_reserve_on_touch
AdmitOutstanding(e, i) ==
    LET r == e.acc[i].reserved_pnl
        matured == e.pnl_matured_pos_tot + r
    IN  IF e.vault < e.c_tot + e.insurance THEN Corrupt(e)
        ELSE IF r = 0 \/ matured > Residual(e) THEN e
        ELSE CorruptUnless([e EXCEPT !.pnl_matured_pos_tot = matured,
                                     !.acc[i] = ClearReserve(@)],
                           matured <= e.pnl_pos_tot)

\* advance_profit_warmup
WarmedUp(e, i, b) ==
    LET matured == e.pnl_matured_pos_tot + (e.acc[i].reserved_pnl - b.reserved_pnl)
    IN  CorruptUnless([e EXCEPT !.acc[i] = b, !.pnl_matured_pos_tot = matured],
            /\ matured <= e.pnl_pos_tot
            /\ b.reserved_pnl = 0 => ~b.sched.present /\ ~b.pending.present)

AdvanceProfitWarmup(e, i) ==
    IF ~Ok(e) THEN e
    ELSE IF ~AdvanceOk(e.acc[i], e.current_slot) THEN Corrupt(e)
    ELSE WarmedUp(e, i, AdvanceWarmup(e.acc[i], e.current_slot))

\* settle_side_effects_live, a position of the current epoch: a position
\* that A has shrunk to nothing is closed and leaves one unit of dust.
SettleSameEpoch(e, i, s) ==
    LET a == e.acc[i]
        o == e.side[s]
        q_eff == FloorDiv(Abs(a.position_basis_q) * o.mult, a.adl_a_basis)
        f == SetPnl(e, i, a.pnl + KfPnlDelta(a, o.coeff, o.f), "Admit")
    IN  IF q_eff = 0 THEN Flatten(AddDust(f, {s}, 1), i)
        ELSE [f EXCEPT !.acc[i].adl_k_snap = o.coeff, !.acc[i].f_snap = o.f,
                       !.acc[i].adl_epoch_snap = o.epoch]

\* ... and one of the epoch before, while the side waits for its reset.
V_SettleStaleEpoch(e, i, s) ==  \* the account stays counted as stale
    LET a == e.acc[i]
        o == e.side[s]
    IN  IF \/ o.mode # "ResetPending" \/ a.adl_epoch_snap + 1 # o.epoch \/ o.stale = 0
        THEN Corrupt(e)
        ELSE Flatten(SetPnl(e, i, a.pnl + KfPnlDelta(a, o.epoch_start_k, o.f_epoch_start),
                            "Admit"), i)

SettleStaleEpoch(e, i, s) ==
    LET a == e.acc[i]
        o == e.side[s]
        f == SetPnl(e, i, a.pnl + KfPnlDelta(a, o.epoch_start_k, o.f_epoch_start), "Admit")
    IN  IF \/ o.mode # "ResetPending" \/ a.adl_epoch_snap + 1 # o.epoch \/ o.stale = 0
        THEN Corrupt(e)
        ELSE Flatten([f EXCEPT !.side[s].stale = @ - 1], i)

SettleSideEffects(e, i) ==
    LET s == SideOf(e.acc[i].position_basis_q)
    IN  IF ~Ok(e) \/ s = "None" THEN e
        ELSE IF e.acc[i].adl_a_basis = 0 THEN Corrupt(e)
        ELSE IF e.acc[i].adl_epoch_snap = e.side[s].epoch THEN SettleSameEpoch(e, i, s)
        ELSE SettleStaleEpoch(e, i, s)

Touch(e, i) ==
    LET start == [e EXCEPT !.ctx.touched = @ \union {i}]
        shape == CorruptUnless(start, ShapeOk(e.acc[i]))
        warm == AdvanceProfitWarmup(AdmitOutstanding(shape, i), i)
        losses == SettleLosses(SettleSideEffects(warm, i), i)
    IN  IF ~Ok(e) THEN e
        ELSE IF e.market_mode # "Live" \/ i \notin e.used THEN Reject(e)
        ELSE ResolveFlatNegative(losses, i)

-----------------------------------------------------------------------------
(* finalize_touched_accounts_post_live: one snapshot decides for all       *)
(* touched accounts whether released profit of flat accounts becomes       *)
(* capital, one for one.                                                   *)

IsWhole(e) == e.pnl_matured_pos_tot > 0 /\ Residual(e) >= e.pnl_matured_pos_tot

FinalizeOne(e, i, whole) ==
    LET a == e.acc[i]
        x == ReleasedPos(a)
        f == IF whole /\ a.position_basis_q = 0 /\ a.pnl > 0 /\ x > 0
             THEN SetCapital(ConsumeReleased(e, i, x), i, a.capital + x)
             ELSE e
    IN  FeeDebtSweep(f, i)

FinalizeTouched(e) ==
    LET whole == IsWhole(e)
        one(i, f) == FinalizeOne(f, i, whole)
    IN  IF Ok(e) THEN InOrder(one, e, e.ctx.touched) ELSE e

-----------------------------------------------------------------------------
(* liquidate_at_oracle_internal.  A policy is [kind, q]: the whole         *)
(* position, or exactly q of it.                                           *)

FullClose == [kind |-> "FullClose", q |-> 0]
ExactPartial(q) == [kind |-> "ExactPartial", q |-> q]

LiquidationFee(q, price) ==
    Lesser(Greater(CeilDiv(NotionalOf(q, price) * liquidation_fee_bps, BPS), min_liquidation_abs),
           liquidation_fee_cap)

Liquidatable(e, i, price) == EffectivePos(e, i) # 0 /\ ~AboveMaintenance(e, i, price)

\* The position eff closed down to new, its losses and the fee paid.
CloseDown(e, i, price, eff, new) ==
    ChargeFee(SettleLosses(AttachPosition(e, i, new), i), i,
              LiquidationFee(Abs(eff) - Abs(new), price))

HealthRestored(e, i, price) == RejectUnless(e, AboveMaintenance(e, i, price))

LiquidatePartial(e, i, price, q, eff) ==
    LET new == Sign(SideOf(eff)) * (Abs(eff) - q)
    IN  IF q = 0 \/ q >= Abs(eff) THEN Reject(e)
        ELSE HealthRestored(EnqueueAdl(CloseDown(e, i, price, eff, new), SideOf(eff), q, 0),
                            i, price)

\* The loss that is left after a full close is the deficit of the other side.
DeficitSpread(e, i, s, q) ==
    LET d == Pos(-e.acc[i].pnl)
        adl == EnqueueAdl(e, s, q, d)
    IN  IF d = 0 THEN adl ELSE SetPnl(adl, i, 0, "None")

V_LiquidateFull(e, i, price, eff) ==  \* closes the stored basis, not what deleveraging left of it
    DeficitSpread(CloseDown(e, i, price, eff, 0), i, SideOf(eff), Abs(e.acc[i].position_basis_q))

LiquidateFull(e, i, price, eff) ==
    DeficitSpread(CloseDown(e, i, price, eff, 0), i, SideOf(eff), Abs(eff))

LiquidateTouched(e, i, price, policy) ==
    IF ~Ok(e) \/ ~Liquidatable(e, i, price) THEN e
    ELSE IF policy.kind = "FullClose" THEN LiquidateFull(e, i, price, EffectivePos(e, i))
    ELSE LiquidatePartial(e, i, price, policy.q, EffectivePos(e, i))

\* validate_keeper_hint: whether the crank acts on the hint.  A partial
\* close is taken only when it is predicted to restore health.
V_HintAccepted(e, i, price, hint) ==  \* forgets the fee of the liquidation
    LET left == Abs(EffectivePos(e, i)) - hint.q
    IN  \/ hint.kind = "FullClose"
        \/ /\ hint.kind = "ExactPartial"
           /\ hint.q > 0 /\ left > 0
           /\ EquityMaint(e.acc[i]) > MaintReq(left, price)

HintAccepted(e, i, price, hint) ==
    LET a == e.acc[i]
        eff == EffectivePos(e, i)
        left == Abs(eff) - hint.q
    IN  \/ hint.kind = "FullClose"
        \/ /\ hint.kind = "ExactPartial"
           /\ hint.q > 0 /\ hint.q < Abs(eff)
           /\ EquityMaint(a) - FeeImpact(a, LiquidationFee(hint.q, price)) > MaintReq(left, price)

-----------------------------------------------------------------------------
(* The core of execute_trade_not_atomic, between the touches and the       *)
(* finalisation.  Account a buys size from account b.                      *)

OiComponent(s, q) == Pos(Sign(s) * q)      \* oi_long_component, oi_short_component

\* bilateral_oi_after
OiBefore(s, olds) == OiComponent(s, olds[1]) + OiComponent(s, olds[2])
OiAfter(e, s, olds, news) ==
    (e.side[s].oi - OiBefore(s, olds)) + OiComponent(s, news[1]) + OiComponent(s, news[2])

CountOn(s, qs) == Cardinality({j \in 1..2 : SideOf(qs[j]) = s})

SideAllows(e, s, olds, news) ==
    e.side[s].mode \in {"DrainOnly", "ResetPending"} =>
        OiAfter(e, s, olds, news) <= e.side[s].oi

TradeGates(e, olds, news) ==
    LET stored(s) == e.side[s].stored + CountOn(s, news) - CountOn(s, olds)
        bounds == RejectUnless(e, \A j \in 1..2 : Abs(news[j]) <= MAX_POSITION_ABS_Q)
        oi == CorruptUnless(bounds, \A s \in Side : OiBefore(s, olds) <= e.side[s].oi)
        gate == RejectUnless(oi, \A s \in Side : /\ OiAfter(e, s, olds, news) <= MAX_OI_SIDE_Q
                                                 /\ SideAllows(e, s, olds, news))
        count == CorruptUnless(gate, \A s \in Side : stored(s) >= 0)
    IN  RejectUnless(count, \A s \in Side : stored(s) <= max_active_positions_per_side)

\* compute_trade_pnl: what the buyer gains by the execution price; the
\* seller loses exactly that.
TradePnl(size, price, exec) == FloorDiv(size * (price - exec), POS_SCALE)

TradingFee(size, exec) == CeilDiv(NotionalOf(size, exec) * trading_fee_bps, BPS)

(***************************************************************************)
(* enforce_one_side_margin.  pre is the equity before the trade, fee what  *)
(* the trade's fee took from it.                                           *)
(***************************************************************************)
RiskIncreasing(old, new) == Abs(new) > Abs(old) \/ old * new < 0 \/ old = 0

StrictlyReducing(old, new) == old * new > 0 /\ Abs(new) < Abs(old)

MarginOk(e, i, price, old, new, pre, fee, gain) ==
    LET post == EquityMaint(e.acc[i]) + fee
        no_worse == Lesser(post, 0) >= Lesser(pre, 0)
    IN  IF new = 0 THEN no_worse
        ELSE IF RiskIncreasing(old, new) THEN AboveInitialTradeOpen(e, i, price, gain)
        ELSE \/ AboveMaintenance(e, i, price)
             \/ /\ StrictlyReducing(old, new)
                /\ post - MaintReq(new, price) > pre - MaintReq(old, price)
                /\ no_worse

\* The terms of a trade, for its two parties: the positions before and
\* after it, what each gains by the execution price, the equity before.
TradeTerms(e, a, b, price, size, exec) ==
    [who |-> <<a, b>>, price |-> price, fee |-> TradingFee(size, exec),
     olds |-> <<EffectivePos(e, a), EffectivePos(e, b)>>,
     news |-> <<EffectivePos(e, a) + size, EffectivePos(e, b) - size>>,
     gains |-> <<TradePnl(size, price, exec), -TradePnl(size, price, exec)>>,
     pre |-> <<EquityMaint(e.acc[a]), EquityMaint(e.acc[b])>>]

TradePnlSet(e, t) ==
    LET pnl(j) == e.acc[t.who[j]].pnl + t.gains[j]
    IN  SetPnl(SetPnl(e, t.who[1], pnl(1), "Admit"), t.who[2], pnl(2), "Admit")

TradeAttached(e, t) ==
    [AttachPosition(AttachPosition(e, t.who[1], t.news[1]), t.who[2], t.news[2]) EXCEPT
        !.side = [s \in Side |-> [@[s] EXCEPT !.oi = OiAfter(e, s, t.olds, t.news)]]]

TradeMarginsOk(e, t, impacts) ==
    /\ \A j \in 1..2 : t.news[j] = 0 => e.acc[t.who[j]].pnl >= 0
    /\ \A j \in 1..2 : MarginOk(e, t.who[j], t.price, t.olds[j], t.news[j], t.pre[j],
                                impacts[j], t.gains[j])

TradeChecked(e, t, impacts) == RejectUnless(e, TradeMarginsOk(e, t, impacts))

\* Losses before fees, then the margin of both parties.
TradeFees(e, t) ==
    TradeChecked(ChargeFee(ChargeFee(e, t.who[1], t.fee), t.who[2], t.fee), t,
                 [j \in 1..2 |-> FeeImpact(e.acc[t.who[j]], t.fee)])

TradeBooked(e, t) ==
    IF Ok(e)
    THEN TradeFees(SettleLosses(SettleLosses(TradeAttached(e, t), t.who[1]), t.who[2]), t)
    ELSE e

TradeLegsOn(e, t) == TradeBooked(TradePnlSet(TradeGates(e, t.olds, t.news), t), t)

\* maybe_finalize_ready_reset_sides runs before the gates.
TradeLegs(e, a, b, price, size, exec) ==
    IF Ok(e) THEN TradeLegsOn(ReopenReadySides(e), TradeTerms(e, a, b, price, size, exec)) ELSE e
=============================================================================
