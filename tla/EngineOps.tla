------------------------------ MODULE EngineOps ------------------------------
(***************************************************************************)
(* The public instructions of the risk engine (src/src/percolator.rs), as  *)
(* operators on the engine record.                                         *)
(***************************************************************************)
EXTENDS EngineTouch

\* The common start of a live instruction: the admission pair, a fresh
\* context, the accrual.
Begin(e, now, price, rate, pair) ==
    IF e.market_mode # "Live" \/ ~AdmissionPairOk(pair[1], pair[2]) THEN Reject(e)
    ELSE AccrueMarket([e EXCEPT !.ctx = Context(pair[1], pair[2])], now, price, rate)

BeginTouch(e, i, now, price, rate, pair) ==
    Touch(Begin(e, now, price, rate, pair), i)

\* End-of-instruction resets and the public postconditions.
Finish(e) == AssertPostconditions(EndOfInstruction(e))

\* deposit_not_atomic, with the part of materialize_at that concerns the
\* account (the slot allocator is module Slab)
Materialized(e, i, now) ==
    [e EXCEPT !.used = @ \union {i}, !.acc[i] = [EmptyAccount EXCEPT !.last_fee_slot = now]]

Paid(e, i, amount) ==
    SetCapital([e EXCEPT !.vault = @ + amount], i, e.acc[i].capital + amount)

SweepWhenFlat(e, i) ==
    IF e.acc[i].position_basis_q = 0 /\ e.acc[i].pnl >= 0 THEN FeeDebtSweep(e, i) ELSE e

DepositOp(e, i, amount, now) ==
    LET open == IF i \in e.used THEN e ELSE Materialized(e, i, now)
        paid == Paid([open EXCEPT !.current_slot = now], i, amount)
    IN  IF \/ e.market_mode # "Live" \/ ~ClockAdvanceOk(e, now)
           \/ e.vault + amount > MAX_VAULT_TVL
           \/ i \notin e.used /\ amount < min_initial_deposit
        THEN Reject(e)
        ELSE AssertPostconditions(SweepWhenFlat(SettleLosses(paid, i), i))

\* withdraw_not_atomic
WithdrawOk(e, i, amount, price) ==
    LET rest == e.acc[i].capital - amount
        q == EffectivePos(e, i)
    IN  /\ rest >= 0
        /\ rest # 0 => rest >= min_initial_deposit
        /\ q # 0 => EquityInit(e, i) - amount >= InitReq(q, price)

Withdrawn(e, i, amount, price) ==
    CorruptUnless(Paid(RejectUnless(e, WithdrawOk(e, i, amount, price)), i, -amount),
                  amount <= e.vault)

WithdrawOp(e, i, amount, now, price, rate, pair) ==
    LET fin == FinalizeTouched(BeginTouch(e, i, now, price, rate, pair))
    IN  Finish(Withdrawn(fin, i, amount, price))

\* settle_account_not_atomic
SettleOp(e, i, now, price, rate, pair) ==
    Finish(FinalizeTouched(BeginTouch(e, i, now, price, rate, pair)))

\* execute_trade_not_atomic.  Dust-only sides are reset before the open
\* interest of the trade is computed, in a context of their own.
FlushResets(e) ==
    [EndOfInstruction([e EXCEPT !.ctx.pending_reset = {}]) EXCEPT !.ctx.pending_reset = {}]

TradeOp(e, a, b, now, price, size, exec, rate, pair) ==
    LET touched == Touch(BeginTouch(e, a, now, price, rate, pair), b)
        legs == TradeLegs(FlushResets(touched), a, b, price, size, exec)
        allowed == /\ a # b /\ {a, b} \subseteq e.used
                   /\ size \in 1..MAX_POSITION_ABS_Q
    IN  IF allowed THEN Finish(FinalizeTouched(legs)) ELSE Reject(e)

\* liquidate_at_oracle_not_atomic; a healthy account is only touched.
LiquidateOp(e, i, now, price, policy, rate, pair) ==
    LET touched == BeginTouch(e, i, now, price, rate, pair)
    IN  Finish(FinalizeTouched(LiquidateTouched(touched, i, price, policy)))

\* keeper_crank_not_atomic: the candidates in order, until one of them has
\* scheduled a reset.  A candidate is [idx, hint]; the hint "None" touches.
\* (max_revalidations only cuts the list of candidates short.)
CandidateType == [idx : Accounts, hint : [kind : STRING, q : Nat]]

ActOnHint(e, c, price) ==
    IF Ok(e) /\ Liquidatable(e, c.idx, price) /\ HintAccepted(e, c.idx, price, c.hint)
    THEN LiquidateTouched(e, c.idx, price, c.hint) ELSE e

CrankOne(e, c, price) ==
    IF ~Ok(e) \/ e.ctx.pending_reset # {} \/ c.idx \notin e.used THEN e
    ELSE ActOnHint(Touch(e, c.idx), c, price)

CrankOp(e, candidates, now, price, rate, pair) ==
    LET one(f, c) == CrankOne(f, c, price)
    IN  Finish(FinalizeTouched(FoldLeft(one, Begin(e, now, price, rate, pair), candidates)))

\* convert_released_pnl_not_atomic, with max_safe_flat_conversion_released
MaxSafeConversion(e, i, x) ==
    LET eq == EquityMaint(e.acc[i])
    IN  IF eq <= 0 THEN 0
        ELSE IF HaircutNum(e) = HaircutDen(e) THEN x
        ELSE Lesser(x, FloorDiv(eq * HaircutDen(e), HaircutDen(e) - HaircutNum(e)))

V_Converted(e, i, x) ==  \* pays the claim in full whatever backs it
    FeeDebtSweep(SetCapital(ConsumeReleased(e, i, x), i, e.acc[i].capital + x), i)

Converted(e, i, x) ==
    LET y == FloorDiv(x * HaircutNum(e), HaircutDen(e))
    IN  FeeDebtSweep(SetCapital(ConsumeReleased(e, i, x), i, e.acc[i].capital + y), i)

ConvertOk(e, i, x) ==
    /\ x \in 1..ReleasedPos(e.acc[i])
    /\ e.acc[i].position_basis_q = 0 => x <= MaxSafeConversion(e, i, x)

ConvertTouched(e, i, x) ==
    IF ~Ok(e) THEN e ELSE IF ConvertOk(e, i, x) THEN Converted(e, i, x) ELSE Reject(e)

StillSound(e, i, price) ==
    RejectUnless(e, IF EffectivePos(e, i) # 0 THEN AboveMaintenance(e, i, price)
                    ELSE EquityMaint(e.acc[i]) >= 0)

ConvertOp(e, i, x, now, price, rate, pair) ==
    LET touched == BeginTouch(e, i, now, price, rate, pair)
    IN  Finish(FinalizeTouched(StillSound(ConvertTouched(touched, i, x), i, price)))

\* free_slot, and the sweep of an empty market's surplus
Freed(e, i) ==
    LET a == e.acc[i]
    IN  CorruptUnless([e EXCEPT !.used = @ \ {i}, !.acc[i] = EmptyAccount],
            /\ a.pnl = 0 /\ a.reserved_pnl = 0 /\ a.position_basis_q = 0
            /\ ~a.sched.present /\ ~a.pending.present
            /\ a.capital = 0 /\ a.fee_credits = 0)

V_SweepSurplus(e) == e  \* nothing is swept

SweepSurplus(e) ==
    IF /\ e.used = {} /\ e.c_tot = 0 /\ e.pnl_pos_tot = 0 /\ e.pnl_matured_pos_tot = 0
       /\ \A s \in Side : e.side[s].oi = 0
    THEN CorruptUnless([e EXCEPT !.insurance = e.vault], e.vault >= e.insurance)
    ELSE e

FreeAndSweep(e, i) == AssertPostconditions(SweepSurplus(Freed(e, i)))

\* close_account_not_atomic
CloseOk(e, i) ==
    LET a == e.acc[i]
    IN  /\ EffectivePos(e, i) = 0 /\ a.pnl = 0 /\ a.fee_credits >= 0
        /\ a.reserved_pnl = 0 /\ ~a.sched.present /\ ~a.pending.present
        /\ a.capital <= e.vault

CapitalReturned(e, i) == Paid(e, i, -e.acc[i].capital)

CloseTouched(e, i) == CapitalReturned(RejectUnless(e, CloseOk(e, i)), i)

CloseOp(e, i, now, price, rate, pair) ==
    LET fin == FinalizeTouched(BeginTouch(e, i, now, price, rate, pair))
    IN  FreeAndSweep(EndOfInstruction(CloseTouched(fin, i)), i)

\* The endpoints that move the clock without accruing: reclaim_empty_account,
\* top_up_insurance_fund, charge_account_fee, settle_flat_negative_pnl,
\* deposit_fee_credits
Untouched(a) ==
    /\ a.position_basis_q = 0 /\ a.reserved_pnl = 0
    /\ ~a.sched.present /\ ~a.pending.present

ClockOnly(e, now) ==
    IF e.market_mode = "Live" /\ ClockAdvanceOk(e, now)
    THEN [e EXCEPT !.current_slot = now] ELSE Reject(e)

\* Dust capital goes to the insurance fund, fee debt is forgiven.
DustSwept(e, i) ==
    [SetCapital(e, i, 0) EXCEPT !.insurance = @ + e.acc[i].capital, !.acc[i].fee_credits = 0]

ReclaimOp(e, i, now) ==
    LET a == e.acc[i]
        ok == RejectUnless(ClockOnly(e, now),
                  i \in e.used /\ Untouched(a) /\ a.pnl = 0 /\ a.capital < min_initial_deposit)
        debt == CorruptUnless(ok, a.fee_credits <= 0)
    IN  FreeAndSweep(DustSwept(debt, i), i)

TopUpOp(e, amount, now) ==
    LET ok == RejectUnless(ClockOnly(e, now), e.vault + amount <= MAX_VAULT_TVL)
    IN  [ok EXCEPT !.vault = @ + amount, !.insurance = @ + amount]

ChargeFeeOp(e, i, fee, now) ==
    LET ok == RejectUnless(ClockOnly(e, now), i \in e.used)
    IN  AssertPostconditions(ChargeFee(ok, i, fee))

\* A call for an account without a loss returns before it sets the clock.
SettleFlatNegativeOp(e, i, now) ==
    LET ok == RejectUnless(ClockOnly(e, now), i \in e.used /\ Untouched(e.acc[i]))
    IN  IF Ok(ok) /\ e.acc[i].pnl >= 0 THEN e
        ELSE AssertPostconditions(ResolveFlatNegative(SettleLosses(ok, i), i))

DepositFeeCreditsOp(e, i, amount, now) ==
    LET ok == RejectUnless(ClockOnly(e, now), /\ i \in e.used /\ amount <= FeeDebt(e.acc[i])
                                              /\ e.vault + amount <= MAX_VAULT_TVL)
    IN  [ok EXCEPT !.vault = @ + amount, !.insurance = @ + amount,
                   !.acc[i].fee_credits = @ + amount]

\* sync_account_fee_to_slot_not_atomic, live or resolved
SyncFeeOp(e, i, now, fee_rate) ==
    LET anchor == IF e.market_mode = "Live" THEN now ELSE e.resolved.slot
        ok == IF e.market_mode = "Live" THEN ClockOnly(e, now)
              ELSE RejectUnless(e, now >= e.current_slot)
        dt == anchor - e.acc[i].last_fee_slot
        fee == ChargeFee(RejectUnless(ok, i \in e.used /\ dt >= 0), i, fee_rate * dt)
    IN  AssertPostconditions([fee EXCEPT !.acc[i].last_fee_slot = anchor])

(***************************************************************************)
(* Resolution.                                                             *)
(***************************************************************************)
\* The price band of an ordinary resolution.
InBand(price, last) == Abs(price - last) * BPS <= resolve_price_deviation_bps * last

TerminalDelta(e, s, diff) ==
    IF e.side[s].mode = "ResetPending" THEN 0 ELSE Sign(s) * e.side[s].mult * diff

ReopenResolved(e, s) ==
    IF ReadyToReopen(e.side[s]) THEN [e EXCEPT !.side[s].mode = "Normal"] ELSE e

\* Every profit is released, the open interest is dropped, and both sides
\* begin the reset in which their positions are settled.
Resolved(e, price, slot, diff) ==
    [e EXCEPT !.market_mode = "Resolved",
              !.resolved = [price |-> price, slot |-> slot,
                            k_delta |-> [s \in Side |-> TerminalDelta(e, s, diff)],
                            ready |-> FALSE, h_num |-> 0, h_den |-> 0],
              !.pnl_matured_pos_tot = e.pnl_pos_tot,
              !.side = [s \in Side |-> [@[s] EXCEPT !.oi = 0]]]

BeginResetOnce(e, s) == IF e.side[s].mode = "ResetPending" THEN e ELSE BeginReset(e, s)

PriceInBand(e, mode, price) ==
    RejectUnless(e, mode = "Ordinary" => InBand(price, e.last_oracle_price))

\* resolve_market_not_atomic
ResolveOp(e, mode, resolved_price, live_price, now, rate) ==
    LET start == IF mode = "Degenerate"
                 THEN RejectUnless([e EXCEPT !.current_slot = now, !.last_market_slot = now],
                          /\ now >= e.current_slot /\ now >= e.last_market_slot
                          /\ live_price = e.last_oracle_price /\ rate = 0)
                 ELSE AccrueMarket(e, now, live_price, rate)
        closed == Resolved(PriceInBand(start, mode, resolved_price), resolved_price, now,
                           resolved_price - live_price)
        reset == BeginResetOnce(BeginResetOnce(closed, "Long"), "Short")
    IN  IF e.market_mode # "Live" THEN Reject(e)
        ELSE AssertPostconditions(ReopenResolved(ReopenResolved(reset, "Long"), "Short"))

\* reconcile_resolved_not_atomic
AllMatured(e) == [e EXCEPT !.pnl_matured_pos_tot = e.pnl_pos_tot]

PnlMatured(e, i, delta) ==
    IF delta = 0 THEN e ELSE AllMatured(SetPnl(e, i, e.acc[i].pnl + delta, "Resolved"))

ReconcilePosition(e, i, s) ==
    LET a == e.acc[i]
        o == e.side[s]
        delta == KfPnlDelta(a, o.epoch_start_k + e.resolved.k_delta[s], o.f_epoch_start)
    IN  IF \/ a.adl_a_basis = 0 \/ a.adl_epoch_snap + 1 # o.epoch \/ o.stale = 0
        THEN Corrupt(e)
        ELSE Flatten([PnlMatured(e, i, delta) EXCEPT !.side[s].stale = @ - 1], i)

ReconcileSettled(e, i) ==
    IF e.acc[i].position_basis_q = 0 THEN e
    ELSE ReconcilePosition(e, i, SideOf(e.acc[i].position_basis_q))

Reconciled(e, i) ==
    LET start == [e EXCEPT !.current_slot = e.resolved.slot, !.acc[i] = ClearReserve(@)]
        losses == SettleLosses(ReconcileSettled(start, i), i)
    IN  IF e.market_mode # "Resolved" \/ i \notin e.used THEN Reject(e)
        ELSE AssertPostconditions(ResolveFlatNegative(losses, i))

\* is_terminal_ready
V_TerminalReady(e) == e.resolved.ready \/ e.neg_pnl_account_count = 0  \* open positions are not waited for

TerminalReady(e) ==
    \/ e.resolved.ready
    \/ /\ \A s \in Side : e.side[s].stored = 0 /\ e.side[s].stale = 0
       /\ e.neg_pnl_account_count = 0

\* close_resolved_terminal_not_atomic.  The first profitable close fixes the
\* payout ratio for all.
PayoutSnapshot(e) ==
    IF e.resolved.ready THEN e
    ELSE [e EXCEPT !.pnl_matured_pos_tot = e.pnl_pos_tot,
                   !.resolved.ready = TRUE, !.resolved.h_den = e.pnl_pos_tot,
                   !.resolved.h_num = Lesser(Residual(e), e.pnl_pos_tot)]

PaidOut(e, i) ==
    LET x == e.acc[i].pnl
        y == FloorDiv(x * e.resolved.h_num, e.resolved.h_den)
    IN  IF e.resolved.h_den = 0 THEN Corrupt(e)
        ELSE SetCapital(SetPnl(e, i, 0, "None"), i, e.acc[i].capital + y)

TerminalCloseOk(e, i) ==
    /\ e.market_mode = "Resolved" /\ i \in e.used
    /\ e.acc[i].position_basis_q = 0 /\ e.acc[i].pnl >= 0
    /\ e.acc[i].pnl > 0 => TerminalReady(e)

ProfitPaid(e, i) == IF e.acc[i].pnl > 0 THEN PaidOut(PayoutSnapshot(e), i) ELSE e

DebtForgiven(e, i) == [FeeDebtSweep(e, i) EXCEPT !.acc[i].fee_credits = 0]

CloseOut(e, i) == CapitalReturned(RejectUnless(e, e.acc[i].capital <= e.vault), i)

CloseTerminal(e, i) ==
    IF ~TerminalCloseOk(e, i) THEN Reject(e)
    ELSE FreeAndSweep(
            CloseOut(DebtForgiven(ProfitPaid([e EXCEPT !.acc[i] = ClearReserve(@)], i), i), i), i)

CloseWhenReady(e, i) ==
    IF Ok(e) /\ (e.acc[i].pnl > 0 => TerminalReady(e)) THEN CloseTerminal(e, i) ELSE e

\* force_close_resolved_not_atomic: progress, or closed.
ForceCloseOp(e, i) == CloseWhenReady(ReopenReadySides(Reconciled(e, i)), i)

\* A new market after its first instructions: a deposit for every account
\* that has one, a top-up of the insurance fund, and trades at the first
\* price, each <<buyer, seller, size>>.
IsOpening(o) ==
    /\ o.cap \in [Accounts -> Nat] /\ o.ins \in Nat /\ o.price \in Nat
    /\ o.trades \in Seq(Accounts \X Accounts \X Int)

Opened(o) ==
    LET deposit(i, e) == IF o.cap[i] = 0 THEN e ELSE DepositOp(e, i, o.cap[i], 0)
        trade(e, t) == TradeOp(e, t[1], t[2], 0, o.price, t[3], o.price, 0, <<h_max, h_max>>)
        funded == InOrder(deposit, NewMarket(0, o.price), Accounts)
    IN  [FoldLeft(trade, TopUpOp(funded, o.ins, 0), o.trades) EXCEPT !.ctx = NoContext]
=============================================================================
