----------------------------- MODULE EngineSides -----------------------------
(***************************************************************************)
(* The two sides of the market: lazy mark and funding indices (K, F), the  *)
(* auto-deleveraging of a side (A, K) when the other side is liquidated,   *)
(* and the epochs in which a drained side is reset                         *)
(* (src/src/percolator.rs).                                                *)
(***************************************************************************)
EXTENDS EngineState

FitsI128(x) == Abs(x) <= I128_MAX

(***************************************************************************)
(* accrue_market_to                                                        *)
(***************************************************************************)
BothLive(e) == \A s \in Side : e.side[s].oi # 0

Sign(s) == IF s = "Long" THEN 1 ELSE -1

\* The mark step: a side without open interest does not move.
MarkedK(e, s, price) ==
    IF e.side[s].oi = 0 THEN e.side[s].coeff
    ELSE e.side[s].coeff + Sign(s) * e.side[s].mult * (price - e.last_oracle_price)

\* The funding step at the price of the interval's start; both or neither.
FundedF(e, s, dt, rate) ==
    IF ~BothLive(e) THEN e.side[s].f
    ELSE e.side[s].f - Sign(s) * e.side[s].mult * (e.last_oracle_price * rate * dt)

AccrueGateOk(e, now, price, rate) ==
    /\ e.market_mode = "Live"
    /\ price \in 1..MAX_ORACLE_PRICE
    /\ Abs(rate) <= max_abs_funding
    /\ now >= e.current_slot /\ now >= e.last_market_slot
    /\ rate # 0 /\ BothLive(e) => now - e.last_market_slot <= max_accrual_dt_slots

AccrueMarket(e, now, price, rate) ==
    LET dt == now - e.last_market_slot
        k(s) == MarkedK(e, s, price)
        f(s) == FundedF(e, s, dt, rate)
    IN  IF ~AccrueGateOk(e, now, price, rate) THEN Reject(e)
        ELSE IF dt = 0 /\ price = e.last_oracle_price THEN [e EXCEPT !.current_slot = now]
        ELSE IF \E s \in Side : ~FitsI128(k(s)) \/ ~FitsI128(f(s)) THEN Reject(e)
        ELSE [e EXCEPT !.side = [s \in Side |-> [@[s] EXCEPT !.coeff = k(s), !.f = f(s)]],
                       !.current_slot = now, !.last_market_slot = now,
                       !.last_oracle_price = price]

\* check_live_accrual_envelope and the monotonicity checks of the endpoints
\* that set current_slot without accruing.
V_ClockAdvanceOk(e, now) ==  \* no envelope
    now >= e.current_slot /\ now >= e.last_market_slot

ClockAdvanceOk(e, now) ==
    /\ now >= e.current_slot /\ now >= e.last_market_slot
    /\ now <= e.last_market_slot + max_accrual_dt_slots

(***************************************************************************)
(* enqueue_adl: the closed quantity leaves both sides, the uninsured       *)
(* deficit d is spread over the opposite side through K, and the opposite  *)
(* side's positions shrink through A.                                      *)
(***************************************************************************)
MarkPendingReset(e, sides) == [e EXCEPT !.ctx.pending_reset = @ \union sides]

\* The opposite side is drained; the liquidated side too when it is empty.
Drained(e, opp) ==
    LET liq == Opposite(opp)
    IN  MarkPendingReset([e EXCEPT !.side[opp].oi = 0],
                         IF e.side[liq].oi = 0 THEN Side ELSE {opp})

\* K of the opposite side after the deficit, unless K has no room for it
\* and for one more mark to the highest price (then the loss stays
\* uninsured).
SocializedK(e, opp, d) ==
    LET o == e.side[opp]
        delta == CeilDiv(d * o.mult * POS_SCALE, o.oi)
        new == o.coeff - delta
    IN  IF d = 0 \/ ~FitsI128(delta) \/ Abs(new) + o.mult * MAX_ORACLE_PRICE > I128_MAX
        THEN o.coeff ELSE new

\* What the shrinking of A can leave on the side as phantom quantity.
V_AdlDust(o) == 0  \* shrinking leaves no dust

AdlDust(o) == o.stored + CeilDiv(o.oi + o.stored, o.mult)

Shrunk(e, opp, oi_post) ==
    LET o == e.side[opp]
        a_new == FloorDiv(o.mult * oi_post, o.oi)
    IN  IF a_new > 0
        THEN [e EXCEPT !.side[opp] =
                [o EXCEPT !.mult = a_new, !.oi = oi_post,
                          !.dust = IF oi_post < o.oi THEN o.dust + AdlDust(o) ELSE o.dust,
                          !.mode = IF a_new < MIN_A_SIDE THEN "DrainOnly" ELSE o.mode]]
        ELSE MarkPendingReset([e EXCEPT !.side = [s \in Side |-> [@[s] EXCEPT !.oi = 0]]], Side)

\* The opposite side gives up q and bears d.
Deleveraged(e, opp, q, d) ==
    LET o == e.side[opp]
        k == [e EXCEPT !.side[opp].coeff = SocializedK(e, opp, d)]
    IN  IF o.oi = 0
        THEN MarkPendingReset(e, IF e.side[Opposite(opp)].oi = 0 THEN Side ELSE {})
        ELSE IF q > o.oi THEN Corrupt(e)
        ELSE IF o.stored = 0
             THEN IF o.oi = q THEN Drained(e, opp) ELSE [e EXCEPT !.side[opp].oi = @ - q]
        ELSE IF o.oi = q THEN Drained(k, opp)
        ELSE Shrunk(k, opp, o.oi - q)

EnqueueAdl(e, liq, q, d) ==
    IF ~Ok(e) THEN e
    ELSE IF q > e.side[liq].oi THEN Corrupt(e)
    ELSE Deleveraged([UseInsurance(e, d) EXCEPT !.side[liq].oi = @ - q],
                     Opposite(liq), q, d - InsurancePays(e, d))

(***************************************************************************)
(* Resets.  A drained side starts a new epoch: its positions become stale  *)
(* and settle against the indices the epoch ended with.                    *)
(***************************************************************************)
NewEpoch(o) ==
    [o EXCEPT !.epoch_start_k = o.coeff, !.f_epoch_start = o.f, !.coeff = 0, !.f = 0,
              !.epoch = @ + 1, !.mult = ADL_ONE, !.stale = o.stored, !.dust = 0,
              !.mode = "ResetPending"]

\* begin_full_drain_reset
BeginReset(e, s) ==
    IF e.side[s].oi # 0 THEN Corrupt(e) ELSE [e EXCEPT !.side[s] = NewEpoch(@)]

\* maybe_finalize_ready_reset_sides
V_ReadyToReopen(o) == o.mode = "ResetPending" /\ o.oi = 0  \* stale accounts are ignored

ReadyToReopen(o) ==
    o.mode = "ResetPending" /\ o.oi = 0 /\ o.stale = 0 /\ o.stored = 0

ReopenReadySides(e) ==
    [e EXCEPT !.side = [s \in Side |-> IF ReadyToReopen(@[s])
                                       THEN [@[s] EXCEPT !.mode = "Normal"] ELSE @[s]]]

\* schedule_end_of_instruction_resets
EmptySides(e) == {s \in Side : e.side[s].stored = 0}

\* The quantity left on the sides without positions is covered by the dust
\* bounds of those sides.
DustClearable(e, empty) ==
    LET bound == IF empty = Side THEN e.side["Long"].dust + e.side["Short"].dust
                 ELSE e.side[CHOOSE s \in empty : TRUE].dust
    IN  \A s \in Side : e.side[s].oi <= bound

ClearDust(e) ==
    LET empty == EmptySides(e)
        leftover == \/ \E s \in Side : e.side[s].oi # 0
                    \/ \E s \in empty : e.side[s].dust # 0
    IN  IF empty = {} \/ ~leftover THEN e
        ELSE IF e.side["Long"].oi = e.side["Short"].oi /\ DustClearable(e, empty)
        THEN MarkPendingReset([e EXCEPT !.side = [s \in Side |-> [@[s] EXCEPT !.oi = 0]]], Side)
        ELSE Corrupt(e)

ResetDrained(e) ==
    MarkPendingReset(e, {s \in Side : e.side[s].mode = "DrainOnly" /\ e.side[s].oi = 0})

ScheduleResets(e) == ResetDrained(ClearDust(e))

\* finalize_end_of_instruction_resets
FinalizeResets(e) ==
    LET begin(f, s) == IF s \in f.ctx.pending_reset /\ f.side[s].mode # "ResetPending"
                       THEN BeginReset(f, s) ELSE f
    IN  ReopenReadySides(begin(begin(e, "Long"), "Short"))

EndOfInstruction(e) == IF Ok(e) THEN FinalizeResets(ScheduleResets(e)) ELSE e
=============================================================================
