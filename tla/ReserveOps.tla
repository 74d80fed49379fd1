----------------------------- MODULE ReserveOps -----------------------------
(***************************************************************************)
(* The warmup reserve of one account: the part of its positive PnL that is *)
(* not yet released.  Operators from an account record to an account       *)
(* record, one per helper of src/src/percolator.rs.                        *)
(*                                                                         *)
(* The reserve is held in two buckets.  The scheduled bucket releases its  *)
(* anchor linearly over its horizon; the pending bucket collects later     *)
(* gains and takes the place of the scheduled one when that is empty.      *)
(***************************************************************************)
EXTENDS Integers

CONSTANTS h_min, h_max     \* params.h_min, params.h_max

ASSUME HorizonAssumption ==
    /\ h_min \in Nat
    /\ h_max \in Nat \ {0}
    /\ h_min <= h_max

Lesser(x, y) == IF x <= y THEN x ELSE y
Greater(x, y) == IF x >= y THEN x ELSE y

\* i128_clamp_pos
Pos(x) == IF x > 0 THEN x ELSE 0

NoSched == [present |-> FALSE, remaining |-> 0, anchor |-> 0,
            start |-> 0, horizon |-> 0, release |-> 0]

NoPending == [present |-> FALSE, remaining |-> 0, horizon |-> 0, created |-> 0]

(***************************************************************************)
(* validate_admission_pair, and the horizon admit_fresh_reserve_h_lock     *)
(* chooses: the short one when the fresh gain still leaves every released  *)
(* claim fully backed by the residual, the long one otherwise, and then    *)
(* for the rest of the instruction.                                        *)
(***************************************************************************)
AdmissionPairOk(lo, hi) ==
    /\ hi # 0
    /\ h_min <= hi /\ hi <= h_max
    /\ lo <= hi
    /\ lo > 0 => lo >= h_min

V_AdmittedHorizon(sticky, fresh, matured, residual, lo, hi) ==  \* compares only the fresh gain
    IF ~sticky /\ fresh <= residual THEN lo ELSE hi

AdmittedHorizon(sticky, fresh, matured, residual, lo, hi) ==
    IF ~sticky /\ matured + fresh <= residual THEN lo ELSE hi

(***************************************************************************)
(* validate_reserve_shape                                                  *)
(***************************************************************************)
HorizonOk(h) == h > 0 /\ h >= h_min /\ h <= h_max

SchedShapeOk(b) ==
    IF b.present
    THEN /\ HorizonOk(b.horizon)
         /\ b.release <= b.anchor
         /\ b.remaining + b.release <= b.anchor
         /\ b.remaining # 0
    ELSE b = NoSched

PendingShapeOk(b) ==
    IF b.present THEN HorizonOk(b.horizon) /\ b.remaining # 0 ELSE b = NoPending

ShapeOk(a) ==
    /\ SchedShapeOk(a.sched)
    /\ PendingShapeOk(a.pending)
    /\ a.sched.remaining + a.pending.remaining = a.reserved_pnl
    /\ a.reserved_pnl <= Pos(a.pnl)

(***************************************************************************)
(* The pending bucket becomes the scheduled one, starting now.             *)
(***************************************************************************)
PromotePending(a, now) ==
    IF a.pending.present /\ ~a.sched.present
    THEN [a EXCEPT !.sched = [present |-> TRUE, remaining |-> a.pending.remaining,
                              anchor |-> a.pending.remaining, start |-> now,
                              horizon |-> a.pending.horizon, release |-> 0],
                   !.pending = NoPending]
    ELSE a

(***************************************************************************)
(* append_or_route_new_reserve                                             *)
(***************************************************************************)
MergesIntoSched(a, now, h) ==
    /\ a.sched.present /\ ~a.pending.present
    /\ a.sched.start = now /\ a.sched.horizon = h /\ a.sched.release = 0

V_Placed(p, add, now, h) ==  \* the pending bucket keeps its first horizon
    CASE ~p.sched.present ->
           [p EXCEPT !.sched = [present |-> TRUE, remaining |-> add, anchor |-> add,
                                start |-> now, horizon |-> h, release |-> 0]]
      [] MergesIntoSched(p, now, h) ->
           [p EXCEPT !.sched.remaining = @ + add]
      [] p.sched.present /\ ~MergesIntoSched(p, now, h) /\ ~p.pending.present ->
           [p EXCEPT !.pending = [present |-> TRUE, remaining |-> add,
                                  horizon |-> h, created |-> now]]
      [] OTHER ->
           [p EXCEPT !.pending.remaining = @ + add]

Placed(p, add, now, h) ==
    CASE ~p.sched.present ->
           [p EXCEPT !.sched = [present |-> TRUE, remaining |-> add, anchor |-> add,
                                start |-> now, horizon |-> h, release |-> 0]]
      [] MergesIntoSched(p, now, h) ->
           [p EXCEPT !.sched.remaining = @ + add, !.sched.anchor = @ + add]
      [] p.sched.present /\ ~MergesIntoSched(p, now, h) /\ ~p.pending.present ->
           [p EXCEPT !.pending = [present |-> TRUE, remaining |-> add,
                                  horizon |-> h, created |-> now]]
      [] OTHER ->
           [p EXCEPT !.pending.remaining = @ + add,
                     !.pending.horizon = Greater(@, h)]

AppendReserve(a, add, now, h) ==
    [Placed(PromotePending(a, now), add, now, h) EXCEPT !.reserved_pnl = @ + add]

(***************************************************************************)
(* apply_reserve_loss_newest_first: pending first, then scheduled.         *)
(***************************************************************************)
TakePending(b, x) ==
    IF b.remaining = x THEN NoPending ELSE [b EXCEPT !.remaining = @ - x]

V_TakeSched(b, x) ==  \* the anchor shrinks too, under what is already released
    IF b.remaining = x THEN NoSched ELSE [b EXCEPT !.remaining = @ - x, !.anchor = @ - x]

TakeSched(b, x) ==
    IF b.remaining = x THEN NoSched ELSE [b EXCEPT !.remaining = @ - x]

V_TakeReserve(a, loss) ==  \* the scheduled bucket bears the whole loss
    [a EXCEPT !.sched = TakeSched(@, loss), !.reserved_pnl = @ - loss]

TakeReserve(a, loss) ==
    LET take_pend == Lesser(loss, a.pending.remaining)
    IN  [a EXCEPT !.pending = TakePending(@, take_pend),
                  !.sched = TakeSched(@, loss - take_pend),
                  !.reserved_pnl = @ - loss]

(***************************************************************************)
(* All reserve metadata dropped: the commit phase of                       *)
(* admit_outstanding_reserve_on_touch, and                                 *)
(* prepare_account_for_resolved_touch.                                     *)
(***************************************************************************)
ClearReserve(a) ==
    [a EXCEPT !.sched = NoSched, !.pending = NoPending, !.reserved_pnl = 0]

(***************************************************************************)
(* advance_profit_warmup.  ScheduledTotal is what the schedule has         *)
(* released by now; AdvanceOk collects the checks that return              *)
(* CorruptState; WarmupRelease is what this call moves to matured.         *)
(***************************************************************************)
ScheduledTotal(b, now) ==
    IF now - b.start >= b.horizon THEN b.anchor
    ELSE (b.anchor * (now - b.start)) \div b.horizon

AdvanceOk(a, now) ==
    LET b == PromotePending(a, now).sched
    IN  a.reserved_pnl # 0 =>
            /\ b.present
            /\ now >= b.start
            /\ ScheduledTotal(b, now) >= b.release

WarmupRelease(b, now) == Lesser(b.remaining, ScheduledTotal(b, now) - b.release)

PromoteWhenEmpty(a, now) ==
    IF a.sched.remaining = 0 THEN PromotePending([a EXCEPT !.sched = NoSched], now) ELSE a

Advanced(p, now) ==
    PromoteWhenEmpty([p EXCEPT !.sched.remaining = @ - WarmupRelease(p.sched, now),
                               !.sched.release = ScheduledTotal(p.sched, now),
                               !.reserved_pnl = @ - WarmupRelease(p.sched, now)], now)

AdvanceWarmup(a, now) ==
    IF a.reserved_pnl = 0 THEN a ELSE Advanced(PromotePending(a, now), now)

(***************************************************************************)
(* The account's side of set_pnl_with_reserve: a gain is reserved for h    *)
(* slots (released at once when h = 0), a loss is taken from the reserve   *)
(* before it is taken from the released part.                              *)
(***************************************************************************)
Gain(a, new) == Pos(new) - Pos(a.pnl)
ReserveLoss(a, new) == Lesser(Pos(a.pnl) - Pos(new), a.reserved_pnl)

PnlSet(a, new, h, now) ==
    IF Gain(a, new) > 0
    THEN IF h = 0 THEN [a EXCEPT !.pnl = new]
                  ELSE AppendReserve([a EXCEPT !.pnl = new], Gain(a, new), now, h)
    ELSE IF ReserveLoss(a, new) > 0
         THEN [TakeReserve(a, ReserveLoss(a, new)) EXCEPT !.pnl = new]
         ELSE [a EXCEPT !.pnl = new]

V_MaturedAfter(a, new, h, matured) ==  \* the reserved part of a loss is counted as released
    IF Gain(a, new) > 0
    THEN IF h = 0 THEN matured + Gain(a, new) ELSE matured
    ELSE matured - (Pos(a.pnl) - Pos(new))

\* The matured total after the same call.
MaturedAfter(a, new, h, matured) ==
    IF Gain(a, new) > 0
    THEN IF h = 0 THEN matured + Gain(a, new) ELSE matured
    ELSE matured - ((Pos(a.pnl) - Pos(new)) - ReserveLoss(a, new))

\* released_pos
ReleasedPos(a) == Greater(Pos(a.pnl) - a.reserved_pnl, 0)
=============================================================================
