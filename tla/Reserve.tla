------------------------------- MODULE Reserve ------------------------------
(***************************************************************************)
(* One account's PnL and warmup reserve in a market whose other accounts   *)
(* come and go: set_pnl_with_reserve, consume_released_pnl and the         *)
(* reserve helpers of src/src/percolator.rs, called in any order, with the *)
(* market-wide totals they maintain.                                       *)
(*                                                                         *)
(* The PnL a caller computes (mark, funding, trades) is an arbitrary value *)
(* of PnlValues.  What the other accounts contribute to the two totals is  *)
(* kept in `rest'; together with the residual V - (C_tot + I) it changes   *)
(* arbitrarily, since other accounts and the vault do.                     *)
(***************************************************************************)
EXTENDS ReserveOps

CONSTANTS
    PnlValues,                  \* values a caller may set
    MAX_ACCOUNT_POSITIVE_PNL,
    MAX_PNL_POS_TOT,
    MaxSlot,                    \* bound on the clock
    MaxAnchor,                  \* bound on the anchor, which same-slot gains
                                \* and losses can raise without end
    MaxRest,                    \* bound on rest
    ResidualValues              \* values V - (C_tot + I) may take

ASSUME ReserveAssumption ==
    /\ PnlValues \subseteq Int
    /\ MAX_ACCOUNT_POSITIVE_PNL \in Nat
    /\ MAX_PNL_POS_TOT \in Nat
    /\ MaxSlot \in Nat
    /\ MaxAnchor \in Nat
    /\ MaxRest \in Nat
    /\ ResidualValues \subseteq Nat

VARIABLES
    a,                     \* the account
    pnl_pos_tot,           \* sum of positive PnL over all accounts
    pnl_matured_pos_tot,   \* the released part of it
    rest,                  \* the other accounts' share of the two totals
    residual,              \* vault - (c_tot + insurance)
    current_slot,
    sticky,                \* ctx.h_max_sticky_accounts holds this account
    market_mode,
    corrupt                \* some call returned CorruptState

totals == <<pnl_pos_tot, pnl_matured_pos_tot>>
env == <<rest, residual>>
vars == <<a, totals, env, current_slot, sticky, market_mode, corrupt>>

Init ==
    /\ a = [pnl |-> 0, reserved_pnl |-> 0, sched |-> NoSched, pending |-> NoPending]
    /\ pnl_pos_tot = 0
    /\ pnl_matured_pos_tot = 0
    /\ rest = [pos |-> 0, matured |-> 0]
    /\ residual = 0
    /\ current_slot = 0
    /\ sticky = FALSE
    /\ market_mode = "Live"
    /\ corrupt = FALSE

Live == market_mode = "Live"

\* A call that would return CorruptState leaves the state to the rollback.
Failed ==
    /\ corrupt' = TRUE
    /\ UNCHANGED <<a, totals, env, current_slot, sticky, market_mode>>

(***************************************************************************)
(* set_pnl_with_reserve in Live mode under an admission pair: the entry    *)
(* check, the caps (plain errors), admission, the helper it calls, and the *)
(* invariant pair checked at the end.                                      *)
(***************************************************************************)
WithinCaps(new) ==
    /\ Pos(new) <= MAX_ACCOUNT_POSITIVE_PNL
    /\ Gain(a, new) > 0 => pnl_pos_tot + Gain(a, new) <= MAX_PNL_POS_TOT

\* The account the helpers validate: PnL is assigned before a gain is
\* appended, after a loss is taken.
HelperShapeOk(new, h) ==
    /\ Gain(a, new) > 0 /\ h # 0 => ShapeOk([a EXCEPT !.pnl = new])
    /\ Gain(a, new) <= 0 /\ ReserveLoss(a, new) > 0 => ShapeOk(a)

SetPnlOk(new, h, b, matured, pos) ==
    /\ a.reserved_pnl <= Pos(a.pnl)
    /\ HelperShapeOk(new, h)
    /\ matured >= 0
    /\ Gain(a, new) <= 0 /\ Pos(new) = 0 =>
            b.reserved_pnl = 0 /\ ~b.sched.present /\ ~b.pending.present
    /\ matured <= pos
    /\ b.reserved_pnl <= Pos(new)

SetPnl(new, lo, hi) ==
    LET h == AdmittedHorizon(sticky, Gain(a, new), pnl_matured_pos_tot, residual, lo, hi)
        b == PnlSet(a, new, h, current_slot)
        matured == MaturedAfter(a, new, h, pnl_matured_pos_tot)
        pos == pnl_pos_tot + Gain(a, new)
    IN  /\ Live
        /\ AdmissionPairOk(lo, hi)
        /\ WithinCaps(new)
        /\ b.sched.anchor <= MaxAnchor
        /\ IF SetPnlOk(new, h, b, matured, pos)
           THEN /\ a' = b
                /\ pnl_matured_pos_tot' = matured
                /\ pnl_pos_tot' = pos
                /\ sticky' = (sticky \/ (Gain(a, new) > 0 /\ h = hi))
                /\ UNCHANGED <<env, current_slot, market_mode, corrupt>>
           ELSE Failed

(***************************************************************************)
(* admit_outstanding_reserve_on_touch: the whole reserve is released when  *)
(* the residual backs every released claim including it.                   *)
(***************************************************************************)
AdmitOutstanding ==
    /\ Live
    /\ ShapeOk(a) => /\ a.reserved_pnl # 0
                     /\ pnl_matured_pos_tot + a.reserved_pnl <= residual
    /\ IF ShapeOk(a) /\ pnl_matured_pos_tot + a.reserved_pnl <= pnl_pos_tot
       THEN /\ pnl_matured_pos_tot' = pnl_matured_pos_tot + a.reserved_pnl
            /\ a' = ClearReserve(a)
            /\ UNCHANGED <<pnl_pos_tot, env, current_slot, sticky, market_mode, corrupt>>
       ELSE Failed

(***************************************************************************)
(* advance_profit_warmup                                                   *)
(***************************************************************************)
Advance ==
    LET b == AdvanceWarmup(a, current_slot)
        matured == pnl_matured_pos_tot + (a.reserved_pnl - b.reserved_pnl)
    IN  /\ Live
        /\ IF /\ ShapeOk(a)
              /\ AdvanceOk(a, current_slot)
              /\ b.reserved_pnl = 0 => ~b.sched.present /\ ~b.pending.present
              /\ matured <= pnl_pos_tot
           THEN /\ a' = b
                /\ pnl_matured_pos_tot' = matured
                /\ UNCHANGED <<pnl_pos_tot, env, current_slot, sticky, market_mode, corrupt>>
           ELSE Failed

(***************************************************************************)
(* consume_released_pnl; its callers pass some of the released PnL.        *)
(***************************************************************************)
ConsumeReleased(x) ==
    /\ IF /\ a.reserved_pnl <= Pos(a.pnl)
          /\ x <= Pos(a.pnl) - a.reserved_pnl
          /\ x <= pnl_pos_tot
          /\ x <= pnl_matured_pos_tot
          /\ pnl_matured_pos_tot - x <= pnl_pos_tot - x
       THEN /\ a' = [a EXCEPT !.pnl = @ - x]
            /\ pnl_pos_tot' = pnl_pos_tot - x
            /\ pnl_matured_pos_tot' = pnl_matured_pos_tot - x
            /\ UNCHANGED <<env, current_slot, sticky, market_mode, corrupt>>
       ELSE Failed

(***************************************************************************)
(* Resolution: resolve_market makes every positive claim matured; from     *)
(* then on an account is touched by prepare_account_for_resolved_touch and *)
(* set_pnl with immediate release, as reconcile_resolved does.             *)
(***************************************************************************)
ResolveMarket ==
    /\ Live
    /\ market_mode' = "Resolved"
    /\ pnl_matured_pos_tot' = pnl_pos_tot
    /\ rest' = [rest EXCEPT !.matured = rest.pos]
    /\ UNCHANGED <<a, pnl_pos_tot, residual, current_slot, sticky, corrupt>>

ReconcileResolved(new) ==
    LET b == ClearReserve(a)
        pos == pnl_pos_tot + Gain(b, new)
        matured == pnl_matured_pos_tot + Gain(b, new)
    IN  /\ ~Live
        /\ IF matured >= 0 /\ matured <= pos
           THEN /\ a' = [b EXCEPT !.pnl = new]
                /\ pnl_pos_tot' = pos
                /\ pnl_matured_pos_tot' = matured
                /\ UNCHANGED <<env, current_slot, sticky, market_mode, corrupt>>
           ELSE Failed

(***************************************************************************)
(* The surroundings: slots pass, an instruction ends (its context with the *)
(* sticky set is dropped), other accounts and the vault change.            *)
(***************************************************************************)
Tick ==
    /\ current_slot < MaxSlot
    /\ current_slot' = current_slot + 1
    /\ sticky' = FALSE
    /\ UNCHANGED <<a, totals, env, market_mode, corrupt>>

NewInstruction ==
    /\ sticky
    /\ sticky' = FALSE
    /\ UNCHANGED <<a, totals, env, current_slot, market_mode, corrupt>>

OthersChange(pos, matured, r) ==
    /\ matured <= pos
    /\ ~Live => matured = pos
    /\ rest' = [pos |-> pos, matured |-> matured]
    /\ residual' = r
    /\ pnl_pos_tot' = pnl_pos_tot - rest.pos + pos
    /\ pnl_matured_pos_tot' = pnl_matured_pos_tot - rest.matured + matured
    /\ UNCHANGED <<a, current_slot, sticky, market_mode, corrupt>>

Next ==
    \/ \E new \in PnlValues, lo, hi \in 0..h_max : SetPnl(new, lo, hi)
    \/ AdmitOutstanding
    \/ Advance
    \/ \E x \in 1..ReleasedPos(a) : ConsumeReleased(x)
    \/ ResolveMarket
    \/ \E new \in PnlValues : ReconcileResolved(new)
    \/ Tick
    \/ NewInstruction
    \/ \E pos, matured \in 0..MaxRest, r \in ResidualValues : OthersChange(pos, matured, r)

Spec == Init /\ [][Next]_vars

-----------------------------------------------------------------------------
(* Properties *)

SchedType == [present : BOOLEAN, remaining : Nat, anchor : Nat,
              start : Nat, horizon : Nat, release : Nat]
PendingType == [present : BOOLEAN, remaining : Nat, horizon : Nat, created : Nat]

\* The fields of the account and the totals have the types of the source.
TypeOK ==
    /\ a \in [pnl : Int, reserved_pnl : Nat, sched : SchedType, pending : PendingType]
    /\ pnl_pos_tot \in Nat
    /\ pnl_matured_pos_tot \in Nat
    /\ rest \in [pos : Nat, matured : Nat]
    /\ residual \in Nat
    /\ current_slot \in Nat
    /\ sticky \in BOOLEAN
    /\ market_mode \in {"Live", "Resolved"}
    /\ corrupt \in BOOLEAN

\* The buckets always pass validate_reserve_shape while the market is live.
ReserveWellFormed == Live => ShapeOk(a)

\* The market totals are exact: positive PnL, and in Live mode the part of
\* it that is released; after resolution everything is released.
TotalsExact ==
    /\ pnl_pos_tot = Pos(a.pnl) + rest.pos
    /\ Live => pnl_matured_pos_tot = (Pos(a.pnl) - a.reserved_pnl) + rest.matured
    /\ ~Live => pnl_matured_pos_tot = pnl_pos_tot

\* The scheduled bucket started in the past and has never released more
\* than its linear schedule allows.
OnSchedule ==
    Live /\ a.sched.present =>
        /\ a.sched.start <= current_slot
        /\ a.sched.release <= ScheduledTotal(a.sched, current_slot)

\* No call of the reserve helpers returns CorruptState.
NeverCorrupt == ~corrupt

\* Released claims outgrow the residual only by warming up: a step after
\* which more is released than the residual backs leaves PnL alone and
\* releases at most what the linear schedule of the bucket has accrued
\* (admission "preserves h = 1", admit_fresh_reserve_h_lock and
\* admit_outstanding_reserve_on_touch).
UnbackedOnlyByWarmup ==
    [][ /\ Live' /\ UNCHANGED env
        /\ pnl_matured_pos_tot' > pnl_matured_pos_tot
        /\ pnl_matured_pos_tot' > residual
        => /\ a'.pnl = a.pnl
           /\ a.sched.present
           /\ pnl_matured_pos_tot' - pnl_matured_pos_tot
                <= ScheduledTotal(a.sched, current_slot) - a.sched.release ]_vars
=============================================================================
