------------------------------- MODULE Engine -------------------------------
(***************************************************************************)
(* The risk engine of src/src/percolator.rs as a state machine: one action *)
(* per public instruction, in any order, with any arguments from small     *)
(* sets.                                                                   *)
(*                                                                         *)
(* A transaction that returns an error is rolled back by the runtime, so a *)
(* rejected call is no step at all.  A call that returns CorruptState      *)
(* leaves the engine unchanged and sets `corrupt'.  The slot and the price *)
(* of a call are the wrapper's; slots never go back (the source rejects    *)
(* it) and stop at the scene's max_slot.                                   *)
(***************************************************************************)
EXTENDS EngineOps

CONSTANT
    Scenes           \* the situations a run looks at, by name.  A scene is a
                     \* record: openings (the markets it may start from, see
                     \* Opened), budget ([instruction |-> how often it may be
                     \* called]), max_slot (bound on the clock), and what calls
                     \* may be given: steps of the clock, oracle prices,
                     \* execution prices, funding rates, admission pairs,
                     \* parties <<buyer, seller>>, sizes, amounts, liquidation
                     \* policies, candidate lists of a crank

ASSUME ScenesAssumption ==
    \A n \in DOMAIN Scenes :
        LET sc == Scenes[n]
        IN  /\ \A o \in sc.openings : IsOpening(o)
            /\ sc.max_slot \in Nat /\ sc.steps \subseteq Nat
            /\ sc.prices \subseteq Nat /\ sc.exec_prices \subseteq Nat
            /\ sc.amounts \subseteq Nat
            /\ sc.rates \subseteq Int /\ sc.sizes \subseteq Int
            /\ sc.pairs \subseteq Nat \X Nat /\ sc.parties \subseteq Accounts \X Accounts
            /\ \A p \in sc.policies : p.q \in Nat
            /\ sc.lists \subseteq Seq(CandidateType)

VARIABLES
    eng,             \* the engine
    corrupt,         \* some call returned CorruptState
    left,            \* what is left of the budget
    scene            \* the scene played, fixed at the start

vars == <<eng, corrupt, left, scene>>

In == Scenes[scene]

Init ==
    /\ scene \in DOMAIN Scenes
    /\ \E o \in In.openings : eng = Opened(o) /\ Ok(eng)
    /\ corrupt = FALSE
    /\ left = In.budget

Commit(e) ==
    /\ e.err # "Reject"
    /\ eng' = IF e.err = "none" THEN [e EXCEPT !.ctx = NoContext] ELSE eng
    /\ corrupt' = (corrupt \/ e.err = "Corrupt")
    /\ UNCHANGED scene

Spend(k) == left[k] > 0 /\ left' = [left EXCEPT ![k] = @ - 1]

Slots == {eng.current_slot + d : d \in In.steps} \intersect (0..In.max_slot)

Deposit(i, amount, now) ==
    Spend("deposit") /\ Commit(DepositOp(eng, i, amount, now))
Withdraw(i, amount, now, price, rate, pair) ==
    Spend("withdraw") /\ Commit(WithdrawOp(eng, i, amount, now, price, rate, pair))
Settle(i, now, price, rate, pair) ==
    Spend("settle") /\ Commit(SettleOp(eng, i, now, price, rate, pair))
Trade(a, b, now, price, size, exec, rate, pair) ==
    Spend("trade") /\ Commit(TradeOp(eng, a, b, now, price, size, exec, rate, pair))
Liquidate(i, now, price, policy, rate, pair) ==
    Spend("liquidate") /\ Commit(LiquidateOp(eng, i, now, price, policy, rate, pair))
Crank(cs, now, price, rate, pair) ==
    Spend("crank") /\ Commit(CrankOp(eng, cs, now, price, rate, pair))
Convert(i, x, now, price, rate, pair) ==
    Spend("convert") /\ Commit(ConvertOp(eng, i, x, now, price, rate, pair))
Close(i, now, price, rate, pair) ==
    Spend("close") /\ Commit(CloseOp(eng, i, now, price, rate, pair))
Reclaim(i, now) ==
    Spend("close") /\ Commit(ReclaimOp(eng, i, now))
TopUp(amount, now) ==
    Spend("fees") /\ Commit(TopUpOp(eng, amount, now))
ChargeAccountFee(i, fee, now) ==
    Spend("fees") /\ Commit(ChargeFeeOp(eng, i, fee, now))
SyncFee(i, now, fee_rate) ==
    Spend("fees") /\ Commit(SyncFeeOp(eng, i, now, fee_rate))
DepositFeeCredits(i, amount, now) ==
    Spend("fees") /\ Commit(DepositFeeCreditsOp(eng, i, amount, now))
SettleFlatNegative(i, now) ==
    Spend("fees") /\ Commit(SettleFlatNegativeOp(eng, i, now))
ResolveMarket(mode, price, live, now, rate) ==
    Spend("resolve") /\ Commit(ResolveOp(eng, mode, price, live, now, rate))
ForceClose(i) ==
    UNCHANGED left /\ Commit(ForceCloseOp(eng, i))

\* The keeper's touch: at the current slot and price it can be repeated
\* without end.
SettleNow(i, pair) ==
    UNCHANGED left /\ Commit(SettleOp(eng, i, eng.current_slot, eng.last_oracle_price, 0, pair))

Next ==
    \/ \E i \in Accounts, amount \in In.amounts, now \in Slots : Deposit(i, amount, now)
    \/ \E i \in Accounts, now \in Slots, price \in In.prices, rate \in In.rates, pair \in In.pairs :
          \/ \E amount \in In.amounts : Withdraw(i, amount, now, price, rate, pair)
          \/ Settle(i, now, price, rate, pair)
          \/ \E policy \in In.policies : Liquidate(i, now, price, policy, rate, pair)
          \/ \E x \in In.amounts : Convert(i, x, now, price, rate, pair)
          \/ Close(i, now, price, rate, pair)
    \/ \E p \in In.parties, now \in Slots, price \in In.prices, size \in In.sizes, exec \in In.exec_prices,
          rate \in In.rates, pair \in In.pairs :
          Trade(p[1], p[2], now, price, size, exec, rate, pair)
    \/ \E cs \in In.lists, now \in Slots, price \in In.prices, rate \in In.rates, pair \in In.pairs :
          Crank(cs, now, price, rate, pair)
    \/ \E i \in Accounts, now \in Slots :
          \/ Reclaim(i, now)
          \/ SettleFlatNegative(i, now)
          \/ \E x \in In.amounts : \/ ChargeAccountFee(i, x, now)
                                \/ SyncFee(i, now, x)
                                \/ DepositFeeCredits(i, x, now)
    \/ \E x \in In.amounts, now \in Slots : TopUp(x, now)
    \/ \E mode \in {"Ordinary", "Degenerate"}, price, live \in In.prices, now \in Slots, rate \in In.rates :
          ResolveMarket(mode, price, live, now, rate)
    \/ \E i \in Accounts : ForceClose(i)
    \/ \E i \in Accounts, pair \in In.pairs : SettleNow(i, pair)

Spec == Init /\ [][Next]_vars

(***************************************************************************)
(* Anyone may settle any account, and after resolution close it, so a      *)
(* keeper that serves every account eventually does: weak fairness of the  *)
(* two calls, with their enabledness written out as a state predicate.     *)
(***************************************************************************)
Moves(e) == e.err = "none" /\ [e EXCEPT !.ctx = NoContext] # eng

SettleMoves(i) ==
    \E pair \in In.pairs : Moves(SettleOp(eng, i, eng.current_slot, eng.last_oracle_price, 0, pair))

FairSpec ==
    /\ Spec
    /\ \A i \in Accounts :
          /\ []<><<\E pair \in In.pairs : SettleNow(i, pair)>>_vars \/ []<>~SettleMoves(i)
          /\ []<><<ForceClose(i)>>_vars \/ []<>~Moves(ForceCloseOp(eng, i))

-----------------------------------------------------------------------------
(* Properties *)

Live == eng.market_mode = "Live"
OnSide(i, s) == SideOf(eng.acc[i].position_basis_q) = s
SomePair == CHOOSE p \in In.pairs : TRUE

\* No instruction ever returns CorruptState.
NeverCorrupt == ~corrupt

\* The aggregates every margin and haircut computation reads are the sums
\* over the accounts (set_capital, set_pnl_with_reserve,
\* set_position_basis_q).
AggregatesExact ==
    /\ eng.c_tot = Sum([i \in Accounts |-> eng.acc[i].capital])
    /\ eng.pnl_pos_tot = Sum([i \in Accounts |-> Pos(eng.acc[i].pnl)])
    /\ eng.pnl_matured_pos_tot =
          IF Live THEN Sum([i \in Accounts |-> Pos(eng.acc[i].pnl) - eng.acc[i].reserved_pnl])
                  ELSE eng.pnl_pos_tot
    /\ eng.neg_pnl_account_count = Cardinality({i \in Accounts : eng.acc[i].pnl < 0})
    /\ \A s \in Side : eng.side[s].stored = Cardinality({i \in Accounts : OnSide(i, s)})

\* Junior claims never eat senior money: what the haircut would pay out on
\* all released profit is covered by V - (C_tot + I) (haircut_ratio,
\* check_conservation).
ClaimsBacked ==
    Live => /\ eng.vault >= eng.c_tot + eng.insurance
            /\ Sum([i \in Accounts |-> EffectiveMatured(eng, i)]) <= Residual(eng)

\* Until a side has been deleveraged or reset, the accounts' capital, PnL
\* and unsettled mark and funding, with the insurance fund, claim no more
\* than the vault holds: marks, funding, trades, fees and conversions move
\* money and never make any.
PendingPnl(i) ==
    LET a == eng.acc[i]
        o == eng.side[SideOf(a.position_basis_q)]
    IN  IF a.position_basis_q = 0 THEN 0 ELSE KfPnlDelta(a, o.coeff, o.f)

BalancedBooks ==
    (\A s \in Side : eng.side[s].epoch = 0 /\ eng.side[s].dust = 0) =>
        Sum([i \in Accounts |-> eng.acc[i].capital + eng.acc[i].pnl + PendingPnl(i)]) + eng.insurance
            <= eng.vault

\* The open interest of a side covers the positions on it and exceeds them
\* by no more than the side's phantom dust bound; the two sides agree
\* (enqueue_adl, attach_effective_position, settle_side_effects_live).
OpenInterestCovered ==
    /\ eng.side["Long"].oi = eng.side["Short"].oi
    /\ Live => \A s \in Side :
          LET held == Sum([i \in Accounts |-> OiComponent(s, EffectivePos(eng, i))])
          IN  held <= eng.side[s].oi /\ eng.side[s].oi <= held + eng.side[s].dust

\* A position is of its side's epoch, or of the one before while the side
\* waits for it; the stale count says how many it waits for
\* (begin_full_drain_reset).
EpochLag ==
    \A s \in Side :
        LET lag == {i \in Accounts : OnSide(i, s) /\ eng.acc[i].adl_epoch_snap # eng.side[s].epoch}
        IN  /\ eng.side[s].stale = Cardinality(lag)
            /\ \A i \in lag : /\ eng.acc[i].adl_epoch_snap + 1 = eng.side[s].epoch
                              /\ eng.side[s].mode = "ResetPending"
            /\ eng.side[s].mode = "ResetPending" => eng.side[s].oi = 0

\* A live market can always be accrued at its current slot, whatever the
\* funding rate, so no instruction bricks it (check_live_accrual_envelope).
NeverBricked ==
    Live => \A price \in In.prices, rate \in In.rates :
        AccrueMarket(eng, eng.current_slot, price, rate).err = "none"

\* No account is beyond liquidation, and no candidate, hint or price makes a
\* crank fail: a full close goes through or finds the account healthy, and a
\* partial close that validate_keeper_hint lets through also passes the
\* health check that would otherwise revert the whole crank.
LiquidationNeverBlocked ==
    Live => \A price \in In.prices :
        /\ \A i \in eng.used :
              LiquidateOp(eng, i, eng.current_slot, price, FullClose, 0, SomePair).err = "none"
        /\ \A cs \in In.lists :
              CrankOp(eng, cs, eng.current_slot, price, 0, SomePair).err = "none"

\* What withdraw_not_atomic says of its margin check: the equity it compares
\* with the initial requirement is "capital minus losses minus fees" and
\* "does NOT include matured released PnL", so an account that withdraws
\* with a position open keeps the requirement in capital.
WithdrawalNeedsCapital ==
    [][ eng'.vault < eng.vault =>
          \A i \in Accounts :
              LET a == eng'.acc[i]
                  q == EffectivePos(eng', i)
              IN  a.capital < eng.acc[i].capital /\ q # 0 =>
                    a.capital + Lesser(a.pnl, 0) - FeeDebt(a) >= InitReq(q, eng'.last_oracle_price) ]_vars

\* The payout ratio of a resolved market is fixed only when every position
\* is settled and every loss is paid or written off, so it does not depend on
\* who closes first (is_terminal_ready, close_resolved_terminal_not_atomic).
PayoutAfterLosses ==
    eng.resolved.ready =>
        \A i \in Accounts : eng.acc[i].position_basis_q = 0 /\ eng.acc[i].pnl >= 0

\* A side that waits for its reset reopens, or the market is resolved.
ResetCompletes ==
    \A s \in Side : eng.side[s].mode = "ResetPending" ~> (eng.side[s].mode = "Normal" \/ ~Live)

\* Every account of a resolved market is eventually closed.
ResolvedDrains == (~Live) ~> (eng.used = {})

\* A market without accounts owes nothing and strands nothing: whatever
\* roundings and haircuts left in the vault is insurance
\* (sweep_empty_market_surplus_to_insurance).
NothingStranded ==
    eng.used = {} => eng.vault = eng.insurance /\ eng.c_tot = 0 /\ eng.pnl_pos_tot = 0
=============================================================================
