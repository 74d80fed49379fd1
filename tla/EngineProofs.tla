---------------------------- MODULE EngineProofs ----------------------------
(***************************************************************************)
(* The properties of the engine's money, for every number of accounts,     *)
(* every scale and limit, every opening and every argument of a call.      *)
(*                                                                         *)
(* The inductive invariant says that the engine record is the result of an *)
(* instruction (Result, module EngineOpsProofs): well typed, its           *)
(* aggregates the sums over the accounts, no account overdrawn, unused     *)
(* slots empty, the vault above the senior claims, no open interest        *)
(* without positions, a payout ratio only when all losses are settled,     *)
(* every position of its side's epoch or, while the side waits for its     *)
(* reset, of the one before, and the open interest of a live side between  *)
(* the exact shares of its positions and their rounded ones and the dust.  *)
(***************************************************************************)
EXTENDS Engine, EngineOpsProofs

IInv == scene \in DOMAIN Scenes /\ Result(eng) /\ Ok(eng)

-----------------------------------------------------------------------------
(* Every call keeps the invariant *)

\* What calls may be given, in the scene played.
LEMMA SceneTypes ==
    ASSUME scene \in DOMAIN Scenes
    PROVE  /\ \A o \in In.openings : IsOpening(o)
           /\ In.max_slot \in Int /\ In.steps \subseteq Int
           /\ In.prices \subseteq Int /\ In.exec_prices \subseteq Int
           /\ In.amounts \subseteq Nat /\ In.amounts \subseteq Int
           /\ In.rates \subseteq Int /\ In.sizes \subseteq Int
           /\ In.pairs \subseteq Int \X Int /\ In.parties \subseteq Accounts \X Accounts
           /\ \A p \in In.policies : p.q \in Nat
           /\ In.lists \subseteq Seq(CandidateType)
  BY ScenesAssumption DEF In

\* The slots of the bounded clock are integers.
LEMMA SlotsInt == ASSUME IInv PROVE Slots \subseteq Int
<1>1. In.max_slot \in Int
  BY SceneTypes DEF IInv
<1>2. QED
  BY <1>1 DEF Slots

\* A committed result is a result; a call that fails changes nothing.
LEMMA CommitKeeps ==
    ASSUME IInv, NEW e, Result(e), Commit(e)
    PROVE  IInv'
<1>1. e.err \in {"none", "Reject", "Corrupt"}
  BY DEF Result, Good, EngineType
<1>2. PICK f : f = [e EXCEPT !.ctx = NoContext]
  OBVIOUS
<1>3. Result(f) /\ f.err = e.err
  BY <1>2, DropContextResult
<1>4. eng' = IF e.err = "none" THEN f ELSE eng
  BY <1>2 DEF Commit
<1>5. Result(eng') /\ Ok(eng')
  BY <1>3, <1>4 DEF IInv, Ok
<1>6. scene' = scene
  BY DEF Commit
<1>7. QED
  BY <1>5, <1>6 DEF IInv

\* A market after its first instructions satisfies the invariant.
LEMMA InitKeeps == ASSUME Init PROVE IInv
<1>1. scene \in DOMAIN Scenes
  BY DEF Init
<1>2. PICK o \in In.openings : eng = Opened(o) /\ Ok(eng)
  BY DEF Init
<1>3. IsOpening(o)
  BY <1>1, SceneTypes
<1>4. QED
  BY <1>1, <1>2, <1>3, OpenedResult DEF IInv

\* Every instruction keeps the invariant.
LEMMA NextKeeps == ASSUME IInv, [Next]_vars PROVE IInv'
<1> USE DEF IInv
<1>1. Result(eng)
  OBVIOUS
<1>2. ASSUME NEW e, Result(e), Commit(e) PROVE IInv'
  BY <1>2, CommitKeeps
<1>3. /\ Slots \subseteq Int /\ In.prices \subseteq Int /\ In.exec_prices \subseteq Int
      /\ In.amounts \subseteq Nat /\ In.amounts \subseteq Int
      /\ In.rates \subseteq Int /\ In.sizes \subseteq Int
      /\ In.pairs \subseteq Int \X Int /\ In.parties \subseteq Accounts \X Accounts
      /\ \A p \in In.policies : p.q \in Nat
      /\ In.lists \subseteq Seq(CandidateType)
  BY SceneTypes, SlotsInt
<1> HIDE DEF IInv
<1>4. CASE \E i \in Accounts, amount \in In.amounts, now \in Slots : Deposit(i, amount, now)
  BY <1>1, <1>2, <1>3, <1>4, DepositResult DEF Deposit
<1>5. ASSUME NEW i \in Accounts, NEW now \in Slots, NEW price \in In.prices,
             NEW rate \in In.rates, NEW pair \in In.pairs,
             \/ \E amount \in In.amounts : Withdraw(i, amount, now, price, rate, pair)
             \/ Settle(i, now, price, rate, pair)
             \/ \E policy \in In.policies : Liquidate(i, now, price, policy, rate, pair)
             \/ \E x \in In.amounts : Convert(i, x, now, price, rate, pair)
             \/ Close(i, now, price, rate, pair)
      PROVE  IInv'
  <2>1. now \in Int /\ price \in Int /\ rate \in Int /\ pair \in Int \X Int
    BY <1>3
  <2>2. CASE \E amount \in In.amounts : Withdraw(i, amount, now, price, rate, pair)
    BY <1>1, <1>2, <1>3, <2>1, <2>2, WithdrawResult DEF Withdraw
  <2>3. CASE Settle(i, now, price, rate, pair)
    BY <1>1, <1>2, <2>1, <2>3, SettleResult DEF Settle
  <2>4. CASE \E policy \in In.policies : Liquidate(i, now, price, policy, rate, pair)
    BY <1>1, <1>2, <1>3, <2>1, <2>4, LiquidateResult DEF Liquidate
  <2>5. CASE \E x \in In.amounts : Convert(i, x, now, price, rate, pair)
    BY <1>1, <1>2, <1>3, <2>1, <2>5, ConvertResult DEF Convert
  <2>6. CASE Close(i, now, price, rate, pair)
    BY <1>1, <1>2, <2>1, <2>6, CloseResult DEF Close
  <2>7. QED
    BY <1>5, <2>2, <2>3, <2>4, <2>5, <2>6
<1>6. ASSUME NEW p \in In.parties, NEW now \in Slots, NEW price \in In.prices,
             NEW size \in In.sizes, NEW exec \in In.exec_prices, NEW rate \in In.rates,
             NEW pair \in In.pairs, Trade(p[1], p[2], now, price, size, exec, rate, pair)
      PROVE  IInv'
  <2>1. PICK a \in Accounts, b \in Accounts : a = p[1] /\ b = p[2]
    BY <1>3
  <2>2. Commit(TradeOp(eng, a, b, now, price, size, exec, rate, pair))
    BY <1>6, <2>1 DEF Trade
  <2>3. Result(TradeOp(eng, a, b, now, price, size, exec, rate, pair))
    BY <1>1, <1>3, TradeResult
  <2>4. QED
    BY <1>2, <2>2, <2>3
<1>7. ASSUME NEW cs \in In.lists, NEW now \in Slots, NEW price \in In.prices,
             NEW rate \in In.rates, NEW pair \in In.pairs, Crank(cs, now, price, rate, pair)
      PROVE  IInv'
  <2>1. Commit(CrankOp(eng, cs, now, price, rate, pair))
    BY <1>7 DEF Crank
  <2>2. Result(CrankOp(eng, cs, now, price, rate, pair))
    BY <1>1, <1>3, CrankResult
  <2>3. QED
    BY <1>2, <2>1, <2>2
<1>8. ASSUME NEW i \in Accounts, NEW now \in Slots,
             \/ Reclaim(i, now)
             \/ SettleFlatNegative(i, now)
             \/ \E x \in In.amounts : \/ ChargeAccountFee(i, x, now)
                                      \/ SyncFee(i, now, x)
                                      \/ DepositFeeCredits(i, x, now)
      PROVE  IInv'
  <2>1. now \in Int
    BY <1>3
  <2>2. CASE Reclaim(i, now)
    BY <1>1, <1>2, <2>1, <2>2, ReclaimResult DEF Reclaim
  <2>3. CASE SettleFlatNegative(i, now)
    BY <1>1, <1>2, <2>1, <2>3, SettleFlatNegativeResult DEF SettleFlatNegative
  <2>4. CASE \E x \in In.amounts : ChargeAccountFee(i, x, now)
    BY <1>1, <1>2, <1>3, <2>1, <2>4, ChargeFeeResult DEF ChargeAccountFee
  <2>5. CASE \E x \in In.amounts : SyncFee(i, now, x)
    BY <1>1, <1>2, <1>3, <2>1, <2>5, SyncFeeResult DEF SyncFee
  <2>6. CASE \E x \in In.amounts : DepositFeeCredits(i, x, now)
    BY <1>1, <1>2, <1>3, <2>1, <2>6, DepositFeeCreditsResult DEF DepositFeeCredits
  <2>7. QED
    BY <1>8, <2>2, <2>3, <2>4, <2>5, <2>6
<1>9. CASE \E x \in In.amounts, now \in Slots : TopUp(x, now)
  BY <1>1, <1>2, <1>3, <1>9, TopUpResult DEF TopUp
<1>10. CASE \E mode \in {"Ordinary", "Degenerate"}, price, live \in In.prices,
               now \in Slots, rate \in In.rates : ResolveMarket(mode, price, live, now, rate)
  <2>1. PICK mode, price, live, now, rate :
            /\ price \in Int /\ live \in Int /\ now \in Int /\ rate \in Int
            /\ ResolveMarket(mode, price, live, now, rate)
    BY <1>3, <1>10
  <2>2. QED
    BY <1>1, <1>2, <2>1, ResolveResult DEF ResolveMarket
<1>11. CASE \E i \in Accounts : ForceClose(i)
  BY <1>1, <1>2, <1>11, ForceCloseResult DEF ForceClose
<1>12. CASE \E i \in Accounts, pair \in In.pairs : SettleNow(i, pair)
  <2>1. eng.current_slot \in Int /\ eng.last_oracle_price \in Int
    BY <1>1 DEF Result, Good, EngineType
  <2>2. PICK i \in Accounts, pair \in Int \X Int : SettleNow(i, pair)
    BY <1>3, <1>12
  <2>3. PICK z \in Int : z = 0
    OBVIOUS
  <2>4. Result(SettleOp(eng, i, eng.current_slot, eng.last_oracle_price, z, pair))
    BY <1>1, <2>1, SettleResult
  <2>5. QED
    BY <1>2, <2>2, <2>3, <2>4 DEF SettleNow
<1>13. CASE UNCHANGED vars
  BY <1>13 DEF vars, IInv
<1>14. QED
  BY <1>4, <1>5, <1>6, <1>7, <1>8, <1>9, <1>10, <1>11, <1>12, <1>13 DEF Next

\* The invariant that the theorems below rest on.
THEOREM EngineInvariant == Spec => []IInv
  BY InitKeeps, NextKeeps, PTL DEF Spec

-----------------------------------------------------------------------------
(* What the invariant says of the books *)

\* The stored count of a side is the number of its positions.
LEMMA StoredIsCounted ==
    ASSUME eng \in EngineType, Books(eng), NEW s \in Side
    PROVE  eng.side[s].stored = Cardinality({i \in Accounts : OnSide(i, s)})
<1>1. PICK Q : Q = {i \in Accounts : OnSide(i, s)}
  OBVIOUS
<1>2. Q \subseteq Accounts /\ Indicates(Stored(eng, s), Q, Accounts)
  BY <1>1 DEF Indicates, Stored, Bit, OnSide
<1>3. Stored(eng, s) \in [Accounts -> Int] /\ IsFiniteSet(Accounts)
  BY TermTypes, Consts
<1>4. Sum(Stored(eng, s)) = Cardinality(Q)
  BY <1>2, <1>3, SumCard DEF Sum
<1>5. QED
  BY <1>1, <1>4 DEF Books, Sums

\* set_capital, set_pnl_with_reserve and set_position_basis_q keep the
\* aggregates equal to the sums over the accounts, whatever the instruction.
THEOREM AggregatesAreExact == Spec => []AggregatesExact
<1>1. ASSUME IInv PROVE AggregatesExact
  <2>1. eng \in EngineType /\ Sums(eng)
    BY <1>1 DEF IInv, Result, Good, Books
  <2>2. /\ eng.c_tot = Sum([i \in Accounts |-> eng.acc[i].capital])
        /\ eng.pnl_pos_tot = Sum([i \in Accounts |-> Pos(eng.acc[i].pnl)])
    BY <2>1 DEF Sums, Capitals, Profits
  <2>3. eng.pnl_matured_pos_tot =
          IF Live THEN Sum([i \in Accounts |-> Pos(eng.acc[i].pnl) - eng.acc[i].reserved_pnl])
                  ELSE eng.pnl_pos_tot
    BY <2>1 DEF Sums, Releases, Live
  <2>4. eng.neg_pnl_account_count = Cardinality({i \in Accounts : eng.acc[i].pnl < 0})
    <3>1. PICK Q : Q = {i \in Accounts : eng.acc[i].pnl < 0}
      OBVIOUS
    <3>2. Q \subseteq Accounts /\ Indicates(Negatives(eng), Q, Accounts)
      BY <3>1 DEF Indicates, Negatives, Bit
    <3>3. Negatives(eng) \in [Accounts -> Int] /\ IsFiniteSet(Accounts)
      BY <2>1, TermTypes, Consts
    <3>4. Sum(Negatives(eng)) = Cardinality(Q)
      BY <3>2, <3>3, SumCard DEF Sum
    <3>5. QED
      BY <2>1, <3>1, <3>4 DEF Sums
  <2>5. ASSUME NEW s \in Side
        PROVE  eng.side[s].stored = Cardinality({i \in Accounts : OnSide(i, s)})
    BY <1>1, StoredIsCounted DEF IInv, Result, Good
  <2>6. QED
    BY <2>2, <2>3, <2>4, <2>5 DEF AggregatesExact
<1>2. QED
  BY <1>1, EngineInvariant, PTL

\* What is rounded down does not exceed the exact share.
LEMMA FloorMul ==
    ASSUME NEW x \in Int, NEW d \in Nat \ {0}
    PROVE  d * FloorDiv(x, d) <= x
  BY DEF FloorDiv

\* Shares n/d of terms that sum to d, each rounded down, sum to at most n.
LEMMA SharesCovered ==
    ASSUME NEW D, IsFiniteSet(D), NEW r \in [D -> Int], NEW w \in [D -> Int],
           NEW n \in Int, NEW d \in Nat \ {0}, SumFunctionOnSet(r, D) = d,
           \A i \in D : d * w[i] <= n * r[i]
    PROVE  SumFunctionOnSet(w, D) <= n
<1>1. PICK dw : dw = [i \in D |-> d * w[i]]
  OBVIOUS
<1>2. PICK nr : nr = [i \in D |-> n * r[i]]
  OBVIOUS
<1>3. dw \in [D -> Int] /\ Scaled(dw, w, d, D)
  BY <1>1 DEF Scaled
<1>4. nr \in [D -> Int] /\ Scaled(nr, r, n, D)
  BY <1>2 DEF Scaled
<1>5. SumFunctionOnSet(dw, D) <= SumFunctionOnSet(nr, D)
  <2>1. \A i \in D : dw[i] <= nr[i]
    BY <1>1, <1>2
  <2>2. QED
    BY <1>3, <1>4, <2>1, SumMonotone
<1>6. PICK W \in Int : W = SumFunctionOnSet(w, D)
  BY SumInt
<1>7. d * W <= n * d
  BY <1>3, <1>4, <1>5, <1>6, SumScale
<1>8. QED
  <2>1. ASSUME W >= n + 1 PROVE FALSE
    <3>1. d * W >= d * (n + 1)
      BY <2>1
    <3>2. QED
      BY <1>7, <3>1
  <2>2. QED
    BY <1>6, <2>1

\* The haircut of haircut_ratio pays at most the residual on all released
\* profit, and the vault covers the senior claims (check_conservation).
THEOREM ClaimsAreBacked == Spec => []ClaimsBacked
<1>1. ASSUME IInv, Live PROVE /\ eng.vault >= eng.c_tot + eng.insurance
                              /\ Sum([i \in Accounts |-> EffectiveMatured(eng, i)]) <= Residual(eng)
  <2>1. eng \in EngineType /\ Books(eng) /\ Market(eng)
    BY <1>1 DEF IInv, Result, Good
  <2>2. PICK r : r = Releases(eng)
    OBVIOUS
  <2>3. r \in [Accounts -> Int] /\ IsFiniteSet(Accounts)
    BY <2>1, <2>2, TermTypes, Consts
  <2>4. \A i \in Accounts : r[i] >= 0 /\ ReleasedPos(eng.acc[i]) = r[i]
    <3>1. ASSUME NEW i \in Accounts PROVE r[i] >= 0 /\ ReleasedPos(eng.acc[i]) = r[i]
      <4>1. eng.acc[i].reserved_pnl <= Pos(eng.acc[i].pnl)
        BY <2>1 DEF Books
      <4>2. r[i] = Pos(eng.acc[i].pnl) - eng.acc[i].reserved_pnl /\ r[i] \in Int
        BY <2>2, <2>3 DEF Releases
      <4>3. PICK p \in Int, v \in Int : p = Pos(eng.acc[i].pnl) /\ v = eng.acc[i].reserved_pnl
        BY <2>1, EngineFields, AccountFields, PosInt
      <4>4. r[i] >= 0
        BY <4>1, <4>2, <4>3
      <4>5. QED
        BY <4>2, <4>4 DEF ReleasedPos, Greater
    <3>2. QED
      BY <3>1
  <2>5. PICK m \in Int : m = eng.pnl_matured_pos_tot /\ m = SumFunctionOnSet(r, Accounts)
    BY <1>1, <2>1, <2>2, EngineFields DEF Books, Sums, Live, Sum
  <2>6. PICK x \in Nat : x = Residual(eng)
    <3>1. eng.vault - (eng.c_tot + eng.insurance) \in Int
      BY <2>1, EngineFields
    <3>2. QED
      BY <3>1, PosInt DEF Residual
  <2>7. PICK w : w = [i \in Accounts |-> EffectiveMatured(eng, i)]
    OBVIOUS
  <2>8. m >= 0
    <3>1. PICK zero : zero = [i \in Accounts |-> 0]
      OBVIOUS
    <3>2. zero \in [Accounts -> Int] /\ \A i \in Accounts : zero[i] = 0 /\ zero[i] <= r[i]
      BY <2>3, <2>4, <3>1
    <3>3. QED
      BY <2>3, <2>5, <3>2, SumMonotone, SumZero
  <2>9. CASE m = 0
    <3>1. HaircutNum(eng) = 1 /\ HaircutDen(eng) = 1
      BY <2>5, <2>9 DEF HaircutNum, HaircutDen
    <3>2. \A i \in Accounts : w[i] = r[i]
      BY <2>3, <2>4, <2>7, <3>1 DEF EffectiveMatured, FloorDiv
    <3>3. \A i \in Accounts : w[i] = 0
      BY <2>3, <2>4, <2>5, <2>9, <3>2, SumZeroTerm
    <3>4. w \in [Accounts -> Int]
      BY <2>7, <3>3
    <3>5. SumFunctionOnSet(w, Accounts) = 0
      BY <2>3, <3>3, <3>4, SumZero
    <3>6. QED
      BY <2>1, <2>6, <2>7, <3>5 DEF Market, Sum
  <2>10. CASE m > 0
    <3>1. PICK n \in Nat : n = HaircutNum(eng) /\ n <= x /\ HaircutDen(eng) = m
      BY <2>5, <2>6, <2>10 DEF HaircutNum, HaircutDen, Lesser
    <3>2. ASSUME NEW i \in Accounts PROVE w[i] \in Int /\ m * w[i] <= n * r[i]
      <4>1. PICK t \in Int : t = r[i] * n
        BY <2>3, <3>1
      <4>2. w[i] = FloorDiv(t, m)
        BY <2>4, <2>7, <3>1, <4>1 DEF EffectiveMatured
      <4>3. m * FloorDiv(t, m) <= t /\ FloorDiv(t, m) \in Int
        BY <2>10, <4>1, FloorMul, FloorInt
      <4>4. t = n * r[i]
        BY <2>3, <3>1, <4>1
      <4>5. QED
        BY <4>2, <4>3, <4>4
    <3>3. w \in [Accounts -> Int]
      BY <2>7, <3>2
    <3>4. SumFunctionOnSet(w, Accounts) <= n
      BY <2>3, <2>5, <2>10, <3>1, <3>2, <3>3, SharesCovered
    <3>5. SumFunctionOnSet(w, Accounts) \in Int
      BY <2>3, <3>3, SumInt
    <3>6. QED
      BY <2>1, <2>6, <2>7, <3>1, <3>4, <3>5 DEF Market, Sum
  <2>11. QED
    BY <2>8, <2>9, <2>10
<1>2. ASSUME IInv PROVE ClaimsBacked
  BY <1>1, <1>2 DEF ClaimsBacked
<1>3. QED
  BY <1>2, EngineInvariant, PTL

\* close_resolved_terminal_not_atomic fixes the payout ratio only when
\* is_terminal_ready: no position is open and no loss unpaid, and neither
\* comes back.
THEOREM PayoutComesAfterLosses == Spec => []PayoutAfterLosses
<1>1. ASSUME IInv PROVE PayoutAfterLosses
  BY <1>1 DEF IInv, Result, Market, AllSettled, PayoutAfterLosses
<1>2. QED
  BY <1>1, EngineInvariant, PTL

\* The last account to leave takes the surplus sweep with it: a market
\* without accounts holds its insurance fund and nothing else
\* (sweep_empty_market_surplus_to_insurance).
THEOREM NothingIsStranded == Spec => []NothingStranded
<1>1. ASSUME IInv PROVE NothingStranded
  <2>1. eng \in EngineType /\ Books(eng) /\ Market(eng)
    BY <1>1 DEF IInv, Result, Good
  <2>2. ASSUME eng.used = {} PROVE eng.vault = eng.insurance
    BY <2>1, <2>2 DEF Market
  <2>3. QED
    BY <2>1, <2>2, EmptyBooks DEF NothingStranded
<1>2. QED
  BY <1>1, EngineInvariant, PTL

\* begin_full_drain_reset ages every position of a drained side by one epoch
\* and counts them as stale; settling one takes it off the count, the side
\* reopens only when none is left, and a trade opens none while it waits: the
\* stale count is the number of positions from before the reset.
THEOREM StaleIsCounted == Spec => []EpochLag
<1>1. ASSUME IInv PROVE EpochLag
  <2>1. eng \in EngineType /\ Books(eng) /\ Epochs(eng)
    BY <1>1 DEF IInv, Result, Good, Market
  <2>2. SUFFICES ASSUME NEW s \in Side, NEW lag,
                        lag = {i \in Accounts : /\ OnSide(i, s)
                                                /\ eng.acc[i].adl_epoch_snap # eng.side[s].epoch}
                 PROVE  /\ eng.side[s].stale = Cardinality(lag)
                        /\ \A i \in lag : /\ eng.acc[i].adl_epoch_snap + 1 = eng.side[s].epoch
                                          /\ eng.side[s].mode = "ResetPending"
                        /\ eng.side[s].mode = "ResetPending" => eng.side[s].oi = 0
    BY DEF EpochLag
  <2>3. /\ Aged(eng.side[s])
        /\ \A i \in Accounts :
              OnSide(i, s) => eng.acc[i].adl_epoch_snap + Age(eng.side[s]) = eng.side[s].epoch
    BY <2>1 DEF Epochs, OfEpoch, OnSide
  <2>4. \A i \in Accounts : eng.acc[i].adl_epoch_snap \in Int
    BY <2>1, EngineFields, AccountFields
  <2>5. eng.side[s].epoch \in Int
    BY <2>1, EngineFields, SideFields
  <2>6. CASE eng.side[s].mode # "ResetPending"
    <3>1. \A i \in Accounts : OnSide(i, s) => eng.acc[i].adl_epoch_snap = eng.side[s].epoch
      BY <2>3, <2>4, <2>6 DEF Age
    <3>2. lag = {}
      BY <2>2, <3>1
    <3>3. QED
      BY <2>3, <2>6, <3>2, FS_EmptySet DEF Aged
  <2>7. CASE eng.side[s].mode = "ResetPending"
    <3>1. \A i \in Accounts : OnSide(i, s) => eng.acc[i].adl_epoch_snap + 1 = eng.side[s].epoch
      BY <2>3, <2>7 DEF Age
    <3>2. \A i \in Accounts : i \in lag <=> OnSide(i, s)
      BY <2>2, <2>4, <2>5, <3>1
    <3>3. lag = {i \in Accounts : OnSide(i, s)}
      BY <2>2, <3>2
    <3>4. eng.side[s].stored = Cardinality(lag)
      BY <2>1, <3>3, StoredIsCounted
    <3>5. QED
      BY <2>3, <2>7, <3>1, <3>3, <3>4 DEF Aged
  <2>8. QED
    BY <2>6, <2>7
<1>2. QED
  BY <1>1, EngineInvariant, PTL

-----------------------------------------------------------------------------
(* What the invariant says of the open interest *)

\* What the accounts hold of a side is the sum of their shares.
LEMMA HeldIsEffective ==
    ASSUME eng \in EngineType, NEW s \in Side, NEW q, NEW a, NEW m,
           q = InForce(eng.acc, s, eng.side[s].epoch), a = Bases(eng.acc), m = eng.side[s].mult
    PROVE  Sum([i \in Accounts |-> OiComponent(s, EffectivePos(eng, i))]) = Held(Accounts, q, a, m)
<1>1. ASSUME NEW i \in Accounts
      PROVE  OiComponent(s, EffectivePos(eng, i)) = Share(q[i], a[i], m)
  <2>1. Portion(eng, i, s) = OiComponent(s, EffectivePos(eng, i))
    BY PortionEffective
  <2>2. a[i] = eng.acc[i].adl_a_basis
    BY DEF Bases
  <2>3. QED
    BY <2>1, <2>2 DEF Portion
<1>2. [i \in Accounts |-> OiComponent(s, EffectivePos(eng, i))] = Shares(Accounts, q, a, m)
  BY <1>1 DEF Shares
<1>3. QED
  BY <1>2 DEF Sum, Held

\* attach_effective_position, settle_side_effects_live and enqueue_adl round
\* every position down and raise the dust bound by what they round away: the
\* open interest of a side is never less than the effective positions on it
\* and never exceeds them by more than the bound, and the two sides agree.
THEOREM OpenInterestIsCovered == Spec => []OpenInterestCovered
<1>1. ASSUME IInv PROVE OpenInterestCovered
  <2>1. eng \in EngineType /\ Even(eng) /\ Backed(eng)
    BY <1>1 DEF IInv, Result, Good, Market
  <2>2. ASSUME Live, NEW s \in Side,
               NEW held, held = Sum([i \in Accounts |-> OiComponent(s, EffectivePos(eng, i))])
        PROVE  held <= eng.side[s].oi /\ eng.side[s].oi <= held + eng.side[s].dust
    <3>1. PICK q, a, m, n, d : /\ q = InForce(eng.acc, s, eng.side[s].epoch) /\ a = Bases(eng.acc)
                               /\ m = eng.side[s].mult /\ n = eng.side[s].oi
                               /\ d = eng.side[s].dust
      OBVIOUS
    <3>2. /\ q \in [Accounts -> Nat] /\ a \in [Accounts -> Nat \ {0}] /\ m \in Nat
          /\ n \in Int /\ IsFiniteSet(Accounts)
      BY <2>1, <3>1, InForceNat, EngineFields, SideFields, Consts
    <3>3. Covers(Accounts, q, a, m, n, d)
      BY <2>1, <2>2, <3>1 DEF Live, Backed, SideBacked, Backs, BacksWith
    <3>4. held = Held(Accounts, q, a, m)
      BY <2>1, <2>2, <3>1, HeldIsEffective
    <3>5. Held(Accounts, q, a, m) <= n
      BY <3>2, <3>3, CoversHeld
    <3>6. n <= Held(Accounts, q, a, m) + d
      BY <3>3 DEF Covers
    <3>7. QED
      BY <3>1, <3>4, <3>5, <3>6
  <2>3. QED
    BY <2>1, <2>2 DEF OpenInterestCovered, Even
<1>2. QED
  BY <1>1, EngineInvariant, PTL
=============================================================================
