------------------------------- MODULE Program -------------------------------
(***************************************************************************)
(* The on-chain program around the risk engine: the instructions of        *)
(* src/program/src/processor.rs that move money or positions, one action   *)
(* each.  They choose the slot, read the oracle feed, call one engine      *)
(* instruction, write the bounties into the engine's fields themselves,    *)
(* and move tokens between the vault and the caller.                       *)
(*                                                                         *)
(* An instruction that returns an error is rolled back by the runtime with *)
(* everything it wrote, so it is no step.  Account checks (signer, owner,  *)
(* mint, vault address) only add errors and are left out; so is a price    *)
(* range that excludes the oracle price.  The slots 0..max_accounts-1 are  *)
(* the whole table (module Slab has the slots beyond).                     *)
(***************************************************************************)
EXTENDS EngineOps

CONSTANTS
    Users,           \* the keys that deposit and trade
    LP,              \* PROTOCOL_LP_OWNER_SENTINEL
    NoOne,           \* the zero key of an unclaimed slot
    LIQ_BOUNTY_BPS, CRANK_BOUNTY, STALE_SLOTS, GC_CLOSE_BUDGET,
    Openings,        \* the markets a behaviour may start from: see Opened,
                     \* with the owners of the slots 0, 1, ... and a budget,
                     \* [instruction |-> how often it may be called]
    Amounts, Sizes, Prices,
    MaxSlot          \* bound on the clock

\* The slots 0, 1, ... were claimed by distinct keys with a deposit each, slot
\* 0 by the LP before anyone traded; the LP claims no other.
IsOwned(o) ==
    /\ o.owners \in Seq(Users \union {LP}) /\ Len(o.owners) <= Cardinality(Accounts)
    /\ \A k, l \in DOMAIN o.owners : o.owners[k] = o.owners[l] => k = l
    /\ \A k \in DOMAIN o.owners : o.owners[k] = LP => k = 1
    /\ \A i \in Accounts : i < Len(o.owners) <=> o.cap[i] # 0
    /\ o.trades # <<>> => o.owners # <<>> /\ o.owners[1] = LP

ASSUME ProgramAssumption ==
    /\ LP \notin Users /\ NoOne \notin Users /\ LP # NoOne
    /\ 0 \in Accounts /\ Accounts = 0..(Cardinality(Accounts) - 1)
    /\ {LIQ_BOUNTY_BPS, CRANK_BOUNTY, STALE_SLOTS, GC_CLOSE_BUDGET, MaxSlot} \subseteq Nat
    /\ \A o \in Openings : IsOpening(o) /\ IsOwned(o)
    /\ Amounts \subseteq Nat /\ Sizes \subseteq Int /\ Prices \subseteq Int

VARIABLES
    eng,             \* the engine region of the slab
    owner,           \* accounts[i].owner
    free,            \* the free list, head first
    gc_cursor,
    tokens,          \* the balance of the vault's token account
    clock,           \* Clock::get().slot
    feed,            \* the oracle feed: [price, slot]; price 0 before the
                     \* first update
    left             \* what is left of the budget

vars == <<eng, owner, free, gc_cursor, tokens, clock, feed, left>>

PROTOCOL_LP_SLOT == 0
Pair == <<h_min, h_max>>     \* the admission pair of every instruction

Init ==
    \E o \in Openings :
        /\ eng = Opened(o) /\ Ok(eng)
        /\ owner = [i \in Accounts |-> IF i < Len(o.owners) THEN o.owners[i + 1] ELSE NoOne]
        /\ free = [k \in 1..(Cardinality(Accounts) - Len(o.owners)) |-> Len(o.owners) + k - 1]
        /\ gc_cursor = 0 /\ tokens = eng.vault /\ clock = 0
        /\ feed = [price |-> o.price, slot |-> 0]
        /\ left = o.budget

Spend(k) == left[k] > 0 /\ left' = [left EXCEPT ![k] = @ - 1]

\* The engine call succeeded and `paid' tokens moved into the vault (out of
\* it when negative).
Commit(e, paid) ==
    /\ Ok(e)
    /\ eng' = [e EXCEPT !.ctx = NoContext]
    /\ tokens + paid >= 0 /\ tokens' = tokens + paid
    /\ UNCHANGED <<clock, feed>>

SlotsKept == UNCHANGED <<owner, free, gc_cursor>>
Claim(i, u) ==
    /\ owner' = [owner EXCEPT ![i] = u]
    /\ free' = Tail(free)
    /\ UNCHANGED gc_cursor

First(S) == CHOOSE i \in S : \A j \in S : i <= j
OwnSlots(u) == {i \in eng.used : owner[i] = u}       \* the owner scan

\* read_oracle_price: the feed has a price that is neither of the future nor
\* older than STALE_SLOTS.
FeedFresh ==
    /\ feed.price \in 1..MAX_ORACLE_PRICE
    /\ feed.slot <= clock /\ clock - feed.slot <= STALE_SLOTS

-----------------------------------------------------------------------------
(* process_deposit, process_bootstrap_lp, process_withdraw *)

DepositKnown(u, amount) ==
    /\ OwnSlots(u) # {}
    /\ Commit(DepositOp(eng, First(OwnSlots(u)), amount, clock), amount)
    /\ SlotsKept

DepositFresh(u, amount) ==
    /\ OwnSlots(u) = {} /\ free # <<>>
    /\ Commit(DepositOp(eng, Head(free), amount, clock), amount)
    /\ Claim(Head(free), u)

Deposit(u, amount) ==
    /\ Spend("deposit") /\ amount > 0
    /\ DepositKnown(u, amount) \/ DepositFresh(u, amount)

BootstrapLp(amount) ==
    /\ Spend("deposit") /\ amount > 0
    /\ PROTOCOL_LP_SLOT \notin eng.used
    /\ free # <<>> /\ Head(free) = PROTOCOL_LP_SLOT
    /\ Commit(DepositOp(eng, PROTOCOL_LP_SLOT, amount, clock), amount)
    /\ Claim(PROTOCOL_LP_SLOT, LP)

V_WithdrawCall(u, amount) ==  \* asks for a fresh price
    IF FeedFresh THEN WithdrawOp(eng, First(OwnSlots(u)), amount, clock, feed.price, 0, Pair)
    ELSE Reject(eng)

WithdrawCall(u, amount) ==
    WithdrawOp(eng, First(OwnSlots(u)), amount, clock, eng.last_oracle_price, 0, Pair)

Withdraw(u, amount) ==
    /\ Spend("withdraw") /\ amount > 0
    /\ OwnSlots(u) # {}
    /\ Commit(WithdrawCall(u, amount), -amount)
    /\ SlotsKept

-----------------------------------------------------------------------------
(* process_place_order.  A Long order buys from the LP, a Short one sells  *)
(* to it.                                                                  *)

V_LpReady == PROTOCOL_LP_SLOT \in eng.used  \* whoever owns slot 0 is traded with

LpReady == PROTOCOL_LP_SLOT \in eng.used /\ owner[PROTOCOL_LP_SLOT] = LP

OpensOnUserSide(i, s, size) ==
    LET pos == EffectivePos(eng, i)
    IN  SideOf(pos) \in {"None", s} \/ size > Abs(pos)

SideGate(i, s, size) == OpensOnUserSide(i, s, size) => eng.side[s].mode = "Normal"

Buyer(i, s) == IF s = "Long" THEN i ELSE PROTOCOL_LP_SLOT
Seller(i, s) == IF s = "Long" THEN PROTOCOL_LP_SLOT ELSE i

PlaceOrder(u, s, size) ==
    /\ Spend("order") /\ size > 0
    /\ FeedFresh /\ OwnSlots(u) # {} /\ LpReady
    /\ LET i == First(OwnSlots(u))
       IN  /\ SideGate(i, s, size)
           /\ Commit(TradeOp(eng, Buyer(i, s), Seller(i, s), clock, feed.price, size,
                             feed.price, 0, Pair), 0)
    /\ SlotsKept

-----------------------------------------------------------------------------
(* process_liquidate.  The bounty is a share of the capital before, as far *)
(* as it is left; the program writes capital, c_tot and vault itself.      *)

V_BountyTaken(e, i, b) ==  \* c_tot keeps the bounty
    [e EXCEPT !.acc[i].capital = @ - b, !.vault = @ - b]

BountyTaken(e, i, b) ==
    RejectUnless([e EXCEPT !.acc[i].capital = @ - b, !.c_tot = @ - b, !.vault = @ - b],
                 b <= e.c_tot /\ b <= e.vault)

LiqBounty(e, i, capital) == Lesser(FloorDiv(capital * LIQ_BOUNTY_BPS, BPS), e.acc[i].capital)

\* What liquidate_at_oracle_not_atomic returns: an account that the touch
\* finds healthy is not liquidated, and the call is an error.
V_DidLiquidate(i) == TRUE  \* the result is ignored

DidLiquidate(i) ==
    Liquidatable(BeginTouch(eng, i, clock, feed.price, 0, Pair), i, feed.price)

BountyPaid(e, i, b) == Commit(BountyTaken(e, i, b), -b)

LiquidatePaid(e, i) == BountyPaid(e, i, LiqBounty(e, i, eng.acc[i].capital))

LiquidateGuard(i) ==
    i # PROTOCOL_LP_SLOT /\ i \in eng.used /\ FeedFresh /\ DidLiquidate(i)

LiquidateCall(i) == LiquidateOp(eng, i, clock, feed.price, FullClose, 0, Pair)

Liquidate(i) ==
    /\ LiquidateGuard(i)
    /\ LiquidatePaid(LiquidateCall(i), i)
    /\ SlotsKept /\ UNCHANGED left

-----------------------------------------------------------------------------
(* process_crank.  The caller is paid out of the insurance fund, down to   *)
(* its floor.  (last_crank_slot is written and never read.)                *)

CrankPay(e) == Lesser(Pos(e.insurance - insurance_floor), CRANK_BOUNTY)

PayCaller(e, pay) ==
    RejectUnless([e EXCEPT !.insurance = @ - pay, !.vault = @ - pay], pay <= e.vault)

Worked(e) == Commit(PayCaller(e, CrankPay(e)), -CrankPay(e)) /\ UNCHANGED left

FundingCall == AccrueMarket(eng, clock, eng.last_oracle_price, 0)

CrankFunding ==
    /\ clock > eng.last_market_slot
    /\ Worked(FundingCall)
    /\ SlotsKept

\* Gc: the slots after the cursor, slot 0 passed over.  The engine puts each
\* slot it frees at the head of the free list; its errors are swallowed.
MaxAccounts == Cardinality(Accounts)
GcLength == Lesser(GC_CLOSE_BUDGET, MaxAccounts)
GcScan == [k \in 1..GcLength |-> (gc_cursor + k) % MaxAccounts]

GcEligible(e, i) ==
    /\ i # PROTOCOL_LP_SLOT /\ i \in e.used
    /\ Untouched(e.acc[i]) /\ e.acc[i].pnl = 0
    /\ e.acc[i].capital < min_initial_deposit

Reclaimed(g, e, i) == IF Ok(e) THEN [eng |-> e, free |-> <<i>> \o g.free] ELSE g
GcOne(g, i) == IF GcEligible(g.eng, i) THEN Reclaimed(g, ReclaimOp(g.eng, i, clock), i) ELSE g

GcSwept == FoldLeft(GcOne, [eng |-> eng, free |-> free], GcScan)

GcDone(g) ==
    /\ g.eng.used # eng.used
    /\ Worked(g.eng)
    /\ owner' = [i \in Accounts |-> IF i \in g.eng.used THEN owner[i] ELSE NoOne]
    /\ free' = g.free
    /\ gc_cursor' = (gc_cursor + GcLength) % MaxAccounts

CrankGc == GcDone(GcSwept)

\* AdlReset: a settlement of slot 0, or of the first used slot; without a
\* change of mode the call is an error.
AdlResetCall == SettleOp(eng, First(eng.used), clock, eng.last_oracle_price, 0, Pair)

AdlResetDone(e) ==
    /\ \E s \in Side : e.side[s].mode # eng.side[s].mode
    /\ Worked(e)
    /\ SlotsKept

CrankAdlReset ==
    /\ eng.used # {}
    /\ AdlResetDone(AdlResetCall)

-----------------------------------------------------------------------------
(* The environment: slots pass, the oracle program publishes a price.      *)

Tick ==
    /\ Spend("tick") /\ clock < MaxSlot
    /\ clock' = clock + 1
    /\ UNCHANGED <<eng, tokens, feed>> /\ SlotsKept

Publish(price) ==
    /\ Spend("publish")
    /\ feed' = [price |-> price, slot |-> clock]
    /\ UNCHANGED <<eng, tokens, clock>> /\ SlotsKept

UserStep ==
    \/ \E u \in Users, amount \in Amounts : Deposit(u, amount) \/ Withdraw(u, amount)
    \/ \E amount \in Amounts : BootstrapLp(amount)
    \/ \E u \in Users, s \in Side, size \in Sizes : PlaceOrder(u, s, size)

CrankStep == CrankFunding \/ CrankGc \/ CrankAdlReset

Instruction ==
    \/ UserStep
    \/ \E i \in Accounts : Liquidate(i)
    \/ CrankStep

Published == \E price \in Prices : Publish(price)

Next == Instruction \/ Tick \/ Published

Spec == Init /\ [][Next]_vars

(***************************************************************************)
(* Slots go on.  Liquidate and Crank are open to anyone and pay for        *)
(* themselves: whoever keeps sending them is served, which is weak         *)
(* fairness of these calls with their enabledness written out (TLC takes   *)
(* exponential time for ENABLED of an engine call).  Users owe nobody a    *)
(* transaction.                                                            *)
(***************************************************************************)
FundingDue == clock > eng.last_market_slot /\ Ok(FundingCall)
GcDue == GcSwept.eng.used # eng.used

ModeChanges(e) == Ok(e) /\ \E s \in Side : e.side[s].mode # eng.side[s].mode
AdlResetDue == eng.used # {} /\ ModeChanges(AdlResetCall)

LiquidateDue(i) == LiquidateGuard(i) /\ Ok(LiquidateCall(i))

FairSpec ==
    /\ Spec
    /\ WF_vars(Tick)
    /\ []<><<CrankFunding>>_vars \/ []<>~FundingDue
    /\ []<><<CrankGc>>_vars \/ []<>~GcDue
    /\ []<><<CrankAdlReset>>_vars \/ []<>~AdlResetDue
    /\ \A i \in Accounts : []<><<Liquidate(i)>>_vars \/ []<>~LiquidateDue(i)

-----------------------------------------------------------------------------
(* Properties *)

\* The token account of the vault holds exactly what the engine believes,
\* and the books are exact: every transfer has its write to engine.vault, and
\* the bounties, which the program takes out of the engine's fields by hand,
\* past set_capital and the engine's postconditions, leave C_tot the sum of
\* the capitals and V above C_tot and the insurance fund.
BooksExact ==
    /\ tokens = eng.vault
    /\ eng.c_tot = Sum([i \in Accounts |-> eng.acc[i].capital])
    /\ eng.vault >= eng.c_tot + eng.insurance

\* A user never owns two slots, whatever was collected and claimed again in
\* between, so the owner scan finds the account with the user's money; the
\* free list holds exactly the slots without an owner; and a user that took
\* slot 0 before BootstrapLp is nobody's counterparty (LpNotBootstrapped).
OwnersSound ==
    /\ \A i, j \in eng.used : owner[i] = owner[j] => i = j
    /\ \A i \in Accounts : owner[i] # NoOne <=> i \in eng.used
    /\ ToSet(free) = Accounts \ eng.used /\ Len(free) = Cardinality(Accounts \ eng.used)
    /\ owner[PROTOCOL_LP_SLOT] # LP => \A i \in Accounts : eng.acc[i].position_basis_q = 0

\* A flat user without PnL or debt gets the whole capital back at any time:
\* with a dead feed, and when nobody has cranked for longer than the accrual
\* envelope.
FlatUserCanExit ==
    \A u \in Users : OwnSlots(u) # {} =>
        LET a == eng.acc[First(OwnSlots(u))]
        IN  Untouched(a) /\ a.pnl = 0 /\ a.fee_credits = 0 /\ a.capital > 0 =>
                Ok(WithdrawCall(u, a.capital)) /\ tokens >= a.capital

\* Three things the program's instructions take from nobody.  The capital of
\* a flat user above the dust limit shrinks only in the user's own withdrawal
\* or order, not in a liquidation, a crank or another user's order; the
\* liquidity provider's slot is not collected, even when it has run dry;
\* neither absorbed losses nor bounties take the insurance fund below its
\* floor.
ByOwner(u) ==
    \/ \E amount \in Amounts : Withdraw(u, amount)
    \/ \E s \in Side, size \in Sizes : PlaceOrder(u, s, size)

FlatFundsKept ==
    \A u \in Users : \A i \in OwnSlots(u) :
        LET a == eng.acc[i]
        IN  /\ Untouched(a) /\ a.pnl = 0 /\ a.fee_credits = 0
            /\ a.capital >= min_initial_deposit
            /\ eng'.acc[i].capital < a.capital
            => ByOwner(u)

LpSlotKept == owner[PROTOCOL_LP_SLOT] = LP => owner'[PROTOCOL_LP_SLOT] = LP

FloorKept == eng'.insurance >= Lesser(eng.insurance, insurance_floor)

TakenFromNobody == [][FlatFundsKept /\ LpSlotKept /\ FloorKept]_vars

(***************************************************************************)
(* What the documents say of the program.                                  *)
(***************************************************************************)
\* README: "No admin intervention. No governance vote. The state machine
\* always makes progress": a side that waits for its reset reopens.
SidesReopen ==
    \A s \in Side : eng.side[s].mode = "ResetPending" ~> eng.side[s].mode = "Normal"

\* Crank(Gc) sweeps dust ("Sweep dust / flat-clean accounts", CrankKind::Gc):
\* an account that stays dust is collected by a keeper that keeps cranking.
DustReclaimed == \A i \in Accounts : GcEligible(eng, i) ~> ~GcEligible(eng, i)
=============================================================================
