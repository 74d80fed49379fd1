# Percolator: TLA+ verification project

Percolator is a perpetual-futures risk engine (`src/src/percolator.rs`) with an
on-chain program around it (`src/program`), an oracle feed program
(`src/oracle`) and an off-chain keeper (`src/keeper`).  This directory holds
TLA+ modules that model all four, TLC configurations that check them on small
instances, and TLAPS proofs.

## 1. The system

| Component | State | Operations | Hard behaviour |
|---|---|---|---|
| Account slab (`percolator.rs` 1041-1276, 5382-5458) | bitmap, doubly linked free list, counters, collector cursor | `materialize_at`, `free_slot`, `garbage_collect_dust` | long sequences of claims and frees; slots outside the market's range; cursor and budget |
| Warmup reserve (1291-1588, 3143-3456) | per account: PnL, reserved PnL, scheduled and pending bucket; totals `pnl_pos_tot`, `pnl_matured_pos_tot` | `set_pnl_with_reserve`, admission, `advance_profit_warmup`, `consume_released_pnl` | order of gains, losses, promotions and releases |
| Sides (1820-2803) | per side: A, K, F, epoch and epoch-start indices, open interest, mode, counts, dust bound | `accrue_market_to`, `enqueue_adl`, resets | lazy settlement against moving indices, precision loss, stale accounts of an earlier epoch |
| Instructions (3534-5722) | capital, insurance, vault, clock, context of the instruction | deposit, withdraw, settle, trade, liquidate, crank, convert, close, reclaim, fees, resolve, force close | any order, any price, rounding against the vault, partial failure |
| Listing (`program/src/processor.rs` 106-321, 1476-1735) | slab header, engine region, treasury | CreateSlab, CreateMarket, InitializeEngine | replays and races of permissionless instructions; two validators of one parameter set, the second of which panics |
| Program (`program/src/processor.rs` 323-1474) | the engine region, owner keys, the vault's token balance | BootstrapLp, Deposit, Withdraw, PlaceOrder, Liquidate, Crank | a transaction that fails is rolled back, cursor included; bounties written into the engine's fields by hand; a feed that goes stale |
| Oracle feed (`oracle/src`) | ring of prices, source, graduation flag | InitializeFeed, Update, Graduate, ConvertSource | staleness, median over a partly filled ring, prices of two sources in one ring, compounding with truncation |
| Keeper (`keeper/src/strategy.rs`) | none (one snapshot) | `decide` | head-of-line order of its rules; the snapshot is old when the transaction lands |
| Arithmetic (`wide_math.rs`, `i128.rs`) | none | 256-bit integers, mul-div with floor and ceiling | limb carries, division |

The engine is a sequential library.  Concurrency enters through the order in
which users, keepers and the operator get their transactions in; failure
through transactions that return an error and are rolled back by the runtime.
The program calls the engine with the clock's slot and a price read from the
oracle feed; the keeper looks at a snapshot and sends one transaction.

What makes each part correct:

* slab: the list and the bitmap agree, no slot is lost, the head is always one
  the market may use, collection reaches all dust, users never share a slot;
* reserve: buckets add up to the reserved PnL, released claims are exact and
  grow beyond what backs them only through the schedule;
* sides: open interest covers the positions, a stale position belongs to the
  epoch just ended, blocked sides do not grow, a waiting side reopens;
* instructions: no `CorruptState`, aggregates are sums, senior money is never
  used for junior claims, no money is made, no call bricks the market, a flat
  user can leave;
* resolution: one payout ratio, fixed after all losses; everybody gets out;
* listing: a listed market is paid for once and fixed; no parameters make the
  engine panic;
* program: the token account agrees with the engine, a flat user's money is
  touched by nobody else and can leave with a dead feed, the insurance floor
  holds, a market left alone for long can be got going again;
* oracle: the published price is the median of the last prices of one source;
* keeper: every rule it has gets its turn;
* arithmetic: limbs compute what integers do.

## 2. Modules

| Module | Models | How |
|---|---|---|
| `Slab` | slab of the engine | variables are the fields of `RiskEngine`; account contents are one bit, `dust` |
| `SlabProofs` | | proofs about `Slab`, for every number of slots |
| `ReserveOps` | reserve helpers | operators from an account record to an account record |
| `Reserve` | one account's PnL and reserve | the helpers called in any order; other accounts and the vault are an arbitrary environment |
| `ReserveProofs` | | proofs about `Reserve`, for every horizon range and all PnL values |
| `EngineState` | `RiskEngine`, `Account`, `InstructionContext`, setters, equity and haircut queries | the engine is one record |
| `EngineSides` | accrual, deleveraging, resets | operators from an engine record to an engine record |
| `EngineTouch` | touch, finalisation, liquidation, trade legs, keeper hints | " |
| `EngineOps` | one operator per public instruction | " |
| `Engine` | the state machine: `Init`, one action per instruction, properties | variable `eng` is the engine, `corrupt` remembers a `CorruptState` |
| `FoldLemmas` | | induction over the naturals and finite sets, folds and sums; used by the proofs |
| `EngineOpsProofs` | | what every helper and instruction of `EngineOps` preserves |
| `EngineProofs` | | proofs about `Engine`, for every number of accounts, scale, limit, opening and argument |
| `PriceWindow` | what a feed promises | abstract: a window of the last prices and its lower median, defined by counting |
| `Oracle` | the oracle program | variable `feed` is the account; `origin` is a history variable that remembers where each price of the ring was read |
| `OracleProofs` | | proofs about `Oracle`, for any number of sources and any ring |
| `Dlmm` | the DLMM reader of the oracle | operators; the compounding is a fold over the bins |
| `Listing` | CreateSlab, CreateMarket, InitializeEngine | per slab: the allocation, the header, the engine region |
| `ListingProofs` | | proofs about `Listing`, for any number of slabs and payers and all parameters |
| `Program` | the money instructions of the program | extends `EngineOps`: each instruction calls the engine's operator and moves tokens; variables are the engine, owners, free list, cursor, tokens, clock and feed |
| `Keeper` | `decide` and the loop around it | extends `Program`; `pending` is the action decided on and not yet submitted; `oracle` is what decides whether Oracle.Update is accepted: the kind of the source, whether the feed graduated, whether the source shows a price |
| `ProgramProofs` | | proofs about `Program` and `Keeper`, for every table, key set and argument |
| `WideMath` | the two-limb U256, I256, U512, and `compute_kf_pnl_delta` on them | a number is a pair (quadruple) of limbs of `BITS` bits: the u128 halves `lo()`, `hi()` on which the production code computes |
| `Arithmetic` | | calls of the functions of `WideMath` and `Dlmm`, and what integers say they return |
| `MC*` | instances for TLC | |

`EngineState` extends `ReserveOps`, so the reserve rules that `Reserve` checks
in depth for one account are the ones the whole engine runs on.  `Program`
extends `EngineOps` and `Keeper` extends `Program`, so the keeper runs against
the program and the program against the whole engine: nothing of the layer below
is abstracted away.  `Program` has the free list of the slots in the market's
range only; the slots beyond it are the business of `Slab`.  `Oracle` extends
`Dlmm`, so that a feed on a DLMM pool reads what the reader computes.

**Refinement.**  `Oracle!ImplementsWindow` maps the feed to `PriceWindow`: the
window is the ring read from the cursor on, without the empty slots; the source
quoted is the pair of account and kind; `closed` is the graduation flag; `dead`
says that a graduated feed still quotes a curve, and forbids `Observe`.  An
Update maps to `Observe`, InitializeFeed and ConvertSource to `Restart`, Graduate
to `Close`; slots that pass and curves that complete are stutters.  The abstract
median counts instead of sorting, so the insertion sort is checked along with
the ring.

**Results.**  A function of the source takes `&mut self` and returns a
`Result`.  In the engine modules it is an operator on the engine record, whose
field `err` is `"none"`, `"Reject"` or `"Corrupt"`.  The first error stays, as
with the `?` of the source: a failed record passes through the rest of the
function and is discarded at its end.  A rejected call is no step, as the
runtime rolls it back.  A call that returns `RiskError::CorruptState` sets `corrupt`, and `NeverCorrupt` says that
this never happens.

**Data.**  Money, prices, quantities and indices are small integers.  The
scales of the source (`POS_SCALE`, `ADL_ONE`, the funding denominator, 10,000
basis points) are constants with small values, so that every floor and ceiling
of the source still rounds.  The 256-bit intermediate arithmetic is exact
integer arithmetic; the checks that a result fits 128 bits are kept with the
bound `I128_MAX`.

**Openings.**  A market starts from `Opened(o)`: deposits for the accounts that
have a capital, a top-up, trades.  `IsOpening` and `IsOwned` say what an opening
is; the proofs hold for all of them.  What the source does in a loop over account
indices (finalisation, the deposits) is the fold `InOrder`, lowest index first.

**Scenes and budgets.**  `Engine` is one specification for several situations.
The constant `Scenes` maps the name of a scene to the markets it may start from,
the arguments calls may be given and how often each kind of instruction may be
called; the variable `scene` is fixed at the start and `left` counts down.  Both
bound the state space and model nothing.  `SettleNow` and `ForceClose` are not
budgeted: they are what a keeper repeats.  In `Program` every opening brings its
own budget for users, clock and publications; cranks and liquidations have none.

**Variants.**  A definition `V_X` is `X` with one plausible slip.  No
specification uses them.  Replacing `X` by `V_X` must break the property that
PROJECT.json pairs with it; this shows that the property can fail.

## 3. Runs

| Run | Instance | What it shows |
|---|---|---|
| `slab` | 8 slots, 4 of them in the market's range, scans of 4, 2 closes | list, counters, head and collector are sound, no slot leaks; `DustCollected` under fairness |
| `reserve` | PnL -1..3, horizons up to 3, four slots of time | bucket shape, exact totals, schedule, `UnbackedOnlyByWarmup` |
| `sides` | 3 accounts in three scenes: deleveraging and resets with stale accounts; candidate lists with accepted and refused hints; resolution in both modes | open interest, epochs, `LiquidationNeverBlocked`, `PayoutAfterLosses`; `ResetCompletes` and `ResolvedDrains` under fairness |
| `money` | 2 accounts in three scenes: profit from gain to withdrawal; funding of both signs with steps of 0 to 2 slots; deposits, fees, closes and reclaims | aggregates, `ClaimsBacked`, `BalancedBooks`, `NeverBricked`, `NothingStranded` |
| `withdraw_margin` (violation) | the profit scene | finding 2 below |
| `oracle` | 2 sources, ring of 3, words 0..3 | refinement of `PriceWindow`, `RingOfOneSource`; `RevivedByConversion` under the keeper's fairness, if outsiders convert dead feeds |
| `listing` | 2 slabs, 2 payers, any order and replay; every parameter set that differs from a valid one in up to two fields, across its bounds | `MarketIsFixed`, `ListingsSound`, `NeverPanics` |
| `keeper` | one keeper, LP and 2 users, 3 slots: a new market and markets with positions, feed moving, going stale and refusing its updates, snapshots that age | `BooksExact`, `OwnersSound`, `FlatUserCanExit`, `TakenFromNobody`; `KeepsCurrent`, `DustCollected` under fairness |
| `gc_sweep` (violation) | flat users, collector's budget shorter than the table | finding 1 |
| `reopen` (violation) | a side that is reset with a position left on it | finding 3 |
| `arithmetic` | limbs of 4 bits, 5 values per limb, all pairs and divisors; DLMM prices of 4 bits, up to 5 bins | exactness of every function, error bound of the reader |
| `wide_mul` (violation) | the same | finding 4 |

**Why the bounds are enough.**  Three accounts are the least with which a
deleveraging hits an account that is neither party of the liquidation and an
account of the old epoch meets a new one; two suffice for questions of one
gain against one loss.  `ADL_ONE = 4` with `MIN_A_SIDE = 2` makes a single
partial deleveraging lose precision and a second one cross the threshold into
`DrainOnly`.  Prices 1, 2 and 4 make an account healthy, unhealthy and bankrupt.
In `slab` half of the slots are outside the market's range and a scan stops
both at its length and at the close budget.  A ring of 3 fills, wraps and has
both an even and an odd number of prices.  Limbs of 4 bits have the halves of 2
bits in which the widening product can carry from either cross term, and the
values per limb are the ends, the sign bit and a full half.  In `keeper`
the envelope is one slot and the clock passes two, so that a market falls
behind it; the collector's budget is the whole table, so that finding 1 does not
hide the rest.  Two changes of the source let its curve graduate and its reserves
vanish, in either order, and price 5 is beyond `MAX_ORACLE_PRICE`: the oracle
publishes it and the program refuses it.  `listing` varies two fields of the parameters because each check
compares at most two.  Every engine and program instance starts from a
market opened through the instructions themselves (`Opened`).

**Deadlock.**  The engine and program instances end when their budget is used up
or the market has no accounts left, so deadlock is not checked there; it is in
the slab, reserve and oracle runs.  A listing run ends when every slab is live,
an arithmetic run after one call.

**Fairness.**  `Slab!FairSpec`: a caller that keeps calling
`garbage_collect_dust`, which cannot fail.  `Engine!FairSpec`: `settle_account`
and, after resolution, `force_close_resolved` are permissionless in the engine, so a keeper that serves every account
eventually makes each call that still changes something.  Its enabledness is
written out (`Moves`, `SettleMoves`), since evaluating ENABLED of an
instruction is too expensive for TLC.  Without that keeper `ResetCompletes` does
not hold: a side waits for its stale accounts.  The program offers no such
instruction to a keeper, see finding 3.  `Oracle!FairSpec`: the keeper sends Update when the
feed is stale.  Nothing in the repository sends Graduate or ConvertSource, so they have no
fairness: `RevivedByConversion` names what it assumes of outsiders (`OutsidersConvert`),
and that asks nothing of them unless the feed names a curve that is gone.  In `Oracle`
a source always has some readable price, which is up to other programs; `Keeper` has the
sources that have none.  `Program!FairSpec`: slots pass, and
Liquidate and the cranks are permissionless and pay for themselves, so each that
keeps being possible is eventually sent; users owe nobody a transaction and get
no fairness.  `KeeperSpec`: the keeper's loop does not stop; everyone else
may send the same calls, and need not.  Nobody is assumed to publish a price, to
graduate or convert a feed, or to refill a source: `KeepsCurrent` and
`DustCollected` therefore except a feed that is stale and refuses its updates
(`FeedStuck`).

## 4. Proofs

Every theorem holds for all values of the constants that the `ASSUME`s of the
models allow; those say what `validate_params` and the constants of the source
say (`EngineAssumption`, `HorizonAssumption`, `SlabAssumption`,
`ListingAssumption`, ...) and what kind of value a call may be given
(`ScenesAssumption`, `ProgramAssumption`, `OracleAssumption`).  The bounds of the
runs are among the constants, so they bound nothing here.

**Slab.**  `SlabProofs` proves `SlabTypeCorrect` (the type invariant, which
no run repeats), `FreeListConsistent`, `SlabNeverCorrupt`, `SlabCountsExact`,
`AllocatorNeverStuck` and `NoSlotLeaks`.

None of the properties is inductive alone.  `NeverCorrupt` needs the list to be
consistent where a slot is unlinked (`LinksConsistent`) and the counters to be
exact where one is decremented (`CountsExact`).  `NeverStuck` needs to know that
the slots beyond the market's range stay at the end of the list: no such slot
points back into the range (`RangeSeparated`), which claims preserve because
they only unlink slots of the range, and frees because they only push such
slots.  The inductive invariant is the conjunction with `Acyclic`; each action
has one step and each conjunct that it disturbs a step below it.  A collection
frees several slots in one step: `PushNext` and `PushPrev` describe the list after
all of them, and lemmas about these two functions carry the argument.  `NoLeak`
follows the list: the rank of `Acyclic` rises along it, so its slots are distinct
and it ends within the slab, and a free slot of least rank that it missed would
have its predecessor on it.

**Reserve.**  `ReserveProofs` proves `ReserveTypeCorrect`, `ReserveShapeKept`,
`ReserveTotalsExact`, `ReserveOnSchedule`, `ReserveNeverCorrupt` and the action
property `ReserveAdmissionSound`.

The argument goes bottom up.  Three facts about floor division give the bounds
of the linear schedule and its monotonicity in time.  One lemma per helper
(`PromoteFacts`, `AppendFacts`, `TakeFacts`, `AdvanceFacts`, `PnlSetFacts`) says
what it does to an account whose buckets are well formed and on schedule: it
stays so, and the reserve moves by exactly the amount asked for.  `ReserveInv`
adds to the properties what they need to be inductive: that the bucket is on
schedule (else `advance_profit_warmup` could find that it has released more
than the schedule says), that the reserve fits in the positive PnL in the
resolved mode too (`consume_released_pnl` checks it there, after the shape is no
longer kept), and that the rest of the market has released no more than it has,
and everything after resolution (else the matured total could pass the positive
total).  `ReserveAdmissionSound` needs one lemma more, `AdvanceBound`: a bucket
promoted by the same call releases nothing in its first slot.

**Engine.**  `EngineProofs` proves `AggregatesAreExact`, `ClaimsAreBacked`,
`PayoutComesAfterLosses`, `NothingIsStranded`, `StaleIsCounted` and `OpenInterestIsCovered` of
`Engine`.  They follow from one invariant, `EngineInvariant`: the engine is the `Result` of an
instruction.

* `Good`: the fields have their types, and the `Books` are in order: C_tot, both
  PnL totals, the count of negative accounts and the position counts are sums
  over the accounts, no account is overdrawn or has reserved more than it gained,
  and an unused slot holds nothing.  The last is what makes claiming a slot keep the sums.
* `Market`: the vault covers C_tot and the insurance; an empty market holds its
  insurance and nothing else; open interest needs a position (`Cleared`, which
  `ReadyToReopen` and the end of every instruction restore); a resolved market
  has no open interest; a payout ratio is there only when nobody has a position
  or a loss left; both sides have the same open interest (`Even`), and every
  position is of its side's epoch or, while the side waits for its reset, of the
  one before, all of them counted as stale (`Epochs`); the open interest of a
  live side stands for the positions on it (`Backed`).

`EngineOpsProofs` shows that every instruction returns such a record.  An
instruction is a chain of some ten helpers, each of which may fail and hand on a
record that the rest of the chain still passes through.  So a lemma relates the
record before a helper to the record after it, whether it failed or not:
`Sound` (the books stay, accounts keep their slots, the vault is left alone),
`Moved` (the same, but capital and vault may move together) and `Traded` (positions may be
opened).  These compose, and an instruction is the composition with a lemma for
its first and last steps.  Setters come first: `set_capital`, `set_pnl` in all its
reserve modes, `set_position_basis_q` keep the sums (`SumUpdate`); then settlement, accrual, deleveraging,
resets, trade legs, liquidation, the crank over a list of candidates of any length,
and `Opened`, so that the markets the runs start from satisfy the invariant
for any deposits and trades.

`FoldLemmas` holds what these need about folds: the induction theorems of the
library take an operator as parameter, the lemmas here a set, `NatSetInduction`
and `SetInduction`.  With them a function defined by recursion over the subsets of a finite set is
shown to exist and to be the one that `MapThenFoldSet` means, and a sum to follow
the change of one term, to be monotone, and to count.

`EpochLag` is the one with an order of its own.  `Epochs` holds at the ends of the
helpers (`Kept`) and not inside those that settle a stale position or open one: the basis, the
snapshot and the count change one after the other.  Those parts are related by `Written` and
`Drafted`, which leave `Epochs` out, and a lemma per helper puts it back:
`SettleStaleSound` (the count falls by the one position that left),
`BeginResetSound` and `ReopenSound` (a side ages when it has no open interest,
and reopens when nobody is left), `CloseDownSound` (a position that has an effective size is of the
current epoch).  The hard case is a trade, which attaches positions at the
current epoch: it must not do so while the side waits.  `check_side_mode_for_trade`
refuses an order only when it makes the side's total larger, so it is `Even` that closes
the gap (`GatesNoneWait`): a waiting side has no open interest, so neither has the other; then
neither trader has an effective position, and the order makes both sides larger.

`OpenInterestCovered` bounds the open interest by effective positions, which are rounded
down: the basis times the side's A over the A the position was taken at.  That is not
inductive: when A and the open interest shrink in proportion, the rounded positions do
not.  The invariant bounds the open interest from below by the *exact* shares, and from
above by the rounded ones and the dust bound (`Covers` in `FoldLemmas`).  A sum of
fractions with a denominator per account is no integer, so `Covers` asks for a common
denominator n and numerators w, and says that A times the sum of w is at most n times the
open interest; the proofs construct the new n and w.

A position that leaves takes its rounded share off the open interest, which is no more
than its exact one, so the others stay covered (`CoversDropped`, `ClosedBacks`); one taken at the
current A adds a whole number (`CoversAdded`); a position that A has shrunk to nothing
can be closed without touching the open interest (`BacksClosed`).  In `enqueue_adl` the
new A is rounded down, so the lower bound survives, and the upper one loses at most a
unit per position and the part of the open interest that the lost fraction of A stands
for (`CoversShrunk`): both are within the two terms that the code adds to the dust
bound (`ShrunkCovers`).  Within an instruction there are moments where this does not hold: a side that is to
be reset has lost its open interest and not yet its positions.  So the helpers keep `Covered`,
which exempts the sides in `pending_reset`; the end of an instruction resets those and
gives back `Backed` (`EndSound`), which the next instruction starts from.

`ClaimsBacked` is the other one with arithmetic of its own: each account's share
of the released profit is rounded down, so their sum is at most the residual times
the matured total over the matured total (`SumMonotone`, `SumScale`).

**Program.**  `ProgramProofs` proves `BooksAreExact` and `OwnersAreSound` of
`Program`, and `KeeperIsSafe`, both of `Keeper`.  `Solvent` says that the engine
is a `Result` and that the token account holds the vault.  The program
moves bounties and fees past the engine's setters, so each such move is shown
to keep the sums and the vault above the claims.  `Owners` relates keys, slots in use and
the free list, as a sequence without repetition; `OwnersSound` counts its
elements.  It needs one fact more to be inductive, that an account can have a
position only when slot 0 is the LP's, which every instruction keeps because
each helper keeps `Flat` and only PlaceOrder trades.  The collector is a fold over the
slots it scans that carries the engine and the free list together.

`NothingIsTaken` and `KeeperTakesNothing` prove `TakenFromNobody` from the same
invariant.  Each helper is shown to spare (`Spares`) every account outside those
it is about, to keep the insurance fund at or above its floor or where it was, and
to leave the accounts it touched at rest if they were (`Restful`): finalisation
writes every touched account, and is the identity on one with neither position
nor PnL.  A liquidation may name an account at rest, but the touch finds it healthy
and the call is an error (`DidLiquidate`); the settlement of AdlReset may touch one,
and leaves it as it was.  The collector frees only slots below
the dust limit, so its fold spares all others (`NotDust`), and it skips slot 0.

**Listing, oracle.**  `ListingProofs` proves `ListingsAreSound`, `MarketsAreFixed`
(an action property) and `InitializeNeverPanics`.  The last is a statement about
two validators over all naturals; it rests on the limits of the engine's
constants being at most 10,000 basis points, as the source has them.  `OracleProofs`
proves `RingIsOfOneSource`: a restart empties the ring and its origins, and an
observation writes one slot, at a cursor that stays in the ring.

**Only model-checked.**

* Liveness under fairness: `DustCollected` (slab and keeper), `ResetCompletes`,
  `ResolvedDrains`, `RevivedByConversion`, `KeepsCurrent`.
* `ImplementsWindow`: it compares `SelectSeq` on a ring read from a moving cursor,
  and a sorted sequence with a median found by counting; both are inductions
  over the length of a sequence that the refinement would need at every step.
* `BalancedBooks`: it adds the PnL that positions have accrued and not settled,
  each rounded towards minus infinity, over accounts with snapshots of different ages; the
  invariant would have to follow the two sides' K through every mark at once.
* `NeverCorrupt` of the engine, `NeverBricked`, `LiquidationNeverBlocked`,
  `FlatUserCanExit`: they say that calls succeed, so a proof has to follow every
  guard of every helper, not what a call preserves; with unbounded counters some guards (the `I128_MAX`
  bounds) really fail, and the scenes keep the runs away from them.
* The exactness of `Dlmm` and `WideMath`: statements about powers of two for a
  given width.

## 5. Findings

1. **Crank(Gc) can miss dust for ever** (`gc_sweep`).  The crank looks at
   `min(GC_CLOSE_BUDGET, max_accounts)` slots after the cursor.  When none of
   them is dust it returns `NothingToDo`; the transaction, and with it the
   cursor it has just stored, is rolled back.  The next call looks at the same
   slots.  With 4096 slots and a budget of 32, dust beyond the next 32 slots
   stays until one of those becomes dust.  The collector of the engine
   (`garbage_collect_dust`), which keeps its cursor, has no such problem
   (`slab`, `DustCollected`), but the program does not call it.
2. **Withdrawal margin** (`withdraw_margin`).  The comment in
   `withdraw_not_atomic` says that the equity it checks excludes released
   profit; `account_equity_withdraw_raw` includes it after the haircut.
3. **A side can wait in ResetPending for ever** (`reopen`).  Only slot 0 is settled
   by Crank(AdlReset); a healthy account of the old epoch in another slot is
   settled by its owner's instructions only.
4. **`checked_mul_i256` has the wrong limit for negative products** (`wide_mul`).
   The magnitude of MIN is built in the low limb.  The callers in the engine
   stay below it at the configured maxima.

Smaller disagreements between code and comments, met while modelling and
translated as the code has them:

* `process_convert_source` (`oracle/src/processor.rs` 287) does not look at the
  new kind, so a graduated feed can be converted to a curve, which the comment at
  `state.rs` 69 excludes.  It then refuses updates until it is converted again;
  `RevivedByConversion` shows that it always can be.
* Nothing clears `graduated`, so a feed that was converted to a pool may be
  converted again, although the comment at `oracle/src/processor.rs` 280-281 says
  that only graduated bonding-curve feeds may be.
* The cap of 10,000 bins (`oracle/src/processor.rs` 413) is not saturation as
  lines 410-411 say: with bins of one basis point the price there is e times the
  base price.
* The side gate of PlaceOrder (`program/src/processor.rs` 918) looks at the user's
  side only, while lines 893-896 and `SECURITY.md` 107-108 want it equal to the
  engine's; the engine still rejects the order.
* The keeper's estimate (`strategy.rs` 158) misses losses that are accrued but not
  settled (against line 71).  Its reset rule (179) waits for DrainOnly with no
  open interest, which no instruction leaves behind, instead of ResetPending
  (49-50).  A candidate that the engine finds healthy heads the list at every
  tick (166) and holds up the rules below it (72, 100-101); this is the exception
  `Candidates # {}` in `KeepsCurrent` and `DustCollected`.  It takes a price beyond
  `MAX_ORACLE_PRICE` for a fresh one, which the program refuses
  (`program/src/processor.rs` 1616); `KeepsCurrent` excepts such a price.
* A stale feed makes `decide` return `RefreshOracle` and look at nothing else
  (`strategy.rs` 78-82).  Oracle.Update is refused for a curve that has graduated
  and for a source without a price (`oracle/src/processor.rs` 158-165), and no
  action of the keeper graduates or converts a feed, so it repeats a refused
  transaction until an outsider repairs the feed.  The comment (69-70) says that
  every decision below needs a fresh price; the cranks read no feed
  (`CrankFunding` in `Program` accrues at the last price the engine saw), and the
  program would accept them all the while.  This is the exception `FeedStuck` in
  `KeepsCurrent` and `DustCollected`.

## 6. Not modelled

* Account validation (signers, owners, addresses), Borsh encoding, PDA
  derivation, the bytes of foreign accounts, token CPIs beyond the balance they
  move: I/O, and each can only add an error that rolls the instruction back.
* `i128.rs`: layout shims without logic.  `main.rs` of the keeper: it prints its
  configuration and has no loop.
* `wide_math.rs`: the saturating helpers, the fee-debt conversions,
  `wide_signed_mul_div_floor` and its K-pair variant, and the duplicate
  over `[u128; 2]` for Kani (production stores four u64).
* `MAX_ACCOUNT_NOTIONAL`, `MAX_PROTOCOL_FEE_ABS`, the 64-entry touched set,
  `last_crank_slot` (written, never read by the engine), matcher fields.

## 7. Plan

Done: all components of section 2 modelled and checked; proofs about the slab, the
reserve, the engine's money and open interest, the program's books, its owners and
what it takes from nobody, the keeper, the listing and the oracle's ring.  What is
left is proofs, in this order:

1. `BalancedBooks`, from an invariant on K and F of both sides.
2. `WideMath`: `checked_add`, `checked_sub` and the signed sums for every width.
