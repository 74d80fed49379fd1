------------------------------ MODULE Listing ------------------------------
(***************************************************************************)
(* How a market comes to exist (src/program/src/processor.rs): a client    *)
(* allocates a slab account, CreateSlab or the paid CreateMarket writes    *)
(* its header, and InitializeEngine, signed by the creator on record,      *)
(* validates the risk parameters and builds the engine in place.  Anyone   *)
(* may send any of these for any slab, in any order and again.             *)
(*                                                                         *)
(* The wrapper's validate_risk_params stands in front of the engine's      *)
(* validate_params, which panics: both are modelled, check by check.       *)
(***************************************************************************)
EXTENDS Integers, FiniteSets

CONSTANTS
    Slabs, Payers,
    Keys,           \* what may be passed as mint or oracle; nothing is checked of them
    Zero,           \* Pubkey::default()
    VaultBumps,     \* the bumps that lead to a vault address, for every slab
    Bumps,          \* the bumps a client may pass
    Fees,           \* the fees a client may declare
    Purse,          \* lamports each payer starts with
    Params, InitPrices,      \* the risk parameters and prices a client may pass
    ParamSpace, PriceSpace,  \* ... and the ones the validators are compared on
    MIN_MARKET_CREATION_FEE_LAMPORTS,
    MAX_ACCOUNTS, MAX_MARGIN_BPS, MAX_TRADING_FEE_BPS, MAX_LIQUIDATION_FEE_BPS,
    MAX_VAULT_TVL, MAX_PROTOCOL_FEE_ABS, MAX_RESOLVE_PRICE_DEVIATION_BPS,
    MAX_ABS_FUNDING_E9_PER_SLOT, MAX_ORACLE_PRICE, ADL_ONE, I128_MAX

\* The parameters the validators look at; every field is unsigned.
RiskParams ==
    [max_accounts : Nat, max_active_positions_per_side : Nat, maintenance_margin_bps : Nat,
     initial_margin_bps : Nat, trading_fee_bps : Nat, liquidation_fee_bps : Nat,
     min_nonzero_mm_req : Nat, min_nonzero_im_req : Nat, min_initial_deposit : Nat,
     min_liquidation_abs : Nat, liquidation_fee_cap : Nat, insurance_floor : Nat,
     h_min : Nat, h_max : Nat, resolve_price_deviation_bps : Nat,
     max_accrual_dt_slots : Nat, max_abs_funding_e9_per_slot : Nat,
     min_funding_lifetime_slots : Nat]

ASSUME ListingAssumption ==
    /\ Zero \notin Payers /\ IsFiniteSet(Slabs)
    /\ Fees \subseteq Nat /\ Purse \in Nat
    /\ MIN_MARKET_CREATION_FEE_LAMPORTS \in Nat \ {0}
    /\ Params \cup ParamSpace \subseteq RiskParams
    /\ InitPrices \cup PriceSpace \subseteq Nat
    /\ MAX_MARGIN_BPS \in Nat /\ MAX_MARGIN_BPS <= 10000
    /\ MAX_TRADING_FEE_BPS \in Nat /\ MAX_TRADING_FEE_BPS <= 10000
    /\ MAX_LIQUIDATION_FEE_BPS \in Nat /\ MAX_LIQUIDATION_FEE_BPS <= 10000

VARIABLES
    account,    \* per slab: what the client allocated
    header,     \* per slab: the SlabHeader
    engine,     \* per slab: the engine region: "zeros", "noise", or the live parameters
    lamports,   \* the payers' purses
    treasury

lvars == <<account, header, engine, lamports, treasury>>

ORIGIN_SEEDED == 0
ORIGIN_OPEN == 1

NoAccount == [owned |-> FALSE, sized |-> FALSE, exempt |-> FALSE]

EmptyHeader == [mint |-> Zero, oracle |-> Zero, creator |-> Zero, bump |-> 0,
                initialized |-> 0, vault_bump |-> 0, origin |-> ORIGIN_SEEDED]

LInit ==
    /\ account = [s \in Slabs |-> NoAccount]
    /\ header = [s \in Slabs |-> EmptyHeader]
    /\ engine = [s \in Slabs |-> "zeros"]
    /\ lamports = [p \in Payers |-> Purse]
    /\ treasury = 0

\* The client's system_instruction::create_account: any size, owner and funding, and
\* memory that need not be zero ("client-allocated memory may or may not be zeroed").
Allocate(s) ==
    /\ account[s] = NoAccount
    /\ \E a \in [owned : BOOLEAN, sized : BOOLEAN, exempt : BOOLEAN], r \in {"zeros", "noise"} :
           /\ account' = [account EXCEPT ![s] = a]
           /\ engine' = [engine EXCEPT ![s] = r]
    /\ UNCHANGED <<header, lamports, treasury>>

\* The header may be written: program-owned, of the exact size, rent-exempt, all zero.
Blank(s) ==
    /\ account[s].sized /\ account[s].owned /\ account[s].exempt
    /\ header[s] = EmptyHeader

SlabHeader_new(mint, oracle, creator, bump, vault_bump) ==
    [mint |-> mint, oracle |-> oracle, creator |-> creator, bump |-> bump,
     initialized |-> 0, vault_bump |-> vault_bump, origin |-> ORIGIN_SEEDED]

CreateSlab(s, payer, mint, oracle, bump, vault_bump) ==
    /\ Blank(s)
    /\ vault_bump \in VaultBumps
    /\ header' = [header EXCEPT ![s] = SlabHeader_new(mint, oracle, payer, bump, vault_bump)]
    /\ engine' = [engine EXCEPT ![s] = "zeros"]
    /\ UNCHANGED <<account, lamports, treasury>>

\* The floor on the fee is left to the frontend.
V_FeeAccepted(payer, fee) == fee <= lamports[payer]

\* The declared fee clears the floor, and the transfer finds the lamports.
FeeAccepted(payer, fee) == MIN_MARKET_CREATION_FEE_LAMPORTS <= fee /\ fee <= lamports[payer]

CreateMarket(s, payer, mint, oracle, fee, vault_bump) ==
    /\ Blank(s)
    /\ vault_bump \in VaultBumps
    /\ FeeAccepted(payer, fee)
    /\ lamports' = [lamports EXCEPT ![payer] = @ - fee]
    /\ treasury' = treasury + fee
    /\ header' = [header EXCEPT ![s] =
           [SlabHeader_new(mint, oracle, payer, 0, vault_bump) EXCEPT !.origin = ORIGIN_OPEN]]
    /\ engine' = [engine EXCEPT ![s] = "zeros"]
    /\ UNCHANGED account

(***************************************************************************)
(* The two validators.                                                     *)
(***************************************************************************)
PriceInRange(price) == price > 0 /\ price <= MAX_ORACLE_PRICE

\* The funding products are built in u128 by the wrapper and in U256 by the engine; a
\* product past u128 is past I128_MAX as well, so both reject it.
FundingFits(p, slots) ==
    ADL_ONE * MAX_ORACLE_PRICE * p.max_abs_funding_e9_per_slot * slots <= I128_MAX

\* The cumulative bound on funding is missing.
V_FundingAccepted(p) ==
    /\ p.max_accrual_dt_slots # 0
    /\ p.max_abs_funding_e9_per_slot <= MAX_ABS_FUNDING_E9_PER_SLOT
    /\ FundingFits(p, p.max_accrual_dt_slots)

FundingAccepted(p) ==
    /\ p.max_accrual_dt_slots # 0
    /\ p.max_abs_funding_e9_per_slot <= MAX_ABS_FUNDING_E9_PER_SLOT
    /\ p.min_funding_lifetime_slots >= p.max_accrual_dt_slots
    /\ FundingFits(p, p.max_accrual_dt_slots)
    /\ FundingFits(p, p.min_funding_lifetime_slots)

validate_risk_params(p, price) ==
    /\ PriceInRange(price)
    /\ p.max_accounts # 0 /\ p.max_accounts <= MAX_ACCOUNTS
    /\ p.max_active_positions_per_side # 0
    /\ p.max_active_positions_per_side <= p.max_accounts
    /\ p.initial_margin_bps # 0
    /\ p.maintenance_margin_bps <= p.initial_margin_bps
    /\ p.initial_margin_bps <= MAX_MARGIN_BPS
    /\ p.trading_fee_bps <= MAX_TRADING_FEE_BPS
    /\ p.liquidation_fee_bps <= MAX_LIQUIDATION_FEE_BPS
    /\ p.min_nonzero_mm_req # 0 /\ p.min_nonzero_mm_req < p.min_nonzero_im_req
    /\ p.min_nonzero_im_req <= p.min_initial_deposit
    /\ p.min_initial_deposit # 0 /\ p.min_initial_deposit <= MAX_VAULT_TVL
    /\ p.min_liquidation_abs <= p.liquidation_fee_cap
    /\ p.liquidation_fee_cap <= MAX_PROTOCOL_FEE_ABS
    /\ p.insurance_floor <= MAX_VAULT_TVL
    /\ p.h_min <= p.h_max /\ p.h_max # 0
    /\ p.resolve_price_deviation_bps <= MAX_RESOLVE_PRICE_DEVIATION_BPS
    /\ FundingAccepted(p)

\* The engine's assertions; a failed one is a panic.
validate_params(p) ==
    /\ p.max_accounts <= MAX_ACCOUNTS /\ p.max_accounts > 0
    /\ p.max_active_positions_per_side > 0
    /\ p.max_active_positions_per_side <= p.max_accounts
    /\ p.maintenance_margin_bps <= p.initial_margin_bps
    /\ p.initial_margin_bps <= 10000
    /\ p.trading_fee_bps <= 10000
    /\ p.liquidation_fee_bps <= 10000
    /\ p.min_nonzero_mm_req > 0 /\ p.min_nonzero_mm_req < p.min_nonzero_im_req
    /\ p.min_nonzero_im_req <= p.min_initial_deposit
    /\ p.min_initial_deposit > 0 /\ p.min_initial_deposit <= MAX_VAULT_TVL
    /\ p.min_liquidation_abs <= p.liquidation_fee_cap
    /\ p.liquidation_fee_cap <= MAX_PROTOCOL_FEE_ABS
    /\ p.insurance_floor <= MAX_VAULT_TVL
    /\ p.h_min <= p.h_max /\ p.h_max > 0
    /\ p.resolve_price_deviation_bps <= MAX_RESOLVE_PRICE_DEVIATION_BPS
    /\ p.max_accrual_dt_slots > 0
    /\ p.max_abs_funding_e9_per_slot <= MAX_ABS_FUNDING_E9_PER_SLOT
    /\ FundingFits(p, p.max_accrual_dt_slots)
    /\ p.min_funding_lifetime_slots >= p.max_accrual_dt_slots
    /\ FundingFits(p, p.min_funding_lifetime_slots)

\* The initialized flag is not looked at.
V_Initializable(s, creator) ==
    /\ account[s].owned /\ account[s].sized
    /\ ~(header[s].mint = Zero /\ header[s].oracle = Zero /\ header[s].creator = Zero)
    /\ header[s].creator = creator

\* The header checks of InitializeEngine.
Initializable(s, creator) ==
    /\ account[s].owned /\ account[s].sized
    /\ ~(header[s].mint = Zero /\ header[s].oracle = Zero /\ header[s].creator = Zero)
    /\ header[s].creator = creator
    /\ header[s].initialized = 0

\* A panic of the engine's validator aborts the transaction: nothing it wrote stays.
InitializeEngine(s, creator, p, price) ==
    /\ Initializable(s, creator)
    /\ validate_risk_params(p, price)
    /\ validate_params(p) /\ PriceInRange(price)
    /\ engine' = [engine EXCEPT ![s] = p]
    /\ header' = [header EXCEPT ![s].initialized = 1]
    /\ UNCHANGED <<account, lamports, treasury>>

LNext ==
    \/ \E s \in Slabs : Allocate(s)
    \/ \E s \in Slabs, p \in Payers, m \in Keys, o \in Keys, b \in Bumps, v \in Bumps :
           CreateSlab(s, p, m, o, b, v)
    \/ \E s \in Slabs, p \in Payers, m \in Keys, o \in Keys, f \in Fees, v \in Bumps :
           CreateMarket(s, p, m, o, f, v)
    \/ \E s \in Slabs, c \in Payers, p \in Params, price \in InitPrices :
           InitializeEngine(s, c, p, price)

LSpec == LInit /\ [][LNext]_lvars

(***************************************************************************)
(* Properties.                                                             *)
(***************************************************************************)
Open == {s \in Slabs : header[s].origin = ORIGIN_OPEN}
Live(s) == header[s].initialized = 1

\* Every listing marked open was paid for: the treasury holds the floor for each of them,
\* and no lamport is made or lost on the way.
OpenListingsPaid ==
    /\ treasury >= MIN_MARKET_CREATION_FEE_LAMPORTS * Cardinality(Open)
    /\ \A p \in Payers : lamports[p] <= Purse
    /\ (Open = {}) = (treasury = 0)

\* The flag and the region agree: an initialised header sits on an engine built from
\* accepted parameters, any other header on zeros.
HeaderMatchesRegion ==
    \A s \in Slabs :
        /\ Live(s) => engine[s] \in Params
        /\ header[s] # EmptyHeader /\ ~Live(s) => engine[s] = "zeros"

\* What a header says of its slab is true, although it is written in one transaction and
\* the engine in a later one, over memory of the client's: an open listing was paid for
\* (process_create_market's transfer, and no second header over the first) and the
\* initialized flag matches what is in the engine region (the defensive wipe, init_in_place).
ListingsSound == OpenListingsPaid /\ HeaderMatchesRegion

\* A market's identity is fixed by whoever created it: mint, oracle, creator, vault and
\* origin never change, and a running engine is never built again, zeroed or given other
\* parameters by a later create or initialise (the zero-header checks, the idempotency
\* flag).
MarketIsFixed ==
    [][\A s \in Slabs :
          /\ header[s] # EmptyHeader =>
                 [header'[s] EXCEPT !.initialized = 0] = [header[s] EXCEPT !.initialized = 0]
          /\ Live(s) => header'[s] = header[s] /\ engine'[s] = engine[s]]_lvars

\* The wrapper's validation is at least as strict as the engine's assertions: in no
\* state does anything a client passes make InitializeEngine panic
\* (validate_risk_params before init_in_place).
LetThrough == {a \in ParamSpace \X PriceSpace : validate_risk_params(a[1], a[2])}

NeverPanics ==
    \A s \in Slabs, c \in Payers : Initializable(s, c) =>
        \A a \in LetThrough : validate_params(a[1]) /\ PriceInRange(a[2])
=============================================================================
