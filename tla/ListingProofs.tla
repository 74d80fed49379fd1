--------------------------- MODULE ListingProofs ---------------------------
(***************************************************************************)
(* Proofs about Listing, for any number of slabs and payers, any fees and  *)
(* any risk parameters.                                                    *)
(***************************************************************************)
EXTENDS Listing, FiniteSetTheorems, TLAPS

AccountType == [owned : BOOLEAN, sized : BOOLEAN, exempt : BOOLEAN]

HeaderType ==
    [mint : Keys \cup {Zero}, oracle : Keys \cup {Zero}, creator : Payers \cup {Zero},
     bump : Bumps \cup {0}, initialized : {0, 1}, vault_bump : Bumps \cup {0},
     origin : {ORIGIN_SEEDED, ORIGIN_OPEN}]

LType ==
    /\ account \in [Slabs -> AccountType]
    /\ header \in [Slabs -> HeaderType]
    /\ engine \in [Slabs -> {"zeros", "noise"} \cup Params]
    /\ lamports \in [Payers -> Nat]
    /\ treasury \in Nat

\* A header is only ever written over an account of the program's, by a payer: so a slab
\* that has one is never allocated again, and its header is never the empty one.
HeadersOwned ==
    \A s \in Slabs : header[s] # EmptyHeader =>
        account[s].sized /\ header[s].creator \in Payers

ListingInv == LType /\ HeadersOwned /\ ListingsSound

\* Initially nothing is allocated and nothing is listed.
LEMMA ListingStarts == ASSUME LInit PROVE ListingInv
<1>1. EmptyHeader \in HeaderType /\ EmptyHeader.origin = ORIGIN_SEEDED /\ EmptyHeader.initialized = 0
  BY DEF EmptyHeader, HeaderType
<1>2. LType
  BY <1>1, ListingAssumption DEF LInit, LType, AccountType, NoAccount
<1>3. Open = {}
  BY <1>1 DEF LInit, Open, ORIGIN_OPEN, ORIGIN_SEEDED
<1>4. OpenListingsPaid
  BY <1>3, FS_EmptySet, ListingAssumption DEF LInit, OpenListingsPaid
<1>5. HeadersOwned /\ HeaderMatchesRegion
  BY <1>1 DEF LInit, HeadersOwned, HeaderMatchesRegion, Live
<1>6. QED
  BY <1>2, <1>4, <1>5 DEF ListingInv, ListingsSound

\* The open listings are finitely many.
LEMMA OpenFinite == IsFiniteSet(Open) /\ Cardinality(Open) \in Nat
<1>1. Open \in SUBSET Slabs
  BY DEF Open
<1>2. QED
  BY <1>1, FS_Subset, FS_CardinalityType, ListingAssumption

\* Allocation reaches only slabs without a header.
LEMMA AllocateKeeps ==
    ASSUME ListingInv, NEW s \in Slabs, Allocate(s)
    PROVE  ListingInv'
<1> USE DEF ListingInv
<1>1. PICK a \in AccountType, r \in {"zeros", "noise"} :
         account' = [account EXCEPT ![s] = a] /\ engine' = [engine EXCEPT ![s] = r]
  BY DEF Allocate, AccountType
<1>2. UNCHANGED <<header, lamports, treasury>> /\ account[s] = NoAccount
  BY DEF Allocate
<1>3. LType'
  BY <1>1, <1>2 DEF LType
<1>4. header[s] = EmptyHeader
  BY <1>2 DEF HeadersOwned, NoAccount
<1>5. HeadersOwned'
  BY <1>1, <1>2, <1>4 DEF HeadersOwned, LType
<1>6. OpenListingsPaid'
  BY <1>2 DEF OpenListingsPaid, Open, ListingsSound
<1>7. EmptyHeader.initialized = 0
  BY DEF EmptyHeader
<1>8. HeaderMatchesRegion'
  BY <1>1, <1>2, <1>4, <1>7 DEF HeaderMatchesRegion, Live, ListingsSound, LType
<1>9. QED
  BY <1>3, <1>5, <1>6, <1>8 DEF ListingsSound

\* A seeded listing costs nothing and is not counted as open.
LEMMA CreateSlabKeeps ==
    ASSUME ListingInv, NEW s \in Slabs, NEW p \in Payers, NEW m \in Keys, NEW o \in Keys,
           NEW b \in Bumps, NEW v \in Bumps, CreateSlab(s, p, m, o, b, v)
    PROVE  ListingInv'
<1> USE DEF ListingInv
<1>1. PICK h : h = [SlabHeader_new(m, o, p, b, v) EXCEPT !.origin = ORIGIN_SEEDED]
  OBVIOUS
<1>2. h = SlabHeader_new(m, o, p, b, v)
  BY <1>1 DEF SlabHeader_new
<1>3. h \in HeaderType /\ h.creator = p /\ h.initialized = 0 /\ h.origin = ORIGIN_SEEDED
  BY <1>1 DEF HeaderType, SlabHeader_new
<1>4. /\ header' = [header EXCEPT ![s] = h]
      /\ engine' = [engine EXCEPT ![s] = "zeros"]
      /\ UNCHANGED <<account, lamports, treasury>>
      /\ account[s].sized /\ header[s] = EmptyHeader
  BY <1>2 DEF CreateSlab, Blank
<1> HIDE DEF ListingInv
<1>5. LType'
  BY <1>3, <1>4 DEF LType, ListingInv
<1>6. HeadersOwned'
  BY <1>3, <1>4 DEF HeadersOwned, LType, ListingInv
<1>7. header[s].origin = ORIGIN_SEEDED
  BY <1>4 DEF EmptyHeader
<1>8. Open' = Open
  BY <1>3, <1>4, <1>7 DEF Open, LType, ListingInv, ORIGIN_OPEN, ORIGIN_SEEDED
<1>9. OpenListingsPaid'
  BY <1>4, <1>8 DEF OpenListingsPaid, ListingsSound, ListingInv
<1>10. HeaderMatchesRegion'
  BY <1>3, <1>4 DEF HeaderMatchesRegion, Live, ListingsSound, LType, ListingInv
<1>11. QED
  BY <1>5, <1>6, <1>9, <1>10 DEF ListingsSound, ListingInv

\* A paid listing adds one open slab and at least the floor to the treasury.
LEMMA CreateMarketKeeps ==
    ASSUME ListingInv, NEW s \in Slabs, NEW p \in Payers, NEW m \in Keys, NEW o \in Keys,
           NEW f \in Fees, NEW v \in Bumps, CreateMarket(s, p, m, o, f, v)
    PROVE  ListingInv'
<1>1. PICK h : h = [SlabHeader_new(m, o, p, 0, v) EXCEPT !.origin = ORIGIN_OPEN]
  OBVIOUS
<1>2. h \in HeaderType /\ h.creator = p /\ h.initialized = 0 /\ h.origin = ORIGIN_OPEN
  BY <1>1 DEF HeaderType, SlabHeader_new
<1>3. /\ header' = [header EXCEPT ![s] = h]
      /\ engine' = [engine EXCEPT ![s] = "zeros"]
      /\ lamports' = [lamports EXCEPT ![p] = @ - f]
      /\ treasury' = treasury + f
      /\ UNCHANGED account
      /\ account[s].sized /\ header[s] = EmptyHeader
      /\ MIN_MARKET_CREATION_FEE_LAMPORTS <= f /\ f <= lamports[p]
  BY <1>1 DEF CreateMarket, Blank, FeeAccepted
<1>4. f \in Nat /\ treasury \in Nat /\ lamports[p] \in Nat
  BY ListingAssumption DEF ListingInv, LType
<1>5. LType'
  BY <1>2, <1>3, <1>4 DEF LType, ListingInv
<1>6. HeadersOwned'
  BY <1>2, <1>3 DEF HeadersOwned, LType, ListingInv
<1>7. header[s].origin = ORIGIN_SEEDED
  BY <1>3 DEF EmptyHeader
<1>8. Open' = Open \cup {s} /\ s \notin Open
  BY <1>2, <1>3, <1>7 DEF Open, LType, ListingInv, ORIGIN_OPEN, ORIGIN_SEEDED
<1>9. PICK n \in Nat : n = Cardinality(Open)
  BY OpenFinite
<1>10. Cardinality(Open)' = n + 1
  BY <1>8, <1>9, OpenFinite, FS_AddElement
<1>11. PICK k \in Nat \ {0} : k = MIN_MARKET_CREATION_FEE_LAMPORTS
  BY ListingAssumption
<1>12. treasury >= k * n
  BY <1>9, <1>11 DEF ListingInv, ListingsSound, OpenListingsPaid
<1>13. k * (n + 1) = k * n + k /\ k * n \in Nat
  OBVIOUS
<1>14. treasury + f >= k * (n + 1)
  BY <1>12, <1>13, <1>3, <1>4, <1>11
<1>15. treasury + f # 0 /\ Open' # {}
  BY <1>3, <1>4, <1>8, <1>11
<1>16. \A q \in Payers : lamports'[q] <= Purse
  <2>1. \A q \in Payers : lamports[q] \in Nat /\ lamports[q] <= Purse
    BY DEF ListingInv, ListingsSound, OpenListingsPaid, LType
  <2>2. QED
    BY <2>1, <1>3, <1>4, ListingAssumption DEF ListingInv, LType
<1>17. OpenListingsPaid'
  BY <1>3, <1>10, <1>11, <1>14, <1>15, <1>16 DEF OpenListingsPaid
<1>18. HeaderMatchesRegion'
  BY <1>2, <1>3 DEF HeaderMatchesRegion, Live, ListingsSound, LType, ListingInv
<1>19. QED
  BY <1>5, <1>6, <1>17, <1>18 DEF ListingsSound, ListingInv

\* Building the engine sets the flag and the region together, and no other slab's.
LEMMA InitializeKeeps ==
    ASSUME ListingInv, NEW s \in Slabs, NEW c \in Payers, NEW p \in Params,
           NEW price \in InitPrices, InitializeEngine(s, c, p, price)
    PROVE  ListingInv'
<1>1. /\ engine' = [engine EXCEPT ![s] = p]
      /\ header' = [header EXCEPT ![s].initialized = 1]
      /\ UNCHANGED <<account, lamports, treasury>>
      /\ account[s].sized /\ header[s].creator = c
  BY DEF InitializeEngine, Initializable
<1>2. PICK h : h = [header[s] EXCEPT !.initialized = 1]
  OBVIOUS
<1>3. h \in HeaderType /\ h.creator = c /\ h.initialized = 1 /\ h.origin = header[s].origin
  BY <1>1, <1>2 DEF HeaderType, ListingInv, LType
<1>4. header' = [header EXCEPT ![s] = h]
  BY <1>1, <1>2 DEF ListingInv, LType
<1>5. LType'
  BY <1>1, <1>3, <1>4 DEF LType, ListingInv
<1>6. HeadersOwned'
  BY <1>1, <1>3, <1>4 DEF HeadersOwned, LType, ListingInv
<1>7. Open' = Open
  BY <1>3, <1>4 DEF Open, LType, ListingInv
<1>8. OpenListingsPaid'
  BY <1>1, <1>7 DEF OpenListingsPaid, ListingsSound, ListingInv
<1>9. HeaderMatchesRegion'
  BY <1>1, <1>3, <1>4 DEF HeaderMatchesRegion, Live, ListingsSound, LType, ListingInv
<1>10. QED
  BY <1>5, <1>6, <1>8, <1>9 DEF ListingsSound, ListingInv

\* Every step keeps the invariant.
LEMMA ListingStep == ASSUME ListingInv, [LNext]_lvars PROVE ListingInv'
<1>1. CASE UNCHANGED lvars
  BY <1>1 DEF lvars, ListingInv, LType, HeadersOwned, ListingsSound, OpenListingsPaid,
              HeaderMatchesRegion, Open, Live
<1>2. CASE LNext
  BY <1>2, AllocateKeeps, CreateSlabKeeps, CreateMarketKeeps, InitializeKeeps DEF LNext
<1>3. QED
  BY <1>1, <1>2

\* The invariant holds of every reachable state.
LEMMA ListingAlways == LSpec => []ListingInv
<1>1. LInit => ListingInv
  BY ListingStarts
<1>2. ListingInv /\ [LNext]_lvars => ListingInv'
  BY ListingStep
<1>3. QED
  BY <1>1, <1>2, PTL DEF LSpec

(***************************************************************************)
(* What a header says of its slab is true in every state: an open listing  *)
(* was paid for, however many are created and in whatever order            *)
(* (process_create_market), and the initialized flag matches the engine    *)
(* region (process_initialize_engine).                                     *)
(***************************************************************************)
THEOREM ListingsAreSound == LSpec => []ListingsSound
<1>1. ListingInv => ListingsSound
  BY DEF ListingInv
<1>2. QED
  BY <1>1, ListingAlways, PTL

\* What a step may not do to a market that exists.
SlabFixed(s) ==
    /\ header[s] # EmptyHeader =>
           [header'[s] EXCEPT !.initialized = 0] = [header[s] EXCEPT !.initialized = 0]
    /\ Live(s) => header'[s] = header[s] /\ engine'[s] = engine[s]

\* No step touches the identity of a market or a running engine.
LEMMA FixedStep ==
    ASSUME ListingInv, [LNext]_lvars
    PROVE  \A t \in Slabs : SlabFixed(t)
<1>0. EmptyHeader.initialized = 0
  BY DEF EmptyHeader
<1>1. CASE UNCHANGED lvars
  BY <1>1 DEF lvars, SlabFixed
<1>2. ASSUME NEW s \in Slabs, Allocate(s)
      PROVE  \A t \in Slabs : SlabFixed(t)
  <2>1. account[s] = NoAccount /\ UNCHANGED header
        /\ \A t \in Slabs \ {s} : engine'[t] = engine[t]
    BY <1>2 DEF Allocate, ListingInv, LType
  <2>2. header[s] = EmptyHeader
    BY <2>1 DEF ListingInv, HeadersOwned, NoAccount
  <2>3. QED
    BY <2>1, <2>2, <1>0 DEF SlabFixed, Live
<1>3. ASSUME NEW s \in Slabs, NEW h, header' = [header EXCEPT ![s] = h],
             engine' = [engine EXCEPT ![s] = "zeros"], header[s] = EmptyHeader
      PROVE  \A t \in Slabs : SlabFixed(t)
  BY <1>3, <1>0 DEF SlabFixed, Live, ListingInv, LType
<1>4. ASSUME NEW s \in Slabs, NEW p \in Payers, NEW m \in Keys, NEW o \in Keys,
             NEW b \in Bumps, NEW v \in Bumps, CreateSlab(s, p, m, o, b, v)
      PROVE  \A t \in Slabs : SlabFixed(t)
  BY <1>3, <1>4 DEF CreateSlab, Blank
<1>5. ASSUME NEW s \in Slabs, NEW p \in Payers, NEW m \in Keys, NEW o \in Keys,
             NEW f \in Fees, NEW v \in Bumps, CreateMarket(s, p, m, o, f, v)
      PROVE  \A t \in Slabs : SlabFixed(t)
  BY <1>3, <1>5 DEF CreateMarket, Blank
<1>6. ASSUME NEW s \in Slabs, NEW c \in Payers, NEW p \in Params, NEW price \in InitPrices,
             InitializeEngine(s, c, p, price)
      PROVE  \A t \in Slabs : SlabFixed(t)
  <2>1. /\ header[s].initialized = 0
        /\ engine' = [engine EXCEPT ![s] = p]
        /\ header' = [header EXCEPT ![s].initialized = 1]
    BY <1>6 DEF InitializeEngine, Initializable
  <2>2. [header'[s] EXCEPT !.initialized = 0] = [header[s] EXCEPT !.initialized = 0]
    BY <2>1 DEF ListingInv, LType, HeaderType
  <2>3. QED
    BY <2>1, <2>2 DEF SlabFixed, Live, ListingInv, LType
<1>7. QED
  BY <1>1, <1>2, <1>4, <1>5, <1>6 DEF LNext

(***************************************************************************)
(* A market's identity is fixed by whoever created it and a running engine *)
(* is never rebuilt, in any order of creates and initialises (the zero     *)
(* header checks of process_create_slab, the idempotency flag of           *)
(* process_initialize_engine).                                             *)
(***************************************************************************)
THEOREM MarketsAreFixed == LSpec => MarketIsFixed
<1>1. ListingInv /\ [LNext]_lvars => [\A s \in Slabs : SlabFixed(s)]_lvars
  BY FixedStep
<1>2. LSpec => [][\A s \in Slabs : SlabFixed(s)]_lvars
  BY <1>1, ListingAlways, PTL DEF LSpec
<1>3. QED
  BY <1>2 DEF MarketIsFixed, SlabFixed

(***************************************************************************)
(* Whatever parameters and prices a client passes, the wrapper's checks    *)
(* (validate_risk_params) reject everything the engine would panic on      *)
(* (validate_params): over the whole parameter space, not a sample of it.  *)
(***************************************************************************)
THEOREM InitializeNeverPanics == LSpec => []NeverPanics
<1>1. ASSUME NEW p \in RiskParams, NEW price, validate_risk_params(p, price)
      PROVE  validate_params(p) /\ PriceInRange(price)
  <2>1. /\ p.max_accounts \in Nat /\ p.max_active_positions_per_side \in Nat
        /\ p.initial_margin_bps \in Nat /\ p.trading_fee_bps \in Nat
        /\ p.liquidation_fee_bps \in Nat /\ p.min_nonzero_mm_req \in Nat
        /\ p.min_initial_deposit \in Nat /\ p.h_max \in Nat
        /\ p.max_accrual_dt_slots \in Nat
    BY DEF RiskParams
  <2>2. /\ p.max_accounts > 0 /\ p.max_active_positions_per_side > 0
        /\ p.min_nonzero_mm_req > 0 /\ p.min_initial_deposit > 0
        /\ p.h_max > 0 /\ p.max_accrual_dt_slots > 0
    BY <1>1, <2>1 DEF validate_risk_params, FundingAccepted
  <2>3. /\ p.initial_margin_bps <= MAX_MARGIN_BPS
        /\ p.trading_fee_bps <= MAX_TRADING_FEE_BPS
        /\ p.liquidation_fee_bps <= MAX_LIQUIDATION_FEE_BPS
    BY <1>1 DEF validate_risk_params
  <2>4. /\ p.initial_margin_bps <= 10000 /\ p.trading_fee_bps <= 10000
        /\ p.liquidation_fee_bps <= 10000
    BY <2>1, <2>3, ListingAssumption
  <2>5. QED
    BY <1>1, <2>2, <2>4 DEF validate_risk_params, validate_params, FundingAccepted
<1>2. NeverPanics
  BY <1>1, ListingAssumption DEF NeverPanics, LetThrough
<1>3. QED
  BY <1>2, PTL
=============================================================================
