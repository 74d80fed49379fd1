CONSTANTS
    h_min = 1
    h_max = 2
    Accounts <- MCAccounts
    POS_SCALE = 1
    ADL_ONE = 4
    MIN_A_SIDE = 2
    FUNDING_DEN = 2
    BPS = 10
    MAX_ORACLE_PRICE = 4
    MAX_VAULT_TVL = 20
    MAX_POSITION_ABS_Q = 4
    MAX_OI_SIDE_Q = 4
    MAX_ACCOUNT_POSITIVE_PNL = 1000
    MAX_PNL_POS_TOT = 1000
    I128_MAX = 10000
    maintenance_margin_bps = 3
    initial_margin_bps = 5
    trading_fee_bps = 0
    liquidation_fee_bps = 2
    liquidation_fee_cap = 2
    min_liquidation_abs = 1
    min_nonzero_mm_req = 1
    min_nonzero_im_req = 2
    min_initial_deposit = 2
    insurance_floor = 0
    max_accrual_dt_slots = 1
    max_active_positions_per_side = 2
    max_abs_funding = 1
    resolve_price_deviation_bps = 10
    Scenes <- MCScenes
SPECIFICATION FairSpec
INVARIANTS NeverCorrupt OpenInterestCovered EpochLag LiquidationNeverBlocked PayoutAfterLosses
PROPERTIES ResetCompletes ResolvedDrains
CHECK_DEADLOCK FALSE
