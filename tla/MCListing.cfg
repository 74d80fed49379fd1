CONSTANTS
    s1 = s1
    s2 = s2
    p1 = p1
    p2 = p2
    m1 = m1
    Zero = Zero
    Slabs <- MCSlabs
    Payers <- MCPayers
    Keys <- MCKeys
    VaultBumps = {1}
    Bumps = {1, 2}
    Fees = {1, 2}
    Purse = 5
    Params <- MCParams
    ParamSpace <- MCParamSpace
    PriceSpace <- MCPriceSpace
    InitPrices = {1}
    MIN_MARKET_CREATION_FEE_LAMPORTS = 2
    MAX_ACCOUNTS = 2
    MAX_MARGIN_BPS = 10000
    MAX_TRADING_FEE_BPS = 10000
    MAX_LIQUIDATION_FEE_BPS = 10000
    MAX_VAULT_TVL = 2
    MAX_PROTOCOL_FEE_ABS = 2
    MAX_RESOLVE_PRICE_DEVIATION_BPS = 10000
    MAX_ABS_FUNDING_E9_PER_SLOT = 2
    MAX_ORACLE_PRICE = 2
    ADL_ONE = 2
    I128_MAX = 16
SPECIFICATION LSpec
INVARIANTS
    ListingsSound
    NeverPanics
PROPERTY MarketIsFixed
CHECK_DEADLOCK FALSE
