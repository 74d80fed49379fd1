CONSTANTS
    h_min = 1
    h_max = 3
    PnlValues <- MCPnl
    MAX_ACCOUNT_POSITIVE_PNL = 3
    MAX_PNL_POS_TOT = 4
    MaxSlot = 4
    MaxAnchor = 4
    MaxRest = 1
    ResidualValues <- MCResidual
SPECIFICATION Spec
INVARIANTS TypeOK ReserveWellFormed TotalsExact OnSchedule NeverCorrupt
PROPERTY UnbackedOnlyByWarmup
