CONSTANTS
    MAX_ACCOUNTS = 8
    CfgMaxAccounts = 4
    MAX_MATERIALIZED_ACCOUNTS = 10
    ACCOUNTS_PER_CRANK = 4
    GC_CLOSE_BUDGET = 2
SPECIFICATION FairSpec
INVARIANTS
    LinksConsistent CountsExact NeverCorrupt NoLeak NeverStuck
PROPERTY DustCollected
