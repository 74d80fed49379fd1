CONSTANTS
    Sources = {s1, s2}
    RING_LEN = 3
    STALE_SLOTS = 1
    POS_SCALE = 2
    BPS = 2
    MAX_STEPS = 2
    U64_MAX = 3
    U128_MAX = 7
    Words <- MCWords
    BinIds <- MCBinIds
SPECIFICATION FairSpec
INVARIANT RingOfOneSource
PROPERTIES ImplementsWindow RevivedByConversion
