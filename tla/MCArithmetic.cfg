CONSTANTS
    BITS = 4
    FUNDING_DEN = 3
    Limbs <- MCLimbs
    BPS = 10
    MAX_STEPS = 5
    U64_MAX = 15
    U128_MAX = 255
SPECIFICATION Spec
INVARIANTS UnsignedExact SignedExact DlmmExact
CHECK_DEADLOCK FALSE
