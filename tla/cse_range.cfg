\* The real block sizes; lengths and ranges on both sides of the block limits.
CONSTANTS
    AES_BLOCK_SIZE = 128
    AES_BLOCK_SIZE_BYTES = 16
    JAVA_LONG_MAX_VALUE = 2000000000
    Lengths = {0, 1, 16, 100, 127, 128, 129, 256, 300, 384, 600}
    Positions = {0, 1, 15, 16, 100, 127, 128, 129, 255, 256, 257, 299, 300,
                 383, 384, 400, 511, 512, 599, 600, 700}

SPECIFICATION Spec

INVARIANTS
    TypeOK
    RangeIsFetched
    NothingGarbled
    EarlyRangeIsPrefix

\* One call, which ends.
CHECK_DEADLOCK FALSE
