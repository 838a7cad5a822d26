\* As cse_range: what get_object promises of a range, and refuses to do.
CONSTANTS
    AES_BLOCK_SIZE = 128
    AES_BLOCK_SIZE_BYTES = 16
    JAVA_LONG_MAX_VALUE = 2000000000
    Lengths = {600}
    Positions = {20, 30, 300, 400, 700}

SPECIFICATION Spec

INVARIANT RangeAsExpected

\* One call, which ends.
CHECK_DEADLOCK FALSE
