\* Four keys, the second of which stands for two resources, on pages of two.
CONSTANTS
    Keys = {1, 2, 3, 4}
    Pairs = {2}
    Limits = {0, 1, 2, 3, None}
    PageSize = 2
    MaxChanges = 2
    MaxEmpty = 1
    None = None

SPECIFICATION FairSpec

INVARIANT TypeOK

PROPERTIES
    RefinesEnumeration
    CallEnds

\* The call ends.
CHECK_DEADLOCK FALSE
