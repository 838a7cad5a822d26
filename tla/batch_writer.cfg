\* Two tasks write under three keys, three requests to a batch.
CONSTANTS
    Tasks = {t1, t2}
    Exit = exit
    Keys = {k1, k2, k3}
    FlushAmount = 3
    MaxRequests = 5
    MayRaise = TRUE

SPECIFICATION FairSpec

INVARIANTS
    TypeOK
    NothingLost
    ClosedMeansWritten
    OrderedUnlessOverlapped

PROPERTIES
    NewestWins
    ExitEnds

\* The writer stops once the block is left.
CHECK_DEADLOCK FALSE
