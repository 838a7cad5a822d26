\* Up to four parts, the last one short; two requests at a time; one overwrite.
CONSTANTS
    MultipartThreshold = 2
    MultipartChunksize = 2
    MaxRequestConcurrency = 2
    MaxSize = 7
    MaxResizes = 1
    Faults = {"head", "copy", "create", "part", "complete", "abort", "cancel"}

SPECIFICATION FairSpec

INVARIANTS
    TypeOK
    CompleteRequestValid
    NoOrphanUpload

PROPERTIES
    RefinesAtomicUpload
    CopyEnds

\* The call ends.
CHECK_DEADLOCK FALSE
