\* The whole call, with every fault; parts of 3 to 4 bytes, a queue of one part.
CONSTANTS
    Uploaders = {u1, u2}
    MaxIoQueueSize = 1
    MultipartThreshold = 2
    MultipartChunksize = 3
    IoChunksize = 2
    MaxFileSize = 9
    ProcessedSizes = {0, 5}
    Faults = {"read", "process", "put", "callback", "create", "part",
              "complete", "abort", "cancel"}
    None = None

SPECIFICATION FairSpec

INVARIANTS
    TypeOK
    CompleteRequestValid
    AbortOnlyOnFailure
    PartSizesLegal
    CallbackTotal
    NoOrphanUpload
    TasksDisposed

PROPERTIES
    RefinesAtomicUpload
    UploadEnds

\* The call ends, or waits for ever in ReaderStuck.
CHECK_DEADLOCK FALSE
