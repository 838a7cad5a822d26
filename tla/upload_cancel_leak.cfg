\* The caller is cancelled; nothing else goes wrong.
CONSTANTS
    Uploaders = {u1, u2}
    MaxIoQueueSize = 1
    MultipartThreshold = 2
    MultipartChunksize = 2
    IoChunksize = 2
    MaxFileSize = 4
    ProcessedSizes = {1}
    Faults = {"cancel"}
    None = None

SPECIFICATION Spec

INVARIANT NoTaskLeak

CHECK_DEADLOCK FALSE
