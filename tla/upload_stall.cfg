\* A part fails while the reader is ahead of the uploaders.
CONSTANTS
    Uploaders = {u1, u2}
    MaxIoQueueSize = 1
    MultipartThreshold = 3
    MultipartChunksize = 2
    IoChunksize = 2
    MaxFileSize = 8
    ProcessedSizes = {1}
    Faults = {"part"}
    None = None

SPECIFICATION FairSpec

PROPERTY FailureEventuallyRaised

CHECK_DEADLOCK FALSE
