\* Up to three parts, the last one short; two requests at a time; one overwrite.
CONSTANTS
    MultipartChunksize = 2
    MaxRequestConcurrency = 2
    MaxSize = 5
    MaxVersions = 2
    Faults = {"head", "get", "body", "write", "cancel"}

SPECIFICATION FairSpec

INVARIANTS
    TypeOK
    NothingMisplaced
    WholeWhenReturned
    ProgressIsWritten

PROPERTIES
    FileSettled
    DownloadEnds

\* The call ends.
CHECK_DEADLOCK FALSE
