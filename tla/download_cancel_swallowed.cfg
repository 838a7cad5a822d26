\* The caller is cancelled; nothing else goes wrong.
CONSTANTS
    MultipartChunksize = 2
    MaxRequestConcurrency = 2
    MaxSize = 5
    MaxVersions = 1
    Faults = {"cancel"}

SPECIFICATION Spec

INVARIANT DownloadsTheObject

CHECK_DEADLOCK FALSE
