\* Two tasks share a resource, or a bucket that is listed or not and that the
\* caller may be denied to list.
CONSTANTS
    Tasks = {t1, t2}
    MaxActions = 2
    MaxReads = 3
    None = None
    Empty = Empty
    Denied = Denied
    Raised = Raised

SPECIFICATION Spec

INVARIANT
    TypeOK

PROPERTIES
    AccessIsFresh
    

\* Nobody has to go on using the resource.
CHECK_DEADLOCK FALSE
