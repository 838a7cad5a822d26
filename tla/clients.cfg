\* Two callers with two calls each beside the owner; two API versions.
CONSTANTS
    Callers = {t1, t2}
    Owner = owner
    Versions = {1, 2}
    MaxCalls = 2

SPECIFICATION Spec

INVARIANTS
    TypeOK
    ClientsAccountedFor
    VersionsPaired

PROPERTY CallFindsItsClients

\* The calls and the block end.
CHECK_DEADLOCK FALSE
