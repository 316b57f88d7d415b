CONSTANTS
    Requests = {r1, r2}
    MaxSessions = 2
SPECIFICATION Spec
SYMMETRY Symmetry
CHECK_DEADLOCK FALSE
INVARIANTS
    TypeOK
    Once
    PendingExact

PROPERTIES
    RemoteSpec
