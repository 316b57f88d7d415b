CONSTANTS
    Requests = {}
    MaxSessions = 2
SPECIFICATION Spec
CHECK_DEADLOCK FALSE
PROPERTIES
    SessionKept
