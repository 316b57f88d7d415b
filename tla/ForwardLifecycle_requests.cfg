CONSTANTS
    t1 = t1
    t2 = t2
    n1 = n1
    n2 = n2
    NoPort = NoPort
    Tunnels = {t1, t2}
    InNode <- MCInNode
    OutNode <- MCOutNode
    Ports = {1, 2}
    Taken = {}
    UserNum = 2
    GrantNum = 1
    Requests = {r1, r2}
    MaxRequests = 3
    MaxId = 3
    MaxFaults = 1
SPECIFICATION MCSpec
SYMMETRY Symmetric
CHECK_DEADLOCK FALSE
INVARIANTS
    TypeOK
    AckServed
    QuotaBounded
