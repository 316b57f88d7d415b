CONSTANTS
    f1 = f1
    f2 = f2
    f3 = f3
    u1 = u1
    u2 = u2
    g1 = g1
    g2 = g2
    n1 = n1
    n2 = n2
    p1 = p1
    p2 = p2
    r1 = r1
    t1 = t1
    t2 = t2
    NoGrant = NoGrant
    NoNode = NoNode
    NoForward = NoForward
    NoRow = NoRow
    NoPort = NoPort
SPECIFICATION FairSpec
CHECK_DEADLOCK FALSE
PROPERTIES
    
    OrphansCleaned
