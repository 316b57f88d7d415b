CONSTANTS
    f1 = f1
    f2 = f2
    f3 = f3
    f4 = f4
    f5 = f5
    u1 = u1
    u2 = u2
    u3 = u3
    u4 = u4
    g1 = g1
    g3 = g3
    g4 = g4
    n1 = n1
    n2 = n2
    r1 = r1
    r2 = r2
    r3 = r3
    r4 = r4
    r5 = r5
    r6 = r6
    m1 = m1
    NoGrant = NoGrant
    NoNode = NoNode
    NoForward = NoForward
    NoRow = NoRow
    Forwards = {f1, f2, f3, f4, f5}
    Grants = {g1, g3, g4}
    Users = {u1, u2, u3, u4}
    Administrators <- MCAdministrators
    OwnerOf <- MCOwnerOf
    GrantOf <- MCGrantOf
    InNode <- MCInNode
    OutNode <- MCOutNode
    Limit <- MCLimit
    Reports = {r1, r2, r3, r4, r5, r6}
    ForwardOf <- MCForwardOf
    Billed <- MCBilled
    Resetting = {u3, g4}
    MayExpire = {u3, u4, g4}
    Manual = {u4}
    Managers = {m1}
    MaxSwitch = 1
    Switches <- MCSwitches
    Faulty <- MCFaulty
SPECIFICATION MCSpec
CHECK_DEADLOCK FALSE
INVARIANTS
    TypeOK
    ForwardNeverOvercharged
    NeverOvercharged
    CountersAgree
PROPERTIES
    OffenderStopped
