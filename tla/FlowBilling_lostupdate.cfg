CONSTANTS
    f1 = f1
    f2 = f2
    f3 = f3
    u1 = u1
    u2 = u2
    g1 = g1
    g2 = g2
    n1 = n1
    n2 = n2
    r1 = r1
    r2 = r2
    r3 = r3
    NoGrant = NoGrant
    NoNode = NoNode
    NoForward = NoForward
    NoRow = NoRow
    Forwards = {f1}
    Grants = {g1}
    Users = {u1}
    Administrators <- MCAdministrators
    OwnerOf <- MCOwnerOf
    GrantOf <- MCOneGrant
    InNode <- MCInNode
    OutNode <- MCOutNode
    Limit <- MCLow
    Reports = {r1, r2}
    ForwardOf <- MCSameForward
    Billed <- MCBilled
    Resetting = {}
    MayExpire = {}
    Manual = {}
    Managers = {}
    MaxSwitch = 0
    Switches = {}
    Faulty = {}
SPECIFICATION Spec
CHECK_DEADLOCK FALSE
INVARIANTS
    NoLostUpdate
