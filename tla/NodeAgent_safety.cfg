CONSTANTS
    s1 = s1
    s2 = s2
    a1 = a1
    a2 = a2
    NoAddr = NoAddr
    Svc = {s1, s2}
    Addr = {a1, a2}
    Messages <- MCMessages
    MaxEntries = 2
    MaxUnsaved = 1
SPECIFICATION FairSpec
INVARIANTS
    TypeOK
    Agreement
    RegisteredConfigured
    ListenersOwned
    AckApplied
PROPERTIES
    Answered
