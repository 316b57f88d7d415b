CONSTANTS
    Chunks = {1, 2}
    MaxUsed = 3
    MaxConns = 2
    Slots = {s1, s2}
    MaxTwice = 2
SPECIFICATION FairSpec
INVARIANTS
    TypeOK
    NoUnderflow
    Balance
    Flagged
PROPERTIES
    MeterSpec
    EventuallyBilled
