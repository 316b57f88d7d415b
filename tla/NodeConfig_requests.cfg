SPECIFICATION McSpec
CONSTANTS
  n1 = n1
  n2 = n2
  a1 = a1
  a2 = a2
  h1 = h1
  h2 = h2
  x1 = x1
  x2 = x2
  x3 = x3
  Names = {n1, n2}
  Threads = {t1, t2}
  Callers = {c1, c2, c3}
  Files <- TwoEntries
  MaxObjects = 3
  Clients = {h1, h2}
  Arrivals = {x1, x2, x3}
  HostOf <- TwoAndOne
  Configs <- MixedOrEach
  MaxReloads = 1
  Repeats = {y1}
  Conns = {k1, k2, k3, k4}
  None = None
  Nothing = Nothing
  Workers = {t1, t2}
  Services = {n1, n2}
  Addrs = {a1, a2}
  NoService = NoService
  Lists <- ThreeLists
  MaxBuilt = 3
  Addr = n1
  Name = n1
SYMMETRY Symmetric
CONSTRAINT Interesting
INVARIANTS ServiceTypeOK Consistent ClosedLeaves Undisturbed Owned LimitHeld FirstExact NoOrphan OneSession NewestTaken
PROPERTY StreamsKept
CHECK_DEADLOCK FALSE
