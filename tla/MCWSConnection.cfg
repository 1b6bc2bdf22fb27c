SPECIFICATION FairSpec
CONSTANTS
    u1 = u1  r1 = r1  c1 = c1
    Users = {u1}
    Reconnects = {r1}
    Closers = {c1}
    MaxConns = 2
    Traffic = {1}
INVARIANTS TypeOK CloseReaches OpenIsHooked
PROPERTIES OnlyOverlapForgets Recovers ImplementsRequests
