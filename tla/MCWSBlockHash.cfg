SPECIFICATION Spec
CONSTANTS
    MaxCalls = 1
    MaxConns = 1
    MaxEvents = 0
    RandIds <- MCRandIds
    RecvChSize = 1
    ActionChSize = 1
INVARIANT EveryReachable
