SPECIFICATION Spec
CONSTANTS
    MaxCalls = 2
    MaxConns = 2
    MaxEvents = 0
    RandIds <- MCRandIds
    RecvChSize = 1
    ActionChSize = 1
INVARIANTS TypeOK OwnAnswer FirstReachable DispatcherNeverBlocked NothingLeftBehind
PROPERTY ImplementsExchange
