SPECIFICATION Spec
CONSTANTS
    a1 = a1  a2 = a2  c1 = c1  c2 = c2  k1 = k1  k2 = k2  k3 = k3
    Accounts = {a1, a2}
    Controllers = {c1, c2}
    Keys = {k1, k2, k3}
    KeyOf <- MCKeyOf
    Groups <- MCGroups
    MaxKeys = 2
    NoPayer = NoPayer
    MaxFroms = 3
    MaxEntries = 2
    Modulus = 4
    MaxHeight = 2
    FirstHeights = {0}
    MaxSecs = 2
    BlockCounts = {0, 1}
    from = from  to = to  sender = sender  gas = gas
    Places <- MCPlaces
    GAS_CONTRACT_ADDRESS = gas
    TRANSFER_NAME = transfer  TRANSFERFROM_NAME = transferFrom
    SystemNativeInvoke = SystemNativeInvoke
    OntologyNativeInvoke = OntologyNativeInvoke
    Transfers <- MCTransfers
    NoTransfer = NoTransfer
INVARIANTS TypeOK CallsVerify OnlyEarlyStale CountedOnce Confirmed BodyReadsBack
