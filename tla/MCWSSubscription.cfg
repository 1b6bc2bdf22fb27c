SPECIFICATION Spec
CONSTANTS
    k1 = k1  f1 = f1  u1 = u1  u2 = u2  re = re  nobody = nobody
    Contracts = {k1}
    Flags = {f1}
    Users = {u1, u2}
    Reconnect = re
    Nobody = nobody
    MaxWire = 3
INVARIANTS TypeOK Agreement FailureRestores
SYMMETRY UserSymmetry
