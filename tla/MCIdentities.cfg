SPECIFICATION Spec
CONSTANTS
    o1 = o1  o2 = o2  o3 = o3  d1 = d1  d2 = d2  l1 = l1  l2 = l2  c1 = c1  c2 = c2  c3 = c3
    i1 = i1  i2 = i2  k1 = k1  k2 = k2
    Identity = {o1, o2, o3}
    Ids = {d1, d2}
    Id <- MCId
    Labels = {l1, l2}
    Controllers = {c1, c2, c3}
    CtrIds = {i1, i2}
    Keys = {k1, k2}
    CtrId <- MCCtrId
    Key <- MCKey
    First <- MCFirst
    None = None
    MaxIdentities = 3
    Offered <- MCOffered
SYMMETRY MCSymmetry
INVARIANTS TypeOK ListMatchesMap DefaultAgrees ControllersAgree LabelFindsIdentity
