SPECIFICATION Spec
CONSTANTS
    o1 = o1  o2 = o2  o3 = o3  o4 = o4  f1 = f1
    a1 = a1  a2 = a2  a3 = a3
    l1 = l1  l2 = l2
    s1 = s1  s2 = s2
    Objects <- MCObjects
    AddressOf <- MCAddressOf
    Fitting <- MCFitting
    Addresses = {a1, a2, a3}
    Labels <- MCLabels
    Schemes = {s1, s2}
    Passwords = {p1}
    Foreign = {f1}
    NoObject = NoObject
    NoLabel = NoLabel
    NoAddress = NoAddress
INVARIANTS TypeOK ListMatchesMap DefaultAgrees LabelFindsAccount
PROPERTIES ImplementsKeystore
SYMMETRY MCSymmetry
