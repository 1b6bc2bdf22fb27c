SPECIFICATION FileSpec
CONSTANTS
    o1 = o1  o2 = o2  a1 = a1  a2 = a2  l1 = l1  p1 = p1  p2 = p2  s1 = s1  s2 = s2
    Objects = {o1, o2}
    AddressOf <- MCAddressOf
    Fitting <- MCFitting
    Addresses = {a1, a2}
    Labels = {l1}
    Schemes = {s1, s2}
    Passwords = {p1, p2}
    Foreign = {}
    NoObject = NoObject
    NoLabel = NoLabel
    NoAddress = NoAddress
    Savers = {1, 2}
    MaxOps = 3
    SaveAlone = FALSE
INVARIANT OpensAgain
