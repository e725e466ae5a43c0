SPECIFICATION Spec
CONSTANTS
    Client = {c1, c2}
    Link = {l1, l2}
    Server = {s1}
    Com = {n1, n2, n3}
    Fds = 4
    Null = Null
    Unset = Unset
    MaxSockets = 5
SYMMETRY Symmetric
INVARIANTS
    Ownership
    TrueDescriptor
PROPERTIES
    LostOnlyWhenRefused
    DiesWithItsHolder
