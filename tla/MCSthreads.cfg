\* Two clients can overlap in every way; a third process only forks.
CONSTANTS
    Clients = {p1, p2}
    Other = other
    Keys = {k1, k2}
    Objects = {o1, o2}
    None = none
SPECIFICATION Spec
SYMMETRY Symmetric
INVARIANTS
    SessionIsWhole
    PinfoIsGood
    ClientIsServed
