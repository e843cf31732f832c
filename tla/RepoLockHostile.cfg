\* Two commands, every fault, crash, stall and a clock that is wrong.
SPECIFICATION Spec
CONSTANTS
    p1 = p1
    p2 = p2
    n1 = n1
    n2 = n2
    n3 = n3
    master = master
    NoName = NoName
    Proc = {p1, p2}
    Name = {n1, n2, n3}
    Key = {master}
    KeyOf <- OneKey
    Skew <- P1Ahead
    StaleTimeout = 1
    AgeCap = 2
    RefreshEvery = 1
    ReadLimit = 1
    HandleCap = 3
    OrphanCap = 3
    Suspendable = {p1, p2}
    Crashable = {p1, p2}
    Faults = {"list", "load", "drop", "create", "backout", "refresh", "swap", "unlock"}
    OperatorKeys = {}
SYMMETRY NameSymmetry
PROPERTY Implements
