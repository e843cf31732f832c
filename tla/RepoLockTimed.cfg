\* Clocks agree, refreshes and reads are in time; listings and the removal of
\* replaced lock files fail, a command dies, and the operator runs `bqckup
\* backup unlock` at any moment.
SPECIFICATION FairSpec
CONSTANTS
    p1 = p1
    p2 = p2
    n1 = n1
    n2 = n2
    n3 = n3
    master = master
    NoName = NoName
    Proc = {p1, p2}
    Name = {n1, n2, n3}
    Key = {master}
    KeyOf <- OneKey
    Skew <- NoSkew
    StaleTimeout = 1
    AgeCap = 2
    RefreshEvery = 1
    ReadLimit = 1
    HandleCap = 2
    OrphanCap = 1
    Suspendable = {}
    Crashable = {p1}
    Faults = {"list", "swap"}
    OperatorKeys = {master}
INVARIANT WritersAreAlone
PROPERTY NothingLeftBehind
PROPERTY LiveLockKept
PROPERTY RequestsAreDecided
