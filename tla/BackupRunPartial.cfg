\* An incremental site whose sources are sometimes unreadable; nothing fails.
SPECIFICATION Spec
CONSTANTS
    p1 = p1
    p2 = p2
    d1 = d1
    d2 = d2
    c1 = c1
    c2 = c2
    None = None
    Proc = {p1}
    Dests <- OneDest
    Databases <- NoDatabase
    Mode = "incremental"
    KeepLast = 2
    MinInterval = 0
    Stamp <- Straight
    Content = {c1}
    SizeOf <- ContentIsSize
    Unreadable = TRUE
    Faults = {}
    MaxTime = 4
    MaxCrashes = 0
CHECK_DEADLOCK FALSE
INVARIANT SuccessfulSnapshotsKept
