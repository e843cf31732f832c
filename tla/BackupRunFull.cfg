\* A full-mode site with two destinations and two processes that start runs;
\* every step may fail and a process may die.  After MaxTime starts it ends.
SPECIFICATION Spec
CONSTANTS
    p1 = p1
    p2 = p2
    d1 = d1
    d2 = d2
    c1 = c1
    c2 = c2
    None = None
    Proc = {p1, p2}
    Dests <- TwoDests
    Databases <- NoDatabase
    Mode = "full"
    KeepLast = 1
    MinInterval = 2
    Stamp <- Straight
    Content = {c1}
    SizeOf <- ContentIsSize
    Unreadable = TRUE
    Faults = {"create", "upload", "mark", "retain", "cancel", "finish"}
    MaxTime = 3
    MaxCrashes = 1
SYMMETRY ProcSymmetry
CHECK_DEADLOCK FALSE
INVARIANT SuccessfulSetsKept
PROPERTY PruneAfterCommit
INVARIANT RunsAreSpaced
INVARIANT ToldAsRecorded
