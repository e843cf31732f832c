\* A directory of two entries that changes at any moment, backups of which
\* any step may fail, and a restore into a target that is in use as well.
SPECIFICATION Spec
CONSTANTS
    c1 = c1
    c2 = c2
    Torn = Torn
    Gone = Gone
    None = None
    Foreign = Foreign
    Name = {1, 2}
    Content = {c1, c2}
    WalkFaults = {"parent", "lstat", "read", "abort"}
    RestoreFaults = {"stage", "move"}
    MaxClock = 3
    MaxTouched = 2
SYMMETRY ContentSymmetry
CHECK_DEADLOCK FALSE
INVARIANT SnapshotIsCurrent
INVARIANT OnlyConfirmedReplaced
INVARIANT OneEntryMissing
INVARIANT RestoreGivesSource
