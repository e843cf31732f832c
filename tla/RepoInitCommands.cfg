\* First backups of three hosts at once, any of which may die, where every
\* backend call but the key file's Save may fail; or of one host whose key files
\* and lock removals may fail.  The operator unlocks at any time.
SPECIFICATION InitSpec
CONSTANTS
    Host = {h1, h2, h3}
    Operator = {o1}
    Master = {m1, m2, m3}
    None = None
    Faults = {"read", "config", "drop", "release"}
    Loner = h1
    LoneFaults = {"key", "release"}
    MaxCrashes = 1
INVARIANT NoLostData
INVARIANT LoneInitLeavesNothing
PROPERTY LoneDeadLocksClear
