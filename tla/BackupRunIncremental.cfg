\* An incremental site with a database; uploads and retention may fail and
\* runs be cancelled, but nobody dies and history can be written: what starts
\* ends.  After MaxTime starts it ends.
SPECIFICATION FairSpec
CONSTANTS
    p1 = p1
    p2 = p2
    d1 = d1
    d2 = d2
    c1 = c1
    c2 = c2
    None = None
    Proc = {p1}
    Dests <- OneDest
    Databases <- OneDatabase
    Mode = "incremental"
    KeepLast = 2
    MinInterval = 0
    Stamp <- Straight
    Content = {c1}
    SizeOf <- ContentIsSize
    Unreadable = TRUE
    Faults = {"upload", "retain", "cancel"}
    MaxTime = 3
    MaxCrashes = 0
CHECK_DEADLOCK FALSE
PROPERTY RunsConclude
