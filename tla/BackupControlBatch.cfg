\* A batch of a full and an incremental site and a process for one of them,
\* which may be killed, and one control process; history, and the
\* lock file of the incremental site, cannot always be written.
SPECIFICATION FairSpec
CONSTANTS
    b1 = b1
    b2 = b2
    k1 = k1
    full = full
    incr = incr
    None = None
    All = All
    Backup = {b1, b2}
    Ctl = {k1}
    Site = {full, incr}
    Plan <- BatchAndSingle
    LaneOf <- TwoLanes
    Crashable = {b2}
    RowsFail = {incr}
    MetaFails = {incr}
INVARIANT SiteRunsOnce
INVARIANT OwnerHoldsLock
INVARIANT StoppedMeansReleased
PROPERTY StoppedProcessEnds
