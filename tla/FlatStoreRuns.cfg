\* A local or an s3 destination of a site with a package, every call of
\* which may fail; a run may die, an object be damaged from outside, and
\* `backup check` runs at any moment.
SPECIFICATION Spec
CONSTANTS
    Kinds = {"local", "s3"}
    PackageSeq <- OnePackage
    KeepLast = 1
    Prefixed = FALSE
    Faults = {"inspect", "send", "mangle", "head", "cleanup", "record",
              "retain", "crash", "verify"}
    MaxRun = 3
    MaxAttempts = 2
    MaxDamage = 1
INVARIANT MarkersNeverLie
INVARIANT HistoryMatchesStorage
INVARIANT FewSetsRemain
PROPERTY KeepsRecoveryPoints
INVARIANT CheckTellsTruth
