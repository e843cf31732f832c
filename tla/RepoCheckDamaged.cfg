\* A host backs up and retains a site; a check runs at any time.
\* Up to two files are damaged, lost or, by one check, not read.
SPECIFICATION CheckSpec
CONSTANTS
    host = host
    checker = checker
    k1 = k1
    k2 = k2
    k3 = k3
    i1 = i1
    i2 = i2
    i3 = i3
    key1 = key1
    key2 = key2
    tree1 = tree1
    data1 = data1
    site1 = site1
    Proc = {host, checker}
    Role <- OneHost
    Blob = {tree1, data1}
    TreeBlob = {tree1}
    NoTag = NoTag
    PackId = {k1, k2}
    IndexId = {i1, i2}
    Tag = {site1}
    KeepLast = 1
    MaxTime = 2
    ReadersExpire = FALSE
    Checker = checker
    Key = {key1, key2}
    KeysMayGo = FALSE
    MaxHarm = 2
SYMMETRY NameSymmetry
CONSTRAINT Judged
INVARIANT HealthyMeansRestorable
INVARIANT DamageIsNamed
INVARIANT AlarmsAreReal
