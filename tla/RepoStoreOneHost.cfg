\* One host's runner backs up and retains two sites, a shell repairs the
\* index and restores; every command may stop at every step, and a restore
\* may outlive its lock.
SPECIFICATION Spec
CONSTANTS
    host = host
    shell = shell
    k1 = k1
    k2 = k2
    k3 = k3
    i1 = i1
    i2 = i2
    i3 = i3
    tree1 = tree1
    data1 = data1
    site1 = site1
    site2 = site2
    Proc = {host, shell}
    Role <- OneHost
    Blob = {tree1, data1}
    TreeBlob = {tree1}
    NoTag = NoTag
    PackId = {k1, k2}
    IndexId = {i1, i2, i3}
    Tag = {site1, site2}
    KeepLast = 1
    MaxTime = 2
    ReadersExpire = TRUE
SYMMETRY NameSymmetry
INVARIANT SnapshotsRestorable
INVARIANT RestoresComplete
INVARIANT PruneLeavesNoGarbage
PROPERTY KeepsRecoveryPoints
