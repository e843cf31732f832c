---------------------------- MODULE MCRepoStore ----------------------------
(* Small instances of RepoStore.                                           *)
EXTENDS RepoStore, TLC

CONSTANTS host, shell, k1, k2, k3, i1, i2, i3, tree1, data1,
          site1, site2

\* One host runs backups and retentions, a shell repairs and restores.
OneHost ==
    [p \in Proc |->
        IF p = host THEN {"backup", "retain"} ELSE {"repair", "restore"}]

NameSymmetry == Permutations(PackId) \cup Permutations(IndexId)
=============================================================================
