---------------------------- MODULE MCRepoCheck -----------------------------
(* Small instances of RepoCheck.                                           *)
EXTENDS RepoCheck, TLC

CONSTANTS host, checker, k1, k2, k3, i1, i2, i3, key1, key2, tree1, data1, site1

\* One host backs up and retains beside the check.
OneHost == [p \in Proc |-> IF p = host THEN {"backup", "retain"} ELSE {}]

\* Bound: where something is damaged, a commit that overtakes a check is not looked
\* at further: no property speaks of what such a check finds.
Judged == harm = 0 \/ ~overtaken

NameSymmetry == Permutations(PackId) \cup Permutations(IndexId) \cup Permutations(Key)
=============================================================================
