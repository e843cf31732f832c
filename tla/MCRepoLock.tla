----------------------------- MODULE MCRepoLock -----------------------------
(* Small instances of RepoLock.                                            *)
EXTENDS RepoLock, TLC

CONSTANTS p1, p2, n1, n2, n3, master

OneKey == [p \in Proc |-> master]
NoSkew == [p \in Proc |-> 0]
\* p1's clock is ahead by more than the staleness window.
P1Ahead == [p \in Proc |-> IF p = p1 THEN 2 ELSE 0]
NameSymmetry == Permutations(Name)
=============================================================================
