---------------------------- MODULE MCBackupRun -----------------------------
(* Small instances of BackupRun.                                           *)
EXTENDS BackupRun, TLC

CONSTANTS p1, p2, d1, d2, c1, c2

TwoDests == <<d1, d2>>
OneDest == <<d1>>
OneDatabase == <<"db">>
NoDatabase == <<>>
Straight == [t \in 1 .. MaxTime |-> t]
ContentIsSize == [c \in Content |-> IF c = c1 THEN 1 ELSE 2]
ProcSymmetry == Permutations(Proc)
=============================================================================
