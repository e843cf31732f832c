-------------------------- MODULE MCBackupControl ---------------------------
(* Small instances of BackupControl.                                       *)
EXTENDS BackupControl, TLC

CONSTANTS b1, b2, k1, full, incr

\* A batch with a site in each lane, and a process with one of those sites.
BatchAndSingle == [b \in Backup |-> IF b = b1 THEN Site ELSE {full}]
TwoLanes == [s \in Site |-> IF s = full THEN "full" ELSE "incremental"]
=============================================================================
