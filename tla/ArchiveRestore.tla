--------------------------- MODULE ArchiveRestore ---------------------------
(***************************************************************************)
(* Backups of a directory in use (ArchiveWalk), then a restore of the      *)
(* newest snapshot (RestoreMove).  The repository lock keeps a backup and a*)
(* restore apart (RWLock); which entries change, and when, is up to their  *)
(* owners.  Bound: the restore is the last command.                        *)
(***************************************************************************)
EXTENDS RestoreMove

vars == <<archiveVars, restoreVars>>

Init == ArchiveInit /\ RestoreInit

Backup == rpc = "idle" /\ WalkStep
Restore == wpc = "idle" /\ RestoreNext

Next ==
    \/ Backup /\ UNCHANGED restoreVars
    \/ Restore /\ UNCHANGED archiveVars
    \/ \E n \in Name : Change(n) /\ UNCHANGED restoreVars

Spec == Init /\ [][Next]_vars

TypeOK == ArchiveTypeOK /\ RestoreTypeOK

\* From the source to the target: an entry that has been as it is since the
\* restored snapshot was begun, and could be read, comes back as it is; one
\* that was gone does not come back.
RestoreGivesSource ==
    rpc = "done" =>
        \A n \in Name \ (snap.skipped \cup touched) : Still(n, snap) =>
            IF Exists(n) THEN target[n] = source[n].content
            ELSE target[n] \in {Gone, Foreign}
=============================================================================
