------------------------------- MODULE RWLock -------------------------------
(***************************************************************************)
(* What a repository lock promises to the operations that hold it.         *)
(*                                                                         *)
(* A writer (backup, retention, index repair) is alone.  A reader (listing,*)
(* restore, check) shares the repository with other readers and keeps      *)
(* writers out, but only until its lock expires: the code never refreshes  *)
(* a non-exclusive lock, so a reader that outlives the staleness window    *)
(* goes on working without protection.  RepoLock implements this           *)
(* specification; RepoStore composes it with the repository's contents.    *)
(***************************************************************************)

CONSTANT Proc          \* the operations that may hold the lock

VARIABLES readers,     \* operations whose non-exclusive lock still counts
          writers      \* operations that hold the exclusive lock

lockVars == <<readers, writers>>

LockTypeOK ==
    /\ readers \subseteq Proc
    /\ writers \subseteq Proc

LockInit ==
    /\ readers = {}
    /\ writers = {}

AcquireRead(p) ==
    /\ p \notin readers
    /\ writers = {}
    /\ readers' = readers \cup {p}
    /\ UNCHANGED writers

\* Either the reader is done or its lock went stale and was removed.
LeaveRead(p) ==
    /\ p \in readers
    /\ readers' = readers \ {p}
    /\ UNCHANGED writers

AcquireWrite(p) ==
    /\ readers = {}
    /\ writers = {}
    /\ writers' = {p}
    /\ UNCHANGED readers

LeaveWrite(p) ==
    /\ p \in writers
    /\ writers' = writers \ {p}
    /\ UNCHANGED readers

LockNext ==
    \E p \in Proc :
        \/ AcquireRead(p)
        \/ LeaveRead(p)
        \/ AcquireWrite(p)
        \/ LeaveWrite(p)

LockSpec == LockInit /\ [][LockNext]_lockVars
=============================================================================
