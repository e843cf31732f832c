---------------------------- MODULE RestoreMove -----------------------------
(***************************************************************************)
(* Restoring a snapshot into a directory: the tree is staged next to the   *)
(* target, conflicts with what is there are confirmed once, and then the   *)
(* staged entries are moved into place one by one (or all at once, if the  *)
(* target did not exist).  The target's owner may use it meanwhile; every  *)
(* step may fail, which removes what is staged and not moved.              *)
(***************************************************************************)
EXTENDS ArchiveWalk

CONSTANTS
    Foreign,        \* contents in the target that no restore put there
    RestoreFaults,  \* what may go wrong, see RestoreMayFail
    MaxTouched      \* bound: entries the owner writes during a restore

ASSUME RestoreAssumption ==
    /\ Foreign \notin Content \cup {Torn, Gone}
    /\ MaxTouched \in Nat

VARIABLES
    target,         \* the target directory's entries
    exists,         \* there is a target directory
    rpc,            \* where the restore is
    snap,           \* the snapshot it restores
    staged,         \* entries staged and not moved yet
    conflicts,      \* entries it would replace, as confirmed
    merged,         \* the target existed when it was opened
    replaced,       \* entries whose contents it removed
    touched,        \* entries the owner wrote since the restore began
    late            \* entries the owner wrote since the conflicts were listed

restoreVars == <<target, exists, rpc, snap, staged, conflicts, merged,
                 replaced, touched, late>>
fixed == <<snap, conflicts, merged>>

RestoreMayFail(what) == what \in RestoreFaults
InTarget == {n \in Name : target[n] # Gone}
First(S) == CHOOSE n \in S : \A m \in S : n <= m

RestoreInit ==
    /\ exists \in BOOLEAN
    /\ target \in [Name -> IF exists THEN {Foreign, Gone} ELSE {Gone}]
    /\ rpc = "idle" /\ snap = None /\ staged = {} /\ conflicts = {}
    /\ merged = FALSE /\ replaced = {} /\ touched = {} /\ late = {}

\* The snapshot is loaded and staged: every blob of it can be read, or nothing
\* is moved (RestoresComplete of RepoStore).
Stage ==
    /\ rpc = "idle" /\ latest # None
    /\ snap' = latest /\ staged' = DOMAIN latest.tree
    /\ rpc' = "open"
    /\ UNCHANGED <<target, exists, conflicts, merged, replaced, touched, late>>

\* The restore ends with an error; the staging directory is removed.
GivesUp ==
    /\ rpc' = "failed" /\ staged' = {}
    /\ UNCHANGED <<snap, conflicts, merged, touched, late>>

StageFails ==
    /\ RestoreMayFail("stage") /\ rpc = "open"
    /\ GivesUp
    /\ UNCHANGED <<target, exists, replaced>>

\* (Mutant of Collect: what came into the target since the
\* restore began is not looked at.)
CollectUntouched ==
    /\ rpc = "open"
    /\ merged' = exists
    /\ conflicts' = (staged \cap InTarget) \ touched
    /\ late' = {}
    /\ rpc' = "confirm"
    /\ UNCHANGED <<target, exists, snap, staged, replaced, touched>>

\* openRestoreTarget and collectMergeConflicts.
Collect ==
    /\ rpc = "open"
    /\ merged' = exists
    /\ conflicts' = staged \cap InTarget
    /\ late' = {}
    /\ rpc' = "confirm"
    /\ UNCHANGED <<target, exists, snap, staged, replaced, touched>>

\* Nothing to confirm, or --force, or the answer is yes.
Confirm ==
    /\ rpc = "confirm"
    /\ rpc' = "move"
    /\ UNCHANGED <<target, exists, staged, fixed, replaced, touched, late>>

Decline ==
    /\ rpc = "confirm" /\ conflicts # {}
    /\ GivesUp
    /\ UNCHANGED <<target, exists, replaced>>

\* One rename puts the whole tree where there was no target; where somebody
\* has made a target meanwhile, it works only if that is still empty.
MoveWhole ==
    /\ rpc = "move" /\ ~merged /\ InTarget = {}
    /\ target' = [n \in Name |->
                    IF n \in staged THEN snap.tree[n].content ELSE Gone]
    /\ exists' = TRUE /\ staged' = {} /\ rpc' = "done"
    /\ UNCHANGED <<fixed, replaced, touched, late>>

MoveWholeFails ==
    /\ rpc = "move" /\ ~merged
    /\ InTarget # {} \/ RestoreMayFail("move")
    /\ GivesUp
    /\ UNCHANGED <<target, exists, replaced>>

\* (Mutant of Remove: what is in the way goes before anything is moved.)
RemoveAll ==
    /\ rpc = "move" /\ merged /\ staged # {}
    /\ target' = [n \in Name |-> IF n \in staged THEN Gone ELSE target[n]]
    /\ replaced' = replaced \cup (staged \cap InTarget)
    /\ rpc' = "rename"
    /\ UNCHANGED <<exists, staged, fixed, touched, late>>

\* removeAllAt: what is in the way of the next entry goes, whatever it is.
Remove ==
    /\ rpc = "move" /\ merged /\ staged # {}
    /\ LET n == First(staged) IN
       /\ target' = [target EXCEPT ![n] = Gone]
       /\ replaced' = replaced \cup ({n} \cap InTarget)
    /\ rpc' = "rename"
    /\ UNCHANGED <<exists, staged, fixed, touched, late>>

\* Renameat replaces a file that has come in between, too.
Rename ==
    /\ rpc = "rename"
    /\ LET n == First(staged) IN
       /\ target' = [target EXCEPT ![n] = snap.tree[n].content]
       /\ replaced' = replaced \cup ({n} \cap InTarget)
       /\ staged' = staged \ {n}
    /\ rpc' = "move"
    /\ UNCHANGED <<exists, fixed, touched, late>>

\* A removal or a rename fails, or the process is stopped.
MoveFails ==
    /\ RestoreMayFail("move") /\ (rpc = "rename" \/ (rpc = "move" /\ merged))
    /\ GivesUp
    /\ UNCHANGED <<target, exists, replaced>>

Restored ==
    /\ rpc = "move" /\ merged /\ staged = {}
    /\ rpc' = "done"
    /\ UNCHANGED <<target, exists, staged, fixed, replaced, touched, late>>

\* The owner of the target writes into it while the restore runs.
Touch(n) ==
    /\ rpc \notin {"idle", "done", "failed"}
    /\ n \in touched \/ Cardinality(touched) < MaxTouched
    /\ target' = [target EXCEPT ![n] = Foreign] /\ exists' = TRUE
    /\ touched' = touched \cup {n} /\ late' = late \cup {n}
    /\ UNCHANGED <<rpc, staged, fixed, replaced>>

RestoreStep ==
    \/ Stage \/ StageFails \/ Collect \/ Confirm \/ Decline \/ MoveWhole
    \/ MoveWholeFails \/ Remove \/ Rename \/ MoveFails \/ Restored

RestoreNext == RestoreStep \/ \E n \in Name : Touch(n)

-----------------------------------------------------------------------------
RestoreTypeOK ==
    /\ target \in [Name -> Data \cup {Gone, Foreign}] /\ exists \in BOOLEAN
    /\ rpc \in {"idle", "open", "confirm", "move", "rename", "done", "failed"}
    /\ snap \in SnapshotType \cup {None}
    /\ staged \subseteq Name /\ conflicts \subseteq Name /\ merged \in BOOLEAN
    /\ replaced \subseteq Name /\ touched \subseteq Name /\ late \subseteq Name

\* Nothing is replaced that was not confirmed, except what came into the target
\* after the conflicts were listed.
OnlyConfirmedReplaced == replaced \subseteq conflicts \cup late

\* A restore that gives up in the middle has cost the target one entry at most:
\* every other one is what it was, or what the snapshot has.
OneEntryMissing ==
    Cardinality({n \in replaced : target[n] = Gone}) <= 1
=============================================================================
