---------------------------- MODULE ArchiveWalk -----------------------------
(***************************************************************************)
(* Taking a snapshot of a directory that is in use: the archiver lists it, *)
(* looks at each entry (Lstat), reuses what the parent snapshot has when   *)
(* the metadata is the same, and else reads the contents, while the        *)
(* directory's owner writes and deletes.  Entries that cannot be read are  *)
(* skipped and counted.  Entries are regular files of one directory.       *)
(*                                                                         *)
(* Metadata is a stamp: the clock at the entry's last change.  A stamp is  *)
(* what sameMetadata compares (times, size, inode, mode, owner).           *)
(***************************************************************************)
EXTENDS Integers, FiniteSets

CONSTANTS
    Name,           \* entries the directory can have, by rank of their names
    Content,        \* contents of a file
    Torn,           \* what a read sees of a file that changes meanwhile
    Gone,           \* no such entry
    None,           \* no snapshot, no parent
    WalkFaults,     \* what may go wrong, see WalkMayFail
    MaxClock        \* bound: changes of the directory

ASSUME WalkAssumption ==
    /\ Name \subseteq Nat /\ IsFiniteSet(Name)
    /\ {Torn, Gone} \cap Content = {} /\ Torn # Gone
    /\ MaxClock \in Nat

VARIABLES
    source,         \* the directory: each entry's last change and contents
    clock,          \* changes so far
    latest,         \* the newest snapshot, and when its walk began
    wpc,            \* where the archiver is
    began,          \* the clock when its walk began
    old,            \* the parent's nodes, as far as they could be loaded
    todo,           \* entries it has listed and not visited
    info,           \* the stamp Lstat gave of the entry it is about to read
    nodes,          \* the nodes of the new tree
    unmodified,     \* every entry so far is as in the parent
    skipped         \* entries it could not read

walkVars == <<wpc, began, old, todo, info, nodes, unmodified, skipped>>
archiveVars == <<source, clock, latest, walkVars>>

Stamp == 0 .. MaxClock
Data == Content \cup {Torn}
Node == [stamp : Stamp, content : Data]
Tree == UNION {[S -> Node] : S \in SUBSET Name}
NoNodes == [n \in {} |-> Torn]

WalkMayFail(what) == what \in WalkFaults
Exists(n) == source[n].content # Gone
Existing == {n \in Name : Exists(n)}
WithNode(tree, n, node) ==
    [m \in DOMAIN tree \cup {n} |-> IF m = n THEN node ELSE tree[m]]

ArchiveInit ==
    /\ source \in [Name -> [stamp : {0}, content : Content \cup {Gone}]]
    /\ clock = 0 /\ latest = None
    /\ wpc = "idle" /\ began = 0 /\ old = NoNodes /\ todo = {} /\ info = 0
    /\ nodes = NoNodes /\ unmodified = TRUE /\ skipped = {}

-----------------------------------------------------------------------------
\* The owner of the directory creates, changes, renames or deletes an entry.
\* No two changes have the same stamp: a file system's clock is assumed to be
\* finer than the time between a change that a walk has seen and the next.
Change(n) ==
    /\ clock < MaxClock
    /\ clock' = clock + 1
    /\ \E c \in Content \cup {Gone} :
          /\ Exists(n) \/ c # Gone
          /\ source' = [source EXCEPT ![n] = [stamp |-> clock + 1, content |-> c]]
    /\ UNCHANGED <<latest, walkVars>>

-----------------------------------------------------------------------------
(* The walk.                                                               *)

\* The walk is over; its in-memory state is forgotten.
Leave ==
    /\ wpc' = "idle" /\ began' = 0 /\ old' = NoNodes /\ todo' = {} /\ info' = 0
    /\ nodes' = NoNodes /\ unmodified' = TRUE /\ skipped' = {}
    /\ UNCHANGED <<source, clock>>

\* parentSnapshot and ReadDir of the include root.  Trees of the parent that
\* cannot be loaded are done without.
BeginWalk ==
    /\ wpc = "idle"
    /\ wpc' = "visit" /\ began' = clock /\ todo' = Existing
    /\ \/ old' = IF latest = None THEN NoNodes ELSE latest.tree
       \/ WalkMayFail("parent") /\ old' = NoNodes
    /\ UNCHANGED <<source, clock, latest, info, nodes, unmodified, skipped>>

Next1 == CHOOSE n \in todo : \A m \in todo : n <= m

\* The entry is gone, or may not be looked at.
Skip(n) ==
    /\ skipped' = skipped \cup {n} /\ unmodified' = FALSE
    /\ todo' = todo \ {n} /\ wpc' = "visit" /\ info' = 0
    /\ UNCHANGED <<source, clock, latest, began, old, nodes>>

Keep(n, node, same) ==
    /\ nodes' = WithNode(nodes, n, node)
    /\ unmodified' = (unmodified /\ same)
    /\ todo' = todo \ {n} /\ wpc' = "visit" /\ info' = 0
    /\ UNCHANGED <<source, clock, latest, began, old, skipped>>

SameMetadata(n) == n \in DOMAIN old /\ old[n].stamp = source[n].stamp

\* Lstat finds the metadata of the parent's node: its contents are reused.
VisitUnmodified ==
    /\ wpc = "visit" /\ todo # {}
    /\ Exists(Next1) /\ SameMetadata(Next1)
    /\ Keep(Next1, old[Next1], TRUE)

VisitModified ==
    /\ wpc = "visit" /\ todo # {}
    /\ Exists(Next1) /\ ~SameMetadata(Next1)
    /\ info' = source[Next1].stamp
    /\ wpc' = "read"
    /\ UNCHANGED <<source, clock, latest, began, old, todo, nodes, unmodified,
                   skipped>>

VisitSkips ==
    /\ wpc = "visit" /\ todo # {}
    /\ ~Exists(Next1) \/ WalkMayFail("lstat")
    /\ Skip(Next1)

\* (Mutant of Metadata: the entry is looked at again after it was read.)
MetadataNow(n) == source[n].stamp

\* The node's metadata is from before its contents were read.
Metadata(n) == info

\* saveFile.  A file that has changed since Lstat may be read in
\* part from before and in part from after the change.
Read ==
    /\ wpc = "read" /\ Exists(Next1)
    /\ LET changed == source[Next1].stamp # info IN
       \E c \in {source[Next1].content} \cup (IF changed THEN {Torn} ELSE {}) :
          Keep(Next1, [stamp |-> Metadata(Next1), content |-> c], FALSE)

ReadSkips ==
    /\ wpc = "read"
    /\ ~Exists(Next1) \/ WalkMayFail("read")
    /\ Skip(Next1)

\* (Mutant of Unmodified: nobody looks for entries that are gone.)
UnmodifiedSoFar == unmodified

\* A directory is unmodified if its entries are, and there are no others in
\* the parent: then the parent's subtree is taken as it is.
Unmodified == unmodified /\ DOMAIN old = DOMAIN nodes

\* The tree is saved, packs and index are flushed, the snapshot is written.
Snapshot ==
    /\ wpc = "visit" /\ todo = {}
    /\ latest' = [tree |-> IF Unmodified THEN old ELSE nodes,
                  skipped |-> skipped, began |-> began]
    /\ Leave

\* Listing the include root, the repository or the run fails, or the process
\* dies: no snapshot.
AbortWalk ==
    /\ WalkMayFail("abort") /\ wpc # "idle"
    /\ Leave
    /\ UNCHANGED latest

WalkStep ==
    \/ BeginWalk \/ VisitUnmodified \/ VisitModified \/ VisitSkips
    \/ Read \/ ReadSkips \/ Snapshot \/ AbortWalk

-----------------------------------------------------------------------------
SnapshotType ==
    [tree : Tree, skipped : SUBSET Name, began : Stamp]

ArchiveTypeOK ==
    /\ source \in [Name -> [stamp : Stamp, content : Content \cup {Gone}]]
    /\ clock \in Stamp
    /\ latest \in SnapshotType \cup {None}
    /\ wpc \in {"idle", "visit", "read"} /\ began \in Stamp
    /\ old \in Tree /\ todo \subseteq Name /\ info \in Stamp
    /\ nodes \in Tree /\ unmodified \in BOOLEAN /\ skipped \subseteq Name

\* An entry that has not changed since the walk began.
Still(n, snap) == source[n].stamp <= snap.began

\* What a snapshot says of a directory in use: an entry that has not changed
\* since its walk began is in it with its contents or is among the skipped,
\* and what was gone by then is not in it - although most nodes are never read
\* again but carried over from snapshot to snapshot, some of which were taken
\* while the entry changed, or skipped it.
SnapshotIsCurrent ==
    latest # None =>
        \A n \in Name : Still(n, latest) =>
            /\ n \in DOMAIN latest.tree => latest.tree[n] = source[n]
            /\ Exists(n) => n \in DOMAIN latest.tree \cup latest.skipped
=============================================================================
