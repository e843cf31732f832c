----------------------------- MODULE RepoStore -----------------------------
(***************************************************************************)
(* The contents of an incremental repository - packs, index files and      *)
(* snapshots on the backend - and the commands that change or read them:   *)
(* backup, retention (forget and prune), index repair and restore.  Each   *)
(* command opens the repository, which loads the index into memory, only   *)
(* then takes the repository lock (RWLock), and does one backend write per *)
(* step, so that it may stop, fail or die between any two.                 *)
(*                                                                         *)
(* A process of the model is what runs one command after the other: a      *)
(* host's runner, which the site lock keeps from running two backups or    *)
(* retentions of a site at once, or an operator's shell.                   *)
(***************************************************************************)
EXTENDS RWLock, Integers, FiniteSets

CONSTANTS
    Role,           \* the commands each process runs
    Blob,           \* contents of files and directory listings
    TreeBlob,       \* the blobs that are directory listings
    PackId,         \* names a pack can get (content hashes)
    IndexId,        \* names an index file can get (content hashes)
    Tag,            \* tags of snapshots, one per site name
    NoTag,          \* the tag of a command that needs none
    KeepLast,       \* keep_last of every site
    MaxTime,        \* bound: snapshots ever taken
    ReadersExpire   \* TRUE: a restore may outlive the staleness window

Op == {"backup", "retain", "repair", "restore"}

ASSUME RepoAssumption ==
    /\ Role \in [Proc -> SUBSET Op]
    /\ TreeBlob \subseteq Blob
    /\ NoTag \notin Tag
    /\ KeepLast \in Nat \ {0}
    /\ MaxTime \in Nat
    /\ ReadersExpire \in BOOLEAN

VARIABLES
    stored,         \* packs in data/
    indexes,        \* files in index/
    snapshots,      \* documents in snapshots/
    clock,          \* time of the next snapshot
    pc,             \* where each process is in its command
    op,             \* its command
    tag,            \* the tag it backs up or retains
    target,         \* the snapshot it restores, by its time
    known,          \* packs in its in-memory index
    need,           \* blobs: of its new snapshot, still reachable, to restore
    missing,        \* blobs of its new snapshot it has not packed yet
    pend,           \* packs it saved and has not indexed yet
    oldIndexes,     \* index files it replaces
    doomed          \* packs it is about to delete

repoVars == <<stored, indexes, snapshots, clock>>
procVars == <<pc, op, tag, target, known, need, missing, pend, oldIndexes, doomed>>
vars == <<repoVars, procVars, lockVars>>

\* A file's contents never change: they are part of its name.
Pack == [id : PackId, blobs : SUBSET Blob]
IndexFile == [id : IndexId, packs : SUBSET Pack]
Snapshot == [time : Nat, tag : Tag \cup {NoTag}, blobs : SUBSET Blob]

Phases == {"idle", "opened", "walk", "save", "index", "forget", "sweep",
           "unindex", "rebuild", "load", "read"}

TypeOK ==
    /\ stored \subseteq Pack
    /\ indexes \subseteq IndexFile
    /\ snapshots \subseteq Snapshot
    /\ clock \in Nat
    /\ pc \in [Proc -> Phases]
    /\ op \in [Proc -> Op]
    /\ tag \in [Proc -> Tag \cup {NoTag}]
    /\ target \in [Proc -> Nat]
    /\ known \in [Proc -> SUBSET Pack]
    /\ need \in [Proc -> SUBSET Blob]
    /\ missing \in [Proc -> SUBSET Blob]
    /\ pend \in [Proc -> SUBSET Pack]
    /\ oldIndexes \in [Proc -> SUBSET IndexFile]
    /\ doomed \in [Proc -> SUBSET Pack]
    /\ LockTypeOK

Init ==
    /\ stored = {}
    /\ indexes = {}
    /\ snapshots = {}
    /\ clock = 1
    /\ pc = [p \in Proc |-> "idle"]
    /\ op = [p \in Proc |-> "backup"]
    /\ tag = [p \in Proc |-> NoTag]
    /\ target = [p \in Proc |-> 0]
    /\ known = [p \in Proc |-> {}]
    /\ need = [p \in Proc |-> {}]
    /\ missing = [p \in Proc |-> {}]
    /\ pend = [p \in Proc |-> {}]
    /\ oldIndexes = [p \in Proc |-> {}]
    /\ doomed = [p \in Proc |-> {}]
    /\ LockInit

-----------------------------------------------------------------------------
(* Reading the index.                                                      *)

PacksOf(J) == UNION {i.packs : i \in J}
Indexed == PacksOf(indexes)
BlobsOf(K) == UNION {k.blobs : k \in K}

\* New packs and index files get names nobody knows.
FreshPack(n) ==
    \A k \in stored \cup Indexed \cup UNION {known[q] \cup doomed[q] : q \in Proc} :
        k.id # n
FreshIndex(n) ==
    \A i \in indexes \cup UNION {oldIndexes[q] : q \in Proc} : i.id # n

-----------------------------------------------------------------------------
(* Open, lock, end.                                                        *)

\* (Mutant of Open: a restore opens the repository the way a repair does.)
OpenUnindexed(p, o, t) ==
    /\ pc[p] = "idle" /\ o \in Role[p]
    /\ t = NoTag <=> o \in {"repair", "restore"}
    /\ \/ o # "restore" /\ UNCHANGED target
       \/ /\ o = "restore"
          /\ \E s \in snapshots : target' = [target EXCEPT ![p] = s.time]
    /\ pc' = [pc EXCEPT ![p] = "opened"]
    /\ op' = [op EXCEPT ![p] = o]
    /\ tag' = [tag EXCEPT ![p] = t]
    /\ known' = [known EXCEPT
                    ![p] = IF o \in {"repair", "restore"} THEN {} ELSE Indexed]
    /\ UNCHANGED <<repoVars, lockVars, need, missing, pend, oldIndexes, doomed>>

\* repository.Open loads every index file before any lock is taken; the
\* open for repair loads none.  A listed index file that is gone by the time
\* it is loaded makes Open fail, so a successful Open has read them all.
Open(p, o, t) ==
    /\ pc[p] = "idle" /\ o \in Role[p]
    /\ t = NoTag <=> o \in {"repair", "restore"}
    /\ \/ o # "restore" /\ UNCHANGED target
       \/ /\ o = "restore"
          /\ \E s \in snapshots : target' = [target EXCEPT ![p] = s.time]
    /\ pc' = [pc EXCEPT ![p] = "opened"]
    /\ op' = [op EXCEPT ![p] = o]
    /\ tag' = [tag EXCEPT ![p] = t]
    /\ known' = [known EXCEPT ![p] = IF o = "repair" THEN {} ELSE Indexed]
    /\ UNCHANGED <<repoVars, lockVars, need, missing, pend, oldIndexes, doomed>>

FirstPhase ==
    [backup |-> "walk", retain |-> "forget", repair |-> "rebuild", restore |-> "load"]

Lock(p) ==
    /\ pc[p] = "opened"
    /\ IF op[p] = "restore" THEN AcquireRead(p) ELSE AcquireWrite(p)
    /\ pc' = [pc EXCEPT ![p] = FirstPhase[op[p]]]
    /\ UNCHANGED <<repoVars, op, tag, target, known, need, missing, pend,
                   oldIndexes, doomed>>

\* The command is over: done, failed, cancelled or dead, wherever it is.  Its
\* lock is released or, after its death, removed as stale.
End(p) ==
    /\ readers' = readers \ {p}
    /\ writers' = writers \ {p}
    /\ pc' = [pc EXCEPT ![p] = "idle"]
    /\ op' = [op EXCEPT ![p] = "backup"]
    /\ tag' = [tag EXCEPT ![p] = NoTag]
    /\ target' = [target EXCEPT ![p] = 0]
    /\ known' = [known EXCEPT ![p] = {}]
    /\ need' = [need EXCEPT ![p] = {}]
    /\ missing' = [missing EXCEPT ![p] = {}]
    /\ pend' = [pend EXCEPT ![p] = {}]
    /\ oldIndexes' = [oldIndexes EXCEPT ![p] = {}]
    /\ doomed' = [doomed EXCEPT ![p] = {}]

Stop(p) ==
    /\ pc[p] # "idle"
    /\ End(p)
    /\ UNCHANGED repoVars

-----------------------------------------------------------------------------
(* Backup: packs, then their index files, the snapshot last.               *)

\* The archiver walks the include paths.  Unchanged files and directories
\* keep the blobs of a parent snapshot without looking them up; any other
\* blob is packed unless the in-memory index knows it.
Walk(p) ==
    /\ pc[p] = "walk"
    /\ \E N \in SUBSET Blob :
          /\ N \cap TreeBlob # {}
          /\ \E reused \in {{}} \cup {N \cap s.blobs : s \in snapshots} :
                missing' = [missing EXCEPT
                                ![p] = N \ (BlobsOf(known[p]) \cup reused)]
          /\ need' = [need EXCEPT ![p] = N]
    /\ pc' = [pc EXCEPT ![p] = "save"]
    /\ UNCHANGED <<repoVars, lockVars, op, tag, target, known, pend,
                   oldIndexes, doomed>>

AddIndex(K) ==
    \E n \in IndexId :
        FreshIndex(n) /\ indexes' = indexes \cup {[id |-> n, packs |-> K]}

\* flushPacker: the pack first ...
SavePack(p) ==
    /\ pc[p] = "save"
    /\ \E k \in [id : PackId, blobs : (SUBSET missing[p]) \ {{}}] :
          /\ FreshPack(k.id)
          /\ stored' = stored \cup {k}
          /\ pend' = [pend EXCEPT ![p] = {k}]
          /\ missing' = [missing EXCEPT ![p] = @ \ k.blobs]
    /\ pc' = [pc EXCEPT ![p] = "index"]
    /\ UNCHANGED <<indexes, snapshots, clock, lockVars, op, tag, target, known,
                   need, oldIndexes, doomed>>

\* ... then an index file that lists it.
SaveIndex(p) ==
    /\ pc[p] = "index"
    /\ AddIndex(pend[p])
    /\ known' = [known EXCEPT ![p] = @ \cup pend[p]]
    /\ pend' = [pend EXCEPT ![p] = {}]
    /\ pc' = [pc EXCEPT ![p] = "save"]
    /\ UNCHANGED <<stored, snapshots, clock, lockVars, op, tag, target,
                   need, missing, oldIndexes, doomed>>

SaveSnapshot(p) ==
    /\ pc[p] = "save" /\ missing[p] = {}
    /\ clock <= MaxTime
    /\ snapshots' = snapshots \cup
                        {[time |-> clock, tag |-> tag[p], blobs |-> need[p]]}
    /\ clock' = clock + 1
    /\ End(p)
    /\ UNCHANGED <<stored, indexes>>

-----------------------------------------------------------------------------
(* Retention: ForgetAndPrune.                                              *)

Mine(t) == {s \in snapshots : s.tag = t}

\* (Mutant of Forget: one snapshot too many goes.)
ForgetOneMore(p) ==
    /\ pc[p] = "forget"
    /\ Cardinality(Mine(tag[p])) >= KeepLast
    /\ \E s \in Mine(tag[p]) :
          /\ \A t \in Mine(tag[p]) : s.time <= t.time
          /\ snapshots' = snapshots \ {s}
    /\ UNCHANGED <<stored, indexes, clock, procVars, lockVars>>

\* The oldest snapshots of the tag go one by one.
Forget(p) ==
    /\ pc[p] = "forget"
    /\ Cardinality(Mine(tag[p])) > KeepLast
    /\ \E s \in Mine(tag[p]) :
          /\ \A t \in Mine(tag[p]) : s.time <= t.time
          /\ snapshots' = snapshots \ {s}
    /\ UNCHANGED <<stored, indexes, clock, procVars, lockVars>>

\* A directory listing is read through the in-memory index.
CanLoad(p, b) == \E k \in known[p] \cap stored : b \in k.blobs

\* (Mutant of Mark: only the snapshots of the retained tag are walked.)
MarkMine(p) ==
    /\ pc[p] = "forget"
    /\ Cardinality(Mine(tag[p])) <= KeepLast
    /\ \A s \in Mine(tag[p]) : \A b \in s.blobs \cap TreeBlob : CanLoad(p, b)
    /\ need' = [need EXCEPT ![p] = UNION {s.blobs : s \in Mine(tag[p])}]
    /\ pc' = [pc EXCEPT ![p] = "sweep"]
    /\ UNCHANGED <<repoVars, lockVars, op, tag, target, known, missing, pend,
                   oldIndexes, doomed>>

\* The mark phase walks every remaining snapshot, whatever its tag.
Mark(p) ==
    /\ pc[p] = "forget"
    /\ Cardinality(Mine(tag[p])) <= KeepLast
    /\ \A s \in snapshots : \A b \in s.blobs \cap TreeBlob : CanLoad(p, b)
    /\ need' = [need EXCEPT ![p] = UNION {s.blobs : s \in snapshots}]
    /\ pc' = [pc EXCEPT ![p] = "sweep"]
    /\ UNCHANGED <<repoVars, lockVars, op, tag, target, known, missing, pend,
                   oldIndexes, doomed>>

Kept(p) == {k \in Indexed : k.blobs \cap need[p] # {}}

\* (Mutant of WriteKept: packs in no index file are overlooked.)
WriteKeptIndexedOnly(p) ==
    /\ pc[p] = "sweep"
    /\ AddIndex(Kept(p))
    /\ oldIndexes' = [oldIndexes EXCEPT ![p] = indexes]
    /\ doomed' = [doomed EXCEPT ![p] = Indexed \ Kept(p)]
    /\ pc' = [pc EXCEPT ![p] = "unindex"]
    /\ UNCHANGED <<stored, snapshots, clock, lockVars, op, tag, target,
                   known, need, missing, pend>>

\* The sweep reads the index files afresh and writes one that lists the packs
\* worth keeping; every other pack, indexed or orphaned, is to go.
WriteKept(p) ==
    /\ pc[p] = "sweep"
    /\ AddIndex(Kept(p))
    /\ oldIndexes' = [oldIndexes EXCEPT ![p] = indexes]
    /\ doomed' = [doomed EXCEPT ![p] = (Indexed \cup stored) \ Kept(p)]
    /\ pc' = [pc EXCEPT ![p] = "unindex"]
    /\ UNCHANGED <<stored, snapshots, clock, lockVars, op, tag, target,
                   known, need, missing, pend>>

\* Shared by retention and index repair.
RemoveOldIndex(p) ==
    /\ pc[p] = "unindex"
    /\ \E i \in oldIndexes[p] :
          /\ indexes' = indexes \ {i}
          /\ oldIndexes' = [oldIndexes EXCEPT ![p] = @ \ {i}]
    /\ UNCHANGED <<stored, snapshots, clock, lockVars, pc, op, tag, target,
                   known, need, missing, pend, doomed>>

\* Packs go only when every old index file is gone.
DeletePack(p) ==
    /\ pc[p] = "unindex" /\ op[p] = "retain"
    /\ oldIndexes[p] = {}
    /\ \E k \in doomed[p] :
          /\ stored' = stored \ {k}
          /\ doomed' = [doomed EXCEPT ![p] = @ \ {k}]
    /\ UNCHANGED <<indexes, snapshots, clock, lockVars, pc, op, tag, target,
                   known, need, missing, pend, oldIndexes>>

-----------------------------------------------------------------------------
(* Index repair and restore.                                               *)

\* RepairIndex lists every pack in data/ in one new index file.
Rebuild(p) ==
    /\ pc[p] = "rebuild"
    /\ AddIndex(stored)
    /\ oldIndexes' = [oldIndexes EXCEPT ![p] = indexes]
    /\ pc' = [pc EXCEPT ![p] = "unindex"]
    /\ UNCHANGED <<stored, snapshots, clock, lockVars, op, tag, target,
                   known, need, missing, pend, doomed>>

\* A snapshot that is gone by now makes the restore fail before it starts.
LoadSnapshot(p) ==
    /\ pc[p] = "load"
    /\ \E s \in snapshots :
          /\ s.time = target[p]
          /\ need' = [need EXCEPT ![p] = s.blobs]
    /\ pc' = [pc EXCEPT ![p] = "read"]
    /\ UNCHANGED <<repoVars, lockVars, op, tag, target, known, missing, pend,
                   oldIndexes, doomed>>

\* Every blob comes from the pack the in-memory index names for it; without
\* such a pack the restore breaks off half-way (Stop).
ReadBlob(p) ==
    /\ pc[p] = "read"
    /\ \E b \in need[p] :
          /\ CanLoad(p, b)
          /\ need' = [need EXCEPT ![p] = @ \ {b}]
    /\ UNCHANGED <<repoVars, lockVars, pc, op, tag, target, known, missing, pend,
                   oldIndexes, doomed>>

\* The restore runs past the staleness window and a writer removes its lock.
Expire(p) ==
    /\ ReadersExpire /\ pc[p] = "read"
    /\ LeaveRead(p)
    /\ UNCHANGED <<repoVars, procVars>>

Backup(p) == Walk(p) \/ SavePack(p) \/ SaveIndex(p) \/ SaveSnapshot(p)
Retain(p) ==
    Forget(p) \/ Mark(p) \/ WriteKept(p) \/ RemoveOldIndex(p) \/ DeletePack(p)
Restore(p) == LoadSnapshot(p) \/ ReadBlob(p) \/ Expire(p)

Next ==
    \E p \in Proc :
        \/ \E o \in Op, t \in Tag \cup {NoTag} : Open(p, o, t)
        \/ Lock(p) \/ Stop(p)
        \/ Backup(p) \/ Retain(p) \/ Rebuild(p) \/ Restore(p)

Spec == Init /\ [][Next]_vars

-----------------------------------------------------------------------------
(* Properties.                                                             *)

\* Readable by a client that opens the repository now.
Restorable(s) ==
    \A b \in s.blobs : \E k \in Indexed \cap stored : b \in k.blobs

\* "Forgetting one site must never delete data another snapshot still
\* references" (prune.go), wherever any command stops: every snapshot in the
\* repository can be restored.
SnapshotsRestorable == \A s \in snapshots : Restorable(s)

\* "A crash can never leave an index pointing at a missing pack"
\* (repository.go), nor can a prune or an index repair that stops half-way.
IndexNeverDangles == Indexed \subseteq stored

\* Each recovery point stays restorable until KeepLast newer ones of its tag
\* exist; no crash, prune or repair takes one away before.
Points == INSTANCE RecoveryPoints
              WITH points <- {s \in snapshots : Restorable(s)}
KeepsRecoveryPoints == Points!PointsSpec

\* What a backup does not store again because its index says "already
\* stored" (SaveBlob) is in fact stored.
DedupedIsStored ==
    \A p \in Proc :
        pc[p] \in {"walk", "save", "index"} => known[p] \subseteq stored

\* A restore that could load its snapshot finds every blob of it as long as
\* its lock exists; one that outlives its lock has no such promise.
RestoresComplete ==
    \A p \in readers : pc[p] = "read" => \A b \in need[p] : CanLoad(p, b)

\* A prune that ran to its end leaves no pack that is orphaned or that no
\* snapshot needs, whatever earlier commands left behind.
PruneLeavesNoGarbage ==
    \A p \in Proc :
        pc[p] = "unindex" /\ op[p] = "retain"
                /\ oldIndexes[p] = {} /\ doomed[p] = {} =>
            \A k \in stored :
                /\ k \in Indexed
                /\ \E s \in snapshots : k.blobs \cap s.blobs # {}
-----------------------------------------------------------------------------
(* Why it works when one runner does both backups and retentions: the      *)
(* inductive invariant behind SnapshotsRestorable and IndexNeverDangles.   *)

\* What the site lock gives: nobody backs up while another process retains.
OneRunner ==
    \A p, q \in Proc : "backup" \in Role[p] /\ "retain" \in Role[q] => p = q

Saving(p) == pc[p] \in {"walk", "save", "index"}
Writes(p) == Saving(p) \/ pc[p] \in {"forget", "sweep", "unindex", "rebuild"}

\* Whoever changes the repository is the only writer, and does its own job.
OnlyWriter(p) ==
    /\ Writes(p) => writers = {p}
    /\ pc[p] # "idle" => op[p] \in Role[p]
    /\ Saving(p) => op[p] = "backup"
    /\ pc[p] \in {"forget", "sweep"} => op[p] = "retain"
    /\ pc[p] = "rebuild" => op[p] = "repair"
    /\ pc[p] = "unindex" => op[p] \in {"retain", "repair"}

\* A backup's picture of the index stays true until it ends, although a
\* repair may replace every index file between its Open and its Lock.
KnowsIndexed(p) ==
    op[p] = "backup" /\ (pc[p] = "opened" \/ Saving(p)) =>
        known[p] \subseteq Indexed

\* Each blob of the snapshot to be is indexed, or on its way.
LosesNothing(p) ==
    /\ pc[p] = "save" => need[p] \subseteq BlobsOf(Indexed) \cup missing[p]
    /\ pc[p] = "index" =>
          /\ need[p] \subseteq BlobsOf(Indexed) \cup missing[p] \cup BlobsOf(pend[p])
          /\ pend[p] \subseteq stored

SweepSeesAll(p) ==
    pc[p] = "sweep" => \A s \in snapshots : s.blobs \subseteq need[p]

\* The index that is left when p has removed the old files.
Remaining(p) == PacksOf(indexes \ oldIndexes[p])

\* The new index file alone serves every snapshot, lists nothing a prune is
\* about to delete, and after a repair lists every pack.
NewIndexSuffices(p) ==
    pc[p] = "unindex" =>
        /\ \A s \in snapshots : s.blobs \subseteq BlobsOf(Remaining(p))
        /\ op[p] = "retain" => doomed[p] \cap Remaining(p) = {}
        /\ op[p] = "repair" => stored \subseteq Remaining(p)

IInv ==
    /\ TypeOK
    /\ IndexNeverDangles
    /\ SnapshotsRestorable
    /\ \A p \in Proc :
          /\ OnlyWriter(p)
          /\ KnowsIndexed(p)
          /\ LosesNothing(p)
          /\ SweepSeesAll(p)
          /\ NewIndexSuffices(p)
=============================================================================
