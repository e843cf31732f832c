-------------------------- MODULE RepoStoreProofs --------------------------
(***************************************************************************)
(* Proofs about RepoStore and RepoCheck, for every set of processes,       *)
(* blobs, packs, index files and tags.  With one runner (OneRunner), no    *)
(* stop of any command at any step leaves a snapshot that cannot be        *)
(* restored or an index entry whose pack is missing, restores find what    *)
(* they need, and snapshots leave by retention only.  With any number, a   *)
(* finished prune leaves no garbage.  A check names every damage, and with *)
(* one runner every alarm has a cause and nothing is called healthy that a *)
(* client cannot restore.                                                  *)
(***************************************************************************)
EXTENDS RepoCheck, FiniteSetTheorems, TLAPS

-----------------------------------------------------------------------------
(* Packs of index files and blobs of packs.                                *)

\* Fewer index files list no more packs.
LEMMA PacksMono ==
    ASSUME NEW J, NEW L, J \subseteq L
    PROVE  PacksOf(J) \subseteq PacksOf(L)
BY DEF PacksOf

\* One more index file adds exactly its packs.
LEMMA PacksAdd ==
    ASSUME NEW J, NEW n, NEW K
    PROVE  PacksOf(J \cup {[id |-> n, packs |-> K]}) = PacksOf(J) \cup K
<1> DEFINE i == [id |-> n, packs |-> K]
<1>1. i.packs = K
  OBVIOUS
<1>2. PacksOf(J \cup {i}) = PacksOf(J) \cup i.packs
  <2> HIDE DEF i
  <2> QED BY DEF PacksOf
<1> QED BY <1>1, <1>2

\* No index file, no pack.
LEMMA PacksNone == PacksOf({}) = {}
BY DEF PacksOf

\* Fewer packs hold no more blobs.
LEMMA BlobsMono ==
    ASSUME NEW K, NEW L, K \subseteq L
    PROVE  BlobsOf(K) \subseteq BlobsOf(L)
BY DEF BlobsOf

\* The blobs of two sets of packs are those of either.
LEMMA BlobsUnion ==
    ASSUME NEW K, NEW L
    PROVE  BlobsOf(K \cup L) = BlobsOf(K) \cup BlobsOf(L)
BY DEF BlobsOf

\* The only blobs of a single pack are its own.
LEMMA BlobsOne ==
    ASSUME NEW k
    PROVE  BlobsOf({k}) = k.blobs /\ BlobsOf({}) = {}
BY DEF BlobsOf

-----------------------------------------------------------------------------
(* Types.                                                                  *)

\* What the index files of a well-typed state list are packs.
LEMMA IndexedType == TypeOK => Indexed \subseteq Pack
BY DEF TypeOK, Indexed, PacksOf, IndexFile

\* Ending a command keeps the types of what belongs to the process.
LEMMA EndType ==
    ASSUME TypeOK, NEW p \in Proc, End(p), stored' \subseteq Pack,
           indexes' \subseteq IndexFile, snapshots' \subseteq Snapshot,
           clock' \in Nat
    PROVE  TypeOK'
BY DEF TypeOK, LockTypeOK, End, Phases, Op

LEMMA AddIndexType ==
    ASSUME TypeOK, NEW K \in SUBSET Pack, AddIndex(K)
    PROVE  indexes' \subseteq IndexFile
BY DEF TypeOK, AddIndex, IndexFile

\* Where each command goes once it has its lock.
LEMMA FirstPhases ==
    /\ FirstPhase["backup"] = "walk" /\ FirstPhase["retain"] = "forget"
    /\ FirstPhase["repair"] = "rebuild" /\ FirstPhase["restore"] = "load"
BY DEF FirstPhase

\* Every step keeps every variable in its type.
LEMMA TypeStep ==
    ASSUME TypeOK, [Next]_vars
    PROVE  TypeOK'
<1>1. CASE UNCHANGED vars
  BY <1>1 DEF TypeOK, LockTypeOK, vars, repoVars, procVars, lockVars
<1>2. ASSUME NEW p \in Proc, NEW o \in Op, NEW t \in Tag \cup {NoTag}, Open(p, o, t)
      PROVE  TypeOK'
  <2>1. target' \in [Proc -> Nat]
    BY <1>2 DEF Open, TypeOK, Snapshot
  <2>2. known' \in [Proc -> SUBSET Pack]
    BY <1>2, IndexedType DEF Open, TypeOK
  <2> QED
    BY <1>2, <2>1, <2>2 DEF Open, TypeOK, Phases, LockTypeOK, repoVars, lockVars
<1>3. ASSUME NEW p \in Proc, Lock(p)
      PROVE  TypeOK'
  <2>1. FirstPhase[op[p]] \in Phases
    BY FirstPhases DEF Phases, TypeOK, Op
  <2>2. readers' \subseteq Proc /\ writers' \subseteq Proc
    BY <1>3 DEF Lock, AcquireRead, AcquireWrite, TypeOK, LockTypeOK
  <2> QED
    BY <1>3, <2>1, <2>2 DEF Lock, TypeOK, LockTypeOK, repoVars
<1>4. ASSUME NEW p \in Proc, Stop(p)
      PROVE  TypeOK'
  BY <1>4, EndType DEF Stop, TypeOK, repoVars
<1>5. ASSUME NEW p \in Proc, Walk(p)
      PROVE  TypeOK'
  <2>1. need' \in [Proc -> SUBSET Blob] /\ missing' \in [Proc -> SUBSET Blob]
    BY <1>5 DEF Walk, TypeOK
  <2> QED
    BY <1>5, <2>1 DEF Walk, TypeOK, Phases, LockTypeOK, repoVars, lockVars
<1>6. ASSUME NEW p \in Proc, SavePack(p)
      PROVE  TypeOK'
  <2>1. PICK k \in [id : PackId, blobs : (SUBSET missing[p]) \ {{}}] :
          /\ stored' = stored \cup {k}
          /\ pend' = [pend EXCEPT ![p] = {k}]
          /\ missing' = [missing EXCEPT ![p] = @ \ k.blobs]
    BY <1>6 DEF SavePack
  <2>2. k \in Pack
    BY DEF Pack, TypeOK
  <2>3. /\ stored' \subseteq Pack /\ pend' \in [Proc -> SUBSET Pack]
        /\ missing' \in [Proc -> SUBSET Blob]
    BY <2>1, <2>2 DEF TypeOK
  <2> QED
    BY <1>6, <2>3 DEF SavePack, TypeOK, Phases, LockTypeOK, lockVars
<1>7. ASSUME NEW p \in Proc, SaveIndex(p)
      PROVE  TypeOK'
  <2>1. indexes' \subseteq IndexFile
    BY <1>7, AddIndexType DEF SaveIndex, TypeOK
  <2>2. known' \in [Proc -> SUBSET Pack] /\ pend' \in [Proc -> SUBSET Pack]
    BY <1>7 DEF SaveIndex, TypeOK
  <2> QED
    BY <1>7, <2>1, <2>2 DEF SaveIndex, TypeOK, Phases, LockTypeOK, lockVars
<1>8. ASSUME NEW p \in Proc, SaveSnapshot(p)
      PROVE  TypeOK'
  <2>1. tag[p] \in Tag \cup {NoTag} /\ need[p] \subseteq Blob
    BY DEF TypeOK
  <2> QED
    BY <1>8, <2>1, EndType DEF SaveSnapshot, TypeOK, Snapshot
<1>9. ASSUME NEW p \in Proc, Forget(p)
      PROVE  TypeOK'
  BY <1>9 DEF Forget, TypeOK, LockTypeOK, procVars, lockVars
<1>10. ASSUME NEW p \in Proc, Mark(p)
       PROVE  TypeOK'
  <2>1. UNION {s.blobs : s \in snapshots} \subseteq Blob
    BY DEF TypeOK, Snapshot
  <2> QED
    BY <1>10, <2>1 DEF Mark, TypeOK, Phases, LockTypeOK, repoVars, lockVars
<1>11. ASSUME NEW p \in Proc, WriteKept(p)
       PROVE  TypeOK'
  <2>1. Kept(p) \in SUBSET Pack
    BY IndexedType DEF Kept
  <2>2. indexes' \subseteq IndexFile
    BY <1>11, <2>1, AddIndexType DEF WriteKept
  <2>3. doomed' \in [Proc -> SUBSET Pack] /\ oldIndexes' \in [Proc -> SUBSET IndexFile]
    BY <1>11, IndexedType DEF WriteKept, TypeOK
  <2> QED
    BY <1>11, <2>2, <2>3 DEF WriteKept, TypeOK, Phases, LockTypeOK, lockVars
<1>12. ASSUME NEW p \in Proc, RemoveOldIndex(p)
       PROVE  TypeOK'
  BY <1>12 DEF RemoveOldIndex, TypeOK, LockTypeOK, lockVars
<1>13. ASSUME NEW p \in Proc, DeletePack(p)
       PROVE  TypeOK'
  BY <1>13 DEF DeletePack, TypeOK, LockTypeOK, lockVars
<1>14. ASSUME NEW p \in Proc, Rebuild(p)
       PROVE  TypeOK'
  <2>1. indexes' \subseteq IndexFile
    BY <1>14, AddIndexType DEF Rebuild, TypeOK
  <2> QED
    BY <1>14, <2>1 DEF Rebuild, TypeOK, Phases, LockTypeOK, lockVars
<1>15. ASSUME NEW p \in Proc, LoadSnapshot(p)
       PROVE  TypeOK'
  <2>1. need' \in [Proc -> SUBSET Blob]
    BY <1>15 DEF LoadSnapshot, TypeOK, Snapshot
  <2> QED
    BY <1>15, <2>1 DEF LoadSnapshot, TypeOK, Phases, LockTypeOK, repoVars, lockVars
<1>16. ASSUME NEW p \in Proc, ReadBlob(p)
       PROVE  TypeOK'
  BY <1>16 DEF ReadBlob, TypeOK, LockTypeOK, repoVars, lockVars
<1>17. ASSUME NEW p \in Proc, Expire(p)
       PROVE  TypeOK'
  BY <1>17 DEF Expire, LeaveRead, TypeOK, LockTypeOK, repoVars, procVars
<1> QED
  BY <1>1, <1>2, <1>3, <1>4, <1>5, <1>6, <1>7, <1>8, <1>9, <1>10, <1>11,
     <1>12, <1>13, <1>14, <1>15, <1>16, <1>17
  DEF Next, Backup, Retain, Restore

\* Type correctness: no sequence of commands, stops included, leaves the types.
THEOREM TypeCorrect == Spec => []TypeOK
<1>1. Init => TypeOK
  BY DEF Init, TypeOK, LockInit, LockTypeOK, Phases, Op
<1>2. TypeOK /\ [Next]_vars => TypeOK'
  BY TypeStep
<1> QED
  BY <1>1, <1>2, PTL DEF Spec

-----------------------------------------------------------------------------
(* The parts of the invariant that a step leaves alone.                    *)

SameCommand(q) ==
    /\ pc'[q] = pc[q] /\ op'[q] = op[q]
    /\ known'[q] = known[q] /\ need'[q] = need[q]
    /\ missing'[q] = missing[q] /\ pend'[q] = pend[q]
    /\ oldIndexes'[q] = oldIndexes[q] /\ doomed'[q] = doomed[q]

CommandInv(p) ==
    /\ OnlyWriter(p)
    /\ KnowsIndexed(p)
    /\ LosesNothing(p)
    /\ SweepSeesAll(p)
    /\ NewIndexSuffices(p)

\* What the lock may do in a step of p.
LockStep(p) ==
    \/ writers' = writers
    \/ writers' = writers \ {p}
    \/ writers = {} /\ writers' = {p}

\* No step of p disturbs another command's hold on the lock.
LEMMA OthersKeepLock ==
    ASSUME NEW p \in Proc, NEW q \in Proc, p # q, OnlyWriter(q),
           SameCommand(q), LockStep(p)
    PROVE  OnlyWriter(q)'
<1>1. Writes(q)' = Writes(q) /\ Saving(q)' = Saving(q)
  BY DEF SameCommand, Writes, Saving
<1>2. Writes(q) => writers' = {q}
  BY DEF OnlyWriter, LockStep
<1> QED
  BY <1>1, <1>2 DEF SameCommand, OnlyWriter

\* The index serves every snapshot.
LEMMA IndexServes ==
    ASSUME IInv
    PROVE  \A s \in snapshots : s.blobs \subseteq BlobsOf(Indexed)
BY DEF IInv, SnapshotsRestorable, Restorable, BlobsOf

LEMMA RestorableNext ==
    ASSUME IndexNeverDangles',
           \A s \in snapshots' : s.blobs \subseteq BlobsOf(Indexed')
    PROVE  SnapshotsRestorable'
BY DEF IndexNeverDangles, SnapshotsRestorable, Restorable, BlobsOf

\* A step of p that changes nothing in the repository.
LEMMA QuietStep ==
    ASSUME IInv, TypeOK', UNCHANGED repoVars, NEW p \in Proc, LockStep(p),
           \A q \in Proc \ {p} : SameCommand(q), CommandInv(p)'
    PROVE  IInv'
<1>1. /\ stored' = stored /\ indexes' = indexes /\ snapshots' = snapshots
      /\ Indexed' = Indexed
  BY DEF repoVars, Indexed
<1>2. IndexNeverDangles' /\ SnapshotsRestorable'
  BY <1>1 DEF IInv, IndexNeverDangles, SnapshotsRestorable, Restorable
<1>3. ASSUME NEW q \in Proc \ {p}
      PROVE  CommandInv(q)'
  <2>1. OnlyWriter(q)'
    BY OthersKeepLock DEF IInv
  <2>2. KnowsIndexed(q)' /\ LosesNothing(q)' /\ SweepSeesAll(q)'
    BY <1>1 DEF IInv, SameCommand, KnowsIndexed, Saving, LosesNothing, SweepSeesAll
  <2>3. Remaining(q)' = Remaining(q)
    BY <1>1 DEF SameCommand, Remaining
  <2>4. NewIndexSuffices(q)'
    BY <1>1, <2>3 DEF IInv, SameCommand, NewIndexSuffices
  <2> QED
    BY <2>1, <2>2, <2>4 DEF CommandInv
<1> QED
  BY <1>2, <1>3 DEF IInv, CommandInv

\* A step of the writer p: nobody else is inside a critical section, and what
\* waits for the lock is only hurt when its picture of the index is.
LEMMA WriterStep ==
    ASSUME IInv, TypeOK', NEW p \in Proc, Writes(p), LockStep(p),
           \A q \in Proc \ {p} : SameCommand(q), CommandInv(p)',
           IndexNeverDangles', SnapshotsRestorable',
           \A q \in Proc \ {p} :
               op[q] = "backup" /\ pc[q] = "opened" => known[q] \subseteq Indexed'
    PROVE  IInv'
<1>1. ASSUME NEW q \in Proc \ {p}
      PROVE  CommandInv(q)'
  <2>1. ~Writes(q)
    BY DEF IInv, OnlyWriter
  <2>2. OnlyWriter(q)'
    BY OthersKeepLock DEF IInv
  <2>3. KnowsIndexed(q)' /\ LosesNothing(q)' /\ SweepSeesAll(q)' /\ NewIndexSuffices(q)'
    BY <2>1 DEF SameCommand, KnowsIndexed, Writes, Saving, LosesNothing,
                SweepSeesAll, NewIndexSuffices
  <2> QED
    BY <2>2, <2>3 DEF CommandInv
<1> QED
  BY <1>1 DEF IInv, CommandInv

-----------------------------------------------------------------------------
(* Steps that change nothing in the repository.                            *)

LEMMA OpenStep ==
    ASSUME IInv, TypeOK', NEW p \in Proc, NEW o \in Op,
           NEW t \in Tag \cup {NoTag}, Open(p, o, t)
    PROVE  IInv'
<1>1. /\ pc[p] = "idle" /\ o \in Role[p] /\ UNCHANGED <<repoVars, lockVars>>
      /\ pc' = [pc EXCEPT ![p] = "opened"] /\ op' = [op EXCEPT ![p] = o]
      /\ known' = [known EXCEPT ![p] = IF o = "repair" THEN {} ELSE Indexed]
      /\ UNCHANGED <<need, missing, pend, oldIndexes, doomed>>
  BY DEF Open
<1>2. \A q \in Proc \ {p} : SameCommand(q)
  BY <1>1 DEF SameCommand, IInv, TypeOK
<1>3. /\ pc'[p] = "opened" /\ op'[p] = o
      /\ o = "backup" => known'[p] = Indexed
      /\ Indexed' = Indexed
  BY <1>1 DEF IInv, TypeOK, repoVars, Indexed
<1>4. CommandInv(p)'
  BY <1>1, <1>3 DEF CommandInv, OnlyWriter, Writes, Saving, KnowsIndexed,
                    LosesNothing, SweepSeesAll, NewIndexSuffices
<1> QED
  BY <1>1, <1>2, <1>4, QuietStep DEF LockStep, lockVars

LEMMA LockedStep ==
    ASSUME IInv, TypeOK', NEW p \in Proc, Lock(p)
    PROVE  IInv'
<1>1. /\ pc[p] = "opened" /\ pc' = [pc EXCEPT ![p] = FirstPhase[op[p]]]
      /\ UNCHANGED <<repoVars, op, known, need, missing, pend, oldIndexes, doomed>>
  BY DEF Lock
<1>2. \A q \in Proc \ {p} : SameCommand(q)
  BY <1>1 DEF SameCommand, IInv, TypeOK
<1>3. /\ pc'[p] = FirstPhase[op[p]] /\ op'[p] = op[p] /\ op[p] \in Op
      /\ known'[p] = known[p] /\ op[p] \in Role[p]
  BY <1>1 DEF IInv, TypeOK, OnlyWriter
<1>4. /\ op[p] = "restore" => writers' = writers
      /\ op[p] # "restore" => writers = {} /\ writers' = {p}
  BY DEF Lock, AcquireRead, AcquireWrite
<1>5. Indexed' = Indexed
  BY <1>1 DEF repoVars, Indexed
<1>6. OnlyWriter(p)'
  BY <1>3, <1>4, FirstPhases DEF OnlyWriter, Writes, Saving, Op
<1>7. KnowsIndexed(p)'
  BY <1>1, <1>3, <1>5 DEF KnowsIndexed, IInv
<1>8. LosesNothing(p)' /\ SweepSeesAll(p)' /\ NewIndexSuffices(p)'
  BY <1>3, FirstPhases DEF LosesNothing, SweepSeesAll, NewIndexSuffices, Op
<1> QED
  BY <1>1, <1>2, <1>4, <1>6, <1>7, <1>8, QuietStep DEF LockStep, CommandInv

\* A command that ends leaves no obligations, wherever it was.
LEMMA EndInv ==
    ASSUME IInv, NEW p \in Proc, End(p)
    PROVE  /\ CommandInv(p)'
           /\ LockStep(p)
           /\ \A q \in Proc \ {p} : SameCommand(q)
<1>1. pc'[p] = "idle"
  BY DEF End, IInv, TypeOK
<1>2. CommandInv(p)'
  BY <1>1 DEF CommandInv, OnlyWriter, Writes, Saving, KnowsIndexed,
              LosesNothing, SweepSeesAll, NewIndexSuffices
<1>3. \A q \in Proc \ {p} : SameCommand(q)
  BY DEF End, SameCommand, IInv, TypeOK
<1> QED
  BY <1>2, <1>3 DEF LockStep, End

LEMMA StopStep ==
    ASSUME IInv, TypeOK', NEW p \in Proc, Stop(p)
    PROVE  IInv'
BY EndInv, QuietStep DEF Stop

LEMMA WalkStep ==
    ASSUME IInv, TypeOK', NEW p \in Proc, Walk(p)
    PROVE  IInv'
<1>1. PICK N \in SUBSET Blob :
        /\ \E reused \in {{}} \cup {N \cap s.blobs : s \in snapshots} :
              missing' = [missing EXCEPT ![p] = N \ (BlobsOf(known[p]) \cup reused)]
        /\ need' = [need EXCEPT ![p] = N]
  BY DEF Walk
<1>2. PICK reused \in {{}} \cup {N \cap s.blobs : s \in snapshots} :
        missing' = [missing EXCEPT ![p] = N \ (BlobsOf(known[p]) \cup reused)]
  BY <1>1
<1>3. /\ pc[p] = "walk" /\ pc' = [pc EXCEPT ![p] = "save"]
      /\ UNCHANGED <<repoVars, lockVars, op, known, pend, oldIndexes, doomed>>
  BY DEF Walk
<1>4. \A q \in Proc \ {p} : SameCommand(q)
  BY <1>1, <1>2, <1>3 DEF SameCommand, IInv, TypeOK
<1>5. /\ pc'[p] = "save" /\ op'[p] = op[p] /\ known'[p] = known[p]
      /\ need'[p] = N /\ missing'[p] = N \ (BlobsOf(known[p]) \cup reused)
      /\ pend' = pend /\ Indexed' = Indexed /\ writers' = writers
  BY <1>1, <1>2, <1>3 DEF IInv, TypeOK, repoVars, lockVars, Indexed
<1>6. OnlyWriter(p)' /\ op[p] = "backup"
  BY <1>3, <1>5 DEF IInv, OnlyWriter, Writes, Saving
<1>7. known[p] \subseteq Indexed
  BY <1>3, <1>6 DEF IInv, KnowsIndexed, Saving
<1>8. reused \subseteq BlobsOf(Indexed)
  BY IndexServes
<1>9. BlobsOf(known[p]) \subseteq BlobsOf(Indexed)
  BY <1>7, BlobsMono
<1>10. LosesNothing(p)'
  BY <1>5, <1>8, <1>9 DEF LosesNothing
<1>11. KnowsIndexed(p)' /\ SweepSeesAll(p)' /\ NewIndexSuffices(p)'
  BY <1>5, <1>7 DEF KnowsIndexed, SweepSeesAll, NewIndexSuffices
<1> QED
  BY <1>3, <1>4, <1>6, <1>10, <1>11, QuietStep DEF LockStep, lockVars, CommandInv

LEMMA MarkStep ==
    ASSUME IInv, TypeOK', NEW p \in Proc, Mark(p)
    PROVE  IInv'
<1>1. /\ pc[p] = "forget" /\ pc' = [pc EXCEPT ![p] = "sweep"]
      /\ need' = [need EXCEPT ![p] = UNION {s.blobs : s \in snapshots}]
      /\ UNCHANGED <<repoVars, lockVars, op, known, missing, pend, oldIndexes, doomed>>
  BY DEF Mark
<1>2. \A q \in Proc \ {p} : SameCommand(q)
  BY <1>1 DEF SameCommand, IInv, TypeOK
<1>3. /\ pc'[p] = "sweep" /\ op'[p] = op[p]
      /\ need'[p] = UNION {s.blobs : s \in snapshots}
      /\ snapshots' = snapshots /\ writers' = writers
  BY <1>1 DEF IInv, TypeOK, repoVars, lockVars
<1>4. OnlyWriter(p)' /\ op[p] = "retain"
  BY <1>1, <1>3 DEF IInv, OnlyWriter, Writes, Saving
<1>5. SweepSeesAll(p)'
  BY <1>3 DEF SweepSeesAll
<1>6. KnowsIndexed(p)' /\ LosesNothing(p)' /\ NewIndexSuffices(p)'
  BY <1>3, <1>4 DEF KnowsIndexed, LosesNothing, NewIndexSuffices
<1> QED
  BY <1>1, <1>2, <1>4, <1>5, <1>6, QuietStep DEF LockStep, lockVars, CommandInv

\* The steps of a restore concern nobody else and nothing it shares.
LEMMA RestoreStep ==
    ASSUME IInv, TypeOK', NEW p \in Proc, Restore(p)
    PROVE  IInv'
<1>1. /\ pc[p] \in {"load", "read"} /\ pc'[p] = "read"
      /\ op' = op /\ writers' = writers /\ UNCHANGED repoVars
      /\ \A q \in Proc \ {p} : SameCommand(q)
  BY DEF Restore, LoadSnapshot, ReadBlob, Expire, LeaveRead, lockVars, procVars,
         SameCommand, IInv, TypeOK
<1>2. CommandInv(p)'
  BY <1>1 DEF CommandInv, IInv, OnlyWriter, Writes, Saving, KnowsIndexed,
              LosesNothing, SweepSeesAll, NewIndexSuffices
<1> QED
  BY <1>1, <1>2, QuietStep DEF LockStep

-----------------------------------------------------------------------------
(* Steps that change the repository.                                       *)

\* A step that adds index files and packs only hurts nobody who waits.
LEMMA WaitersKeepIndex ==
    ASSUME IInv, Indexed \subseteq Indexed', NEW q \in Proc
    PROVE  op[q] = "backup" /\ pc[q] = "opened" => known[q] \subseteq Indexed'
BY DEF IInv, KnowsIndexed

LEMMA SavePackStep ==
    ASSUME IInv, TypeOK', NEW p \in Proc, SavePack(p)
    PROVE  IInv'
<1>1. PICK k \in [id : PackId, blobs : (SUBSET missing[p]) \ {{}}] :
        /\ stored' = stored \cup {k}
        /\ pend' = [pend EXCEPT ![p] = {k}]
        /\ missing' = [missing EXCEPT ![p] = @ \ k.blobs]
  BY DEF SavePack
<1>2. /\ pc[p] = "save" /\ pc' = [pc EXCEPT ![p] = "index"]
      /\ UNCHANGED <<indexes, snapshots, lockVars, op, known, need, oldIndexes, doomed>>
  BY DEF SavePack
<1>3. \A q \in Proc \ {p} : SameCommand(q)
  BY <1>1, <1>2 DEF SameCommand, IInv, TypeOK
<1>4. /\ pc'[p] = "index" /\ op'[p] = op[p] /\ known'[p] = known[p]
      /\ need'[p] = need[p] /\ pend'[p] = {k} /\ missing'[p] = missing[p] \ k.blobs
      /\ Indexed' = Indexed /\ writers' = writers
  BY <1>1, <1>2 DEF IInv, TypeOK, lockVars, Indexed
<1>5. OnlyWriter(p)' /\ Writes(p) /\ op[p] = "backup"
  BY <1>2, <1>4 DEF IInv, OnlyWriter, Writes, Saving
<1>6. IndexNeverDangles'
  BY <1>1, <1>4 DEF IInv, IndexNeverDangles
<1>7. SnapshotsRestorable'
  BY <1>2, <1>4, <1>6, IndexServes, RestorableNext
<1>8. LosesNothing(p)'
  <2>1. need[p] \subseteq BlobsOf(Indexed) \cup missing[p]
    BY <1>2 DEF IInv, LosesNothing
  <2>2. need'[p] \subseteq BlobsOf(Indexed') \cup missing'[p] \cup BlobsOf(pend'[p])
    BY <1>4, <2>1, BlobsOne
  <2> QED
    BY <1>1, <1>4, <2>2 DEF LosesNothing
<1>9. KnowsIndexed(p)' /\ SweepSeesAll(p)' /\ NewIndexSuffices(p)'
  BY <1>2, <1>4, <1>5 DEF IInv, KnowsIndexed, Saving, SweepSeesAll, NewIndexSuffices
<1>10. \A q \in Proc \ {p} :
          op[q] = "backup" /\ pc[q] = "opened" => known[q] \subseteq Indexed'
  BY <1>4, WaitersKeepIndex
<1>11. CommandInv(p)' /\ LockStep(p)
  BY <1>4, <1>5, <1>8, <1>9 DEF CommandInv, LockStep
<1> QED
  BY <1>3, <1>5, <1>6, <1>7, <1>10, <1>11, WriterStep

LEMMA SaveIndexStep ==
    ASSUME IInv, TypeOK', NEW p \in Proc, SaveIndex(p)
    PROVE  IInv'
<1>1. PICK n \in IndexId : indexes' = indexes \cup {[id |-> n, packs |-> pend[p]]}
  BY DEF SaveIndex, AddIndex
<1>2. /\ pc[p] = "index" /\ pc' = [pc EXCEPT ![p] = "save"]
      /\ known' = [known EXCEPT ![p] = @ \cup pend[p]]
      /\ pend' = [pend EXCEPT ![p] = {}]
      /\ UNCHANGED <<stored, snapshots, lockVars, op, need, missing, oldIndexes, doomed>>
  BY DEF SaveIndex
<1>3. \A q \in Proc \ {p} : SameCommand(q)
  BY <1>2 DEF SameCommand, IInv, TypeOK
<1>4. /\ pc'[p] = "save" /\ op'[p] = op[p] /\ known'[p] = known[p] \cup pend[p]
      /\ need'[p] = need[p] /\ missing'[p] = missing[p] /\ writers' = writers
  BY <1>2 DEF IInv, TypeOK, lockVars
<1>5. Indexed' = Indexed \cup pend[p]
  BY <1>1, PacksAdd DEF Indexed
<1>6. OnlyWriter(p)' /\ Writes(p) /\ op[p] = "backup"
  BY <1>2, <1>4 DEF IInv, OnlyWriter, Writes, Saving
<1>7. /\ need[p] \subseteq BlobsOf(Indexed) \cup missing[p] \cup BlobsOf(pend[p])
      /\ pend[p] \subseteq stored
  BY <1>2 DEF IInv, LosesNothing
<1>8. BlobsOf(Indexed') = BlobsOf(Indexed) \cup BlobsOf(pend[p])
  BY <1>5, BlobsUnion
<1>9. IndexNeverDangles'
  BY <1>2, <1>5, <1>7 DEF IInv, IndexNeverDangles
<1>10. SnapshotsRestorable'
  BY <1>2, <1>8, <1>9, IndexServes, RestorableNext
<1>11. LosesNothing(p)'
  BY <1>4, <1>7, <1>8 DEF LosesNothing
<1>12. known[p] \subseteq Indexed
  BY <1>2, <1>6 DEF IInv, KnowsIndexed, Saving
<1>13. KnowsIndexed(p)' /\ SweepSeesAll(p)' /\ NewIndexSuffices(p)'
  BY <1>4, <1>5, <1>12 DEF KnowsIndexed, SweepSeesAll, NewIndexSuffices
<1>14. \A q \in Proc \ {p} :
          op[q] = "backup" /\ pc[q] = "opened" => known[q] \subseteq Indexed'
  BY <1>5, WaitersKeepIndex
<1>15. CommandInv(p)' /\ LockStep(p)
  BY <1>4, <1>6, <1>11, <1>13 DEF CommandInv, LockStep
<1> QED
  BY <1>3, <1>6, <1>9, <1>10, <1>14, <1>15, WriterStep

LEMMA SaveSnapshotStep ==
    ASSUME IInv, TypeOK', NEW p \in Proc, SaveSnapshot(p)
    PROVE  IInv'
<1>1. /\ pc[p] = "save" /\ missing[p] = {} /\ UNCHANGED <<stored, indexes>>
      /\ snapshots' = snapshots \cup
                          {[time |-> clock, tag |-> tag[p], blobs |-> need[p]]}
  BY DEF SaveSnapshot
<1>2. /\ CommandInv(p)' /\ LockStep(p)
      /\ \A q \in Proc \ {p} : SameCommand(q)
  BY EndInv DEF SaveSnapshot
<1>3. Writes(p)
  BY <1>1 DEF Writes, Saving
<1>4. Indexed' = Indexed
  BY <1>1 DEF Indexed
<1>5. IndexNeverDangles'
  BY <1>1, <1>4 DEF IInv, IndexNeverDangles
<1>6. need[p] \subseteq BlobsOf(Indexed)
  BY <1>1 DEF IInv, LosesNothing
<1>7. SnapshotsRestorable'
  BY <1>1, <1>4, <1>5, <1>6, IndexServes, RestorableNext
<1>8. \A q \in Proc \ {p} :
         op[q] = "backup" /\ pc[q] = "opened" => known[q] \subseteq Indexed'
  BY <1>4, WaitersKeepIndex
<1> QED
  BY <1>2, <1>3, <1>5, <1>7, <1>8, WriterStep

LEMMA ForgetStep ==
    ASSUME IInv, TypeOK', NEW p \in Proc, Forget(p)
    PROVE  IInv'
<1>1. /\ pc[p] = "forget" /\ snapshots' \subseteq snapshots
      /\ UNCHANGED <<stored, indexes, procVars, lockVars>>
  BY DEF Forget
<1>2. /\ Indexed' = Indexed /\ writers' = writers /\ pc' = pc /\ op' = op
      /\ \A q \in Proc : SameCommand(q)
  BY <1>1 DEF Indexed, procVars, lockVars, SameCommand
<1>3. Writes(p)
  BY <1>1 DEF Writes
<1>4. IndexNeverDangles'
  BY <1>1, <1>2 DEF IInv, IndexNeverDangles
<1>5. SnapshotsRestorable'
  BY <1>1, <1>2, <1>4, IndexServes, RestorableNext
<1>6. CommandInv(p)'
  BY <1>1, <1>2 DEF IInv, CommandInv, OnlyWriter, Writes, Saving, KnowsIndexed,
                    LosesNothing, SweepSeesAll, NewIndexSuffices
<1>7. \A q \in Proc \ {p} :
         op[q] = "backup" /\ pc[q] = "opened" => known[q] \subseteq Indexed'
  BY <1>2, WaitersKeepIndex
<1> QED
  BY <1>2, <1>3, <1>4, <1>5, <1>6, <1>7, WriterStep DEF LockStep

\* The index file that replaces the others is new, so it alone remains when
\* they are gone.
LEMMA ReplacingIndex ==
    ASSUME NEW p \in Proc, NEW K, AddIndex(K), oldIndexes'[p] = indexes
    PROVE  /\ Indexed' = Indexed \cup K
           /\ Remaining(p)' = K
<1>1. PICK n \in IndexId : /\ FreshIndex(n)
                           /\ indexes' = indexes \cup {[id |-> n, packs |-> K]}
  BY DEF AddIndex
<1>2. Indexed' = Indexed \cup K
  BY <1>1, PacksAdd DEF Indexed
<1>3. [id |-> n, packs |-> K] \notin indexes
  BY <1>1 DEF FreshIndex
<1>4. indexes' \ oldIndexes'[p] = {} \cup {[id |-> n, packs |-> K]}
  BY <1>1, <1>3
<1>5. Remaining(p)' = PacksOf({}) \cup K
  <2>1. Remaining(p)' = PacksOf(indexes' \ oldIndexes'[p])
    BY DEF Remaining
  <2>2. Remaining(p)' = PacksOf({} \cup {[id |-> n, packs |-> K]})
    BY <1>4, <2>1
  <2>3. PacksOf({} \cup {[id |-> n, packs |-> K]}) = PacksOf({}) \cup K
    BY PacksAdd
  <2> QED
    BY <2>2, <2>3
<1> QED
  BY <1>2, <1>5, PacksNone

LEMMA WriteKeptStep ==
    ASSUME IInv, TypeOK', NEW p \in Proc, WriteKept(p)
    PROVE  IInv'
<1>1. /\ pc[p] = "sweep" /\ pc' = [pc EXCEPT ![p] = "unindex"]
      /\ oldIndexes' = [oldIndexes EXCEPT ![p] = indexes]
      /\ doomed' = [doomed EXCEPT ![p] = (Indexed \cup stored) \ Kept(p)]
      /\ UNCHANGED <<stored, snapshots, lockVars, op, known, need, missing, pend>>
  BY DEF WriteKept
<1>2. \A q \in Proc \ {p} : SameCommand(q)
  BY <1>1 DEF SameCommand, IInv, TypeOK
<1>3. /\ pc'[p] = "unindex" /\ op'[p] = op[p] /\ oldIndexes'[p] = indexes
      /\ doomed'[p] = (Indexed \cup stored) \ Kept(p) /\ writers' = writers
  BY <1>1 DEF IInv, TypeOK, lockVars
<1>4. Indexed' = Indexed /\ Remaining(p)' = Kept(p)
  <2>1. Indexed' = Indexed \cup Kept(p) /\ Remaining(p)' = Kept(p)
    BY <1>3, ReplacingIndex DEF WriteKept
  <2>2. Kept(p) \subseteq Indexed
    BY DEF Kept
  <2> QED
    BY <2>1, <2>2
<1>5. OnlyWriter(p)' /\ Writes(p) /\ op[p] = "retain"
  BY <1>1, <1>3 DEF IInv, OnlyWriter, Writes, Saving
<1>6. IndexNeverDangles'
  BY <1>1, <1>4 DEF IInv, IndexNeverDangles
<1>7. SnapshotsRestorable'
  BY <1>1, <1>4, <1>6, IndexServes, RestorableNext
<1>8. ASSUME NEW s \in snapshots
      PROVE  s.blobs \subseteq BlobsOf(Kept(p))
  <2>1. s.blobs \subseteq need[p] /\ s.blobs \subseteq BlobsOf(Indexed)
    BY <1>1, IndexServes DEF IInv, SweepSeesAll
  <2> QED
    BY <2>1 DEF BlobsOf, Kept
<1>9. NewIndexSuffices(p)'
  BY <1>1, <1>3, <1>4, <1>5, <1>8 DEF NewIndexSuffices
<1>10. KnowsIndexed(p)' /\ LosesNothing(p)' /\ SweepSeesAll(p)'
  BY <1>3, <1>5 DEF KnowsIndexed, LosesNothing, SweepSeesAll
<1>11. \A q \in Proc \ {p} :
          op[q] = "backup" /\ pc[q] = "opened" => known[q] \subseteq Indexed'
  BY <1>4, WaitersKeepIndex
<1>12. CommandInv(p)' /\ LockStep(p)
  BY <1>3, <1>5, <1>9, <1>10 DEF CommandInv, LockStep
<1> QED
  BY <1>2, <1>5, <1>6, <1>7, <1>11, <1>12, WriterStep

LEMMA RebuildStep ==
    ASSUME IInv, TypeOK', NEW p \in Proc, Rebuild(p)
    PROVE  IInv'
<1>1. /\ pc[p] = "rebuild" /\ pc' = [pc EXCEPT ![p] = "unindex"]
      /\ oldIndexes' = [oldIndexes EXCEPT ![p] = indexes]
      /\ UNCHANGED <<stored, snapshots, lockVars, op, known, need, missing, pend, doomed>>
  BY DEF Rebuild
<1>2. \A q \in Proc \ {p} : SameCommand(q)
  BY <1>1 DEF SameCommand, IInv, TypeOK
<1>3. /\ pc'[p] = "unindex" /\ op'[p] = op[p] /\ oldIndexes'[p] = indexes
      /\ writers' = writers
  BY <1>1 DEF IInv, TypeOK, lockVars
<1>4. Indexed' = Indexed \cup stored /\ Remaining(p)' = stored
  BY <1>3, ReplacingIndex DEF Rebuild
<1>5. OnlyWriter(p)' /\ Writes(p) /\ op[p] = "repair"
  BY <1>1, <1>3 DEF IInv, OnlyWriter, Writes, Saving
<1>6. IndexNeverDangles' /\ Indexed \subseteq stored
  BY <1>1, <1>4 DEF IInv, IndexNeverDangles
<1>7. BlobsOf(Indexed) \subseteq BlobsOf(stored) /\ BlobsOf(Indexed) \subseteq BlobsOf(Indexed')
  BY <1>4, <1>6, BlobsMono
<1>8. SnapshotsRestorable'
  BY <1>1, <1>6, <1>7, IndexServes, RestorableNext
<1>9. NewIndexSuffices(p)'
  BY <1>1, <1>3, <1>4, <1>5, <1>7, IndexServes DEF NewIndexSuffices
<1>10. KnowsIndexed(p)' /\ LosesNothing(p)' /\ SweepSeesAll(p)'
  BY <1>3, <1>5 DEF KnowsIndexed, LosesNothing, SweepSeesAll
<1>11. \A q \in Proc \ {p} :
          op[q] = "backup" /\ pc[q] = "opened" => known[q] \subseteq Indexed'
  BY <1>4, WaitersKeepIndex
<1>12. CommandInv(p)' /\ LockStep(p)
  BY <1>3, <1>5, <1>9, <1>10 DEF CommandInv, LockStep
<1> QED
  BY <1>2, <1>5, <1>6, <1>8, <1>11, <1>12, WriterStep

\* Here OneRunner matters: nobody who waits to back up has opened an index
\* that a prune is taking away.
LEMMA RemoveOldIndexStep ==
    ASSUME OneRunner, IInv, TypeOK', NEW p \in Proc, RemoveOldIndex(p)
    PROVE  IInv'
<1>1. PICK i \in oldIndexes[p] :
        /\ indexes' = indexes \ {i}
        /\ oldIndexes' = [oldIndexes EXCEPT ![p] = @ \ {i}]
  BY DEF RemoveOldIndex
<1>2. /\ pc[p] = "unindex"
      /\ UNCHANGED <<stored, snapshots, lockVars, pc, op, known, need, missing, pend, doomed>>
  BY DEF RemoveOldIndex
<1>3. \A q \in Proc \ {p} : SameCommand(q)
  BY <1>1, <1>2 DEF SameCommand, IInv, TypeOK
<1>4. /\ oldIndexes'[p] = oldIndexes[p] \ {i} /\ writers' = writers
  BY <1>1, <1>2 DEF IInv, TypeOK, lockVars
<1>5. indexes' \ oldIndexes'[p] = indexes \ oldIndexes[p]
  BY <1>1, <1>4
<1>6. /\ Remaining(p)' = Remaining(p)
      /\ Remaining(p) \subseteq Indexed' /\ Indexed' \subseteq Indexed
  <2>1. Remaining(p)' = Remaining(p)
    BY <1>5 DEF Remaining
  <2>2. indexes \ oldIndexes[p] \subseteq indexes' /\ indexes' \subseteq indexes
    BY <1>1
  <2> QED
    BY <2>1, <2>2, PacksMono DEF Remaining, Indexed
<1>7. OnlyWriter(p)' /\ Writes(p) /\ op[p] \in {"retain", "repair"} /\ op[p] \in Role[p]
  BY <1>2, <1>4 DEF IInv, OnlyWriter, Writes, Saving
<1>8. IndexNeverDangles'
  BY <1>2, <1>6 DEF IInv, IndexNeverDangles
<1>9. SnapshotsRestorable'
  <2>1. \A s \in snapshots : s.blobs \subseteq BlobsOf(Remaining(p))
    BY <1>2 DEF IInv, NewIndexSuffices
  <2>2. BlobsOf(Remaining(p)) \subseteq BlobsOf(Indexed')
    BY <1>6, BlobsMono
  <2> QED
    BY <1>2, <1>8, <2>1, <2>2, RestorableNext
<1>10. NewIndexSuffices(p)'
  BY <1>2, <1>6 DEF IInv, NewIndexSuffices
<1>11. KnowsIndexed(p)' /\ LosesNothing(p)' /\ SweepSeesAll(p)'
  BY <1>2, <1>7 DEF KnowsIndexed, Saving, LosesNothing, SweepSeesAll
<1>12. ASSUME NEW q \in Proc \ {p}, op[q] = "backup", pc[q] = "opened"
       PROVE  known[q] \subseteq Indexed'
  <2>1. op[p] = "repair"
    BY <1>7, <1>12 DEF OneRunner, IInv, OnlyWriter
  <2>2. known[q] \subseteq Indexed /\ Indexed \subseteq stored
    BY <1>12 DEF IInv, KnowsIndexed, IndexNeverDangles
  <2>3. stored \subseteq Remaining(p)
    BY <1>2, <2>1 DEF IInv, NewIndexSuffices
  <2> QED
    BY <1>6, <2>2, <2>3
<1>13. CommandInv(p)' /\ LockStep(p)
  BY <1>4, <1>7, <1>10, <1>11 DEF CommandInv, LockStep
<1> QED
  BY <1>3, <1>7, <1>8, <1>9, <1>12, <1>13, WriterStep

LEMMA DeletePackStep ==
    ASSUME IInv, TypeOK', NEW p \in Proc, DeletePack(p)
    PROVE  IInv'
<1>1. PICK k \in doomed[p] :
        /\ stored' = stored \ {k}
        /\ doomed' = [doomed EXCEPT ![p] = @ \ {k}]
  BY DEF DeletePack
<1>2. /\ pc[p] = "unindex" /\ op[p] = "retain" /\ oldIndexes[p] = {}
      /\ UNCHANGED <<indexes, snapshots, lockVars, pc, op, known, need, missing, pend,
                     oldIndexes>>
  BY DEF DeletePack
<1>3. \A q \in Proc \ {p} : SameCommand(q)
  BY <1>1, <1>2 DEF SameCommand, IInv, TypeOK
<1>4. doomed'[p] = doomed[p] \ {k} /\ writers' = writers
  BY <1>1, <1>2 DEF IInv, TypeOK, lockVars
<1>5. /\ Indexed' = Indexed /\ Remaining(p) = Indexed
      /\ Remaining(p)' = Remaining(p)
  BY <1>2 DEF Indexed, Remaining
<1>6. k \notin Indexed
  BY <1>2, <1>5 DEF IInv, NewIndexSuffices
<1>7. OnlyWriter(p)' /\ Writes(p)
  BY <1>2, <1>4 DEF IInv, OnlyWriter, Writes, Saving
<1>8. IndexNeverDangles'
  BY <1>1, <1>5, <1>6 DEF IInv, IndexNeverDangles
<1>9. SnapshotsRestorable'
  BY <1>2, <1>5, <1>8, IndexServes, RestorableNext
<1>10. NewIndexSuffices(p)'
  BY <1>2, <1>4, <1>5 DEF IInv, NewIndexSuffices
<1>11. KnowsIndexed(p)' /\ LosesNothing(p)' /\ SweepSeesAll(p)'
  BY <1>2 DEF KnowsIndexed, Saving, LosesNothing, SweepSeesAll
<1>12. \A q \in Proc \ {p} :
          op[q] = "backup" /\ pc[q] = "opened" => known[q] \subseteq Indexed'
  BY <1>5, WaitersKeepIndex
<1>13. CommandInv(p)' /\ LockStep(p)
  BY <1>4, <1>7, <1>10, <1>11 DEF CommandInv, LockStep
<1> QED
  BY <1>3, <1>7, <1>8, <1>9, <1>12, <1>13, WriterStep

-----------------------------------------------------------------------------
(* The theorems.                                                           *)

LEMMA InitInv == Init => IInv
<1> SUFFICES ASSUME Init
             PROVE  IInv
  OBVIOUS
<1>1. TypeOK
  BY DEF Init, TypeOK, LockInit, LockTypeOK, Phases, Op
<1>2. Indexed = {}
  BY PacksNone DEF Init, Indexed
<1>3. IndexNeverDangles /\ SnapshotsRestorable
  BY <1>2 DEF Init, IndexNeverDangles, SnapshotsRestorable
<1>4. ASSUME NEW p \in Proc
      PROVE  CommandInv(p)
  <2>1. pc[p] = "idle"
    BY DEF Init
  <2> QED
    BY <2>1 DEF CommandInv, OnlyWriter, Writes, Saving, KnowsIndexed,
                LosesNothing, SweepSeesAll, NewIndexSuffices
<1> QED
  BY <1>1, <1>3, <1>4 DEF IInv, CommandInv

\* With one runner every step keeps the invariant.
LEMMA InvStep ==
    ASSUME OneRunner, IInv, [Next]_vars
    PROVE  IInv'
<1>1. TypeOK'
  BY TypeStep DEF IInv
<1>2. CASE UNCHANGED vars
  <2>1. UNCHANGED <<repoVars, procVars, lockVars>>
    BY <1>2 DEF vars
  <2>2. CASE Proc = {}
    BY <1>1, <2>1, <2>2 DEF IInv, repoVars, Indexed, IndexNeverDangles,
                            SnapshotsRestorable, Restorable
  <2>3. ASSUME NEW p \in Proc
        PROVE  IInv'
    <3>1. /\ \A q \in Proc : SameCommand(q)
          /\ writers' = writers /\ Indexed' = Indexed /\ pc' = pc /\ op' = op
          /\ stored' = stored /\ snapshots' = snapshots
          /\ Remaining(p)' = Remaining(p)
      BY <2>1 DEF SameCommand, procVars, lockVars, repoVars, Indexed, Remaining
    <3>2. CommandInv(p)'
      BY <3>1 DEF IInv, CommandInv, SameCommand, OnlyWriter, Writes, Saving,
                  KnowsIndexed, LosesNothing, SweepSeesAll, NewIndexSuffices
    <3> QED
      BY <1>1, <2>1, <3>1, <3>2, QuietStep DEF LockStep
  <2> QED
    BY <2>2, <2>3
<1>3. CASE Next
  <2>1. PICK p \in Proc :
          \/ \E o \in Op, t \in Tag \cup {NoTag} : Open(p, o, t)
          \/ Lock(p) \/ Stop(p)
          \/ Backup(p) \/ Retain(p) \/ Rebuild(p) \/ Restore(p)
    BY <1>3 DEF Next
  <2>2. CASE \E o \in Op, t \in Tag \cup {NoTag} : Open(p, o, t)
    BY <1>1, <2>2, OpenStep
  <2>3. CASE Lock(p) \/ Stop(p)
    BY <1>1, <2>3, LockedStep, StopStep
  <2>4. CASE Backup(p)
    BY <1>1, <2>4, WalkStep, SavePackStep, SaveIndexStep, SaveSnapshotStep DEF Backup
  <2>5. CASE Retain(p)
    BY <1>1, <2>5, ForgetStep, MarkStep, WriteKeptStep, RemoveOldIndexStep,
       DeletePackStep DEF Retain
  <2>6. CASE Rebuild(p) \/ Restore(p)
    BY <1>1, <2>6, RebuildStep, RestoreStep
  <2> QED
    BY <2>1, <2>2, <2>3, <2>4, <2>5, <2>6
<1> QED
  BY <1>2, <1>3

\* The invariant behind the repository's safety: with one runner, everything a
\* command relies on between two of its steps stays true.
THEOREM Invariance ==
    ASSUME OneRunner
    PROVE  Spec => []IInv
<1>1. Init => IInv
  BY InitInv
<1>2. IInv /\ [Next]_vars => IInv'
  BY InvStep
<1> QED
  BY <1>1, <1>2, PTL DEF Spec

\* "Forgetting one site must never delete data another snapshot still
\* references", nor does any backup, prune or repair that stops half-way.
THEOREM SnapshotsSurvive ==
    ASSUME OneRunner
    PROVE  Spec => []SnapshotsRestorable
<1>1. IInv => SnapshotsRestorable
  BY DEF IInv
<1> QED
  BY <1>1, Invariance, PTL

\* "A crash can never leave an index pointing at a missing pack."
THEOREM IndexIsSound ==
    ASSUME OneRunner
    PROVE  Spec => []IndexNeverDangles
<1>1. IInv => IndexNeverDangles
  BY DEF IInv
<1> QED
  BY <1>1, Invariance, PTL

\* What a backup skips as "already stored" is stored until the backup ends.
THEOREM DedupIsSound ==
    ASSUME OneRunner
    PROVE  Spec => []DedupedIsStored
<1>1. IInv => DedupedIsStored
  BY DEF IInv, DedupedIsStored, OnlyWriter, KnowsIndexed, Saving, IndexNeverDangles
<1> QED
  BY <1>1, Invariance, PTL

-----------------------------------------------------------------------------
(* Prunes leave no garbage, whoever else runs.                             *)

\* A step of p.
StepOf(p) ==
    \/ \E o \in Op, t \in Tag \cup {NoTag} : Open(p, o, t)
    \/ Lock(p) \/ Stop(p)
    \/ Backup(p) \/ Retain(p) \/ Rebuild(p) \/ Restore(p)

\* Only p's own command changes, and the repository only while p is its writer.
StepShape(p) ==
    /\ \A q \in Proc \ {p} : SameCommand(q)
    /\ LockStep(p)
    /\ UNCHANGED <<stored, indexes, snapshots>> \/ Writes(p)
    /\ OnlyWriter(p)'

LEMMA StepsHaveShape ==
    ASSUME TypeOK, NEW p \in Proc, OnlyWriter(p), StepOf(p)
    PROVE  StepShape(p)
<1>1. ASSUME NEW o \in Op, NEW t \in Tag \cup {NoTag}, Open(p, o, t)
      PROVE  StepShape(p)
  <2>1. /\ o \in Role[p] /\ UNCHANGED <<repoVars, lockVars>>
        /\ pc' = [pc EXCEPT ![p] = "opened"] /\ op' = [op EXCEPT ![p] = o]
        /\ \E K : known' = [known EXCEPT ![p] = K]
        /\ UNCHANGED <<need, missing, pend, oldIndexes, doomed>>
    BY <1>1 DEF Open
  <2> QED BY <2>1 DEF TypeOK, StepShape, SameCommand, LockStep, OnlyWriter,
                      Writes, Saving, repoVars, lockVars
<1>2. CASE Lock(p)
  <2>1. /\ pc[p] = "opened" /\ op[p] \in Role[p] /\ op[p] \in Op
        /\ pc' = [pc EXCEPT ![p] = FirstPhase[op[p]]]
        /\ UNCHANGED <<repoVars, op, known, need, missing, pend, oldIndexes,
                       doomed>>
        /\ op[p] = "restore" => writers' = writers
        /\ op[p] # "restore" => writers = {} /\ writers' = {p}
    BY <1>2 DEF Lock, AcquireRead, AcquireWrite, TypeOK, OnlyWriter
  <2>2. OnlyWriter(p)'
    BY <2>1, FirstPhases DEF TypeOK, OnlyWriter, Writes, Saving, Op
  <2>3. \A q \in Proc \ {p} : SameCommand(q)
    BY <2>1 DEF TypeOK, SameCommand
  <2> QED BY <2>1, <2>2, <2>3 DEF StepShape, LockStep, repoVars
<1>3. ASSUME End(p)
      PROVE  /\ \A q \in Proc \ {p} : SameCommand(q)
             /\ LockStep(p) /\ OnlyWriter(p)'
  <2>1. pc'[p] = "idle"
    BY <1>3 DEF End, TypeOK
  <2> QED BY <1>3, <2>1 DEF End, TypeOK, SameCommand, LockStep, OnlyWriter,
                            Writes, Saving
<1>4. CASE Stop(p)
  BY <1>3, <1>4 DEF Stop, StepShape, repoVars
<1>5. CASE SaveSnapshot(p)
  BY <1>3, <1>5 DEF SaveSnapshot, StepShape, Writes, Saving
<1>6. CASE Walk(p)
  <2>1. /\ pc[p] = "walk" /\ pc' = [pc EXCEPT ![p] = "save"]
        /\ \E N : need' = [need EXCEPT ![p] = N]
        /\ \E M : missing' = [missing EXCEPT ![p] = M]
        /\ UNCHANGED <<repoVars, lockVars, op, known, pend, oldIndexes, doomed>>
    BY <1>6 DEF Walk
  <2> QED BY <2>1 DEF TypeOK, StepShape, SameCommand, LockStep, OnlyWriter,
                      Writes, Saving, repoVars, lockVars
<1>7. CASE SavePack(p)
  <2>1. /\ pc[p] = "save" /\ pc' = [pc EXCEPT ![p] = "index"]
        /\ \E K : pend' = [pend EXCEPT ![p] = K]
        /\ \E M : missing' = [missing EXCEPT ![p] = M]
        /\ UNCHANGED <<lockVars, op, known, need, oldIndexes, doomed>>
    BY <1>7 DEF SavePack
  <2> QED BY <2>1 DEF TypeOK, StepShape, SameCommand, LockStep, OnlyWriter,
                      Writes, Saving, lockVars
<1>8. CASE SaveIndex(p)
  BY <1>8 DEF SaveIndex, TypeOK, StepShape, SameCommand, LockStep, OnlyWriter,
              Writes, Saving, lockVars
<1>9. CASE Forget(p)
  BY <1>9 DEF Forget, TypeOK, StepShape, SameCommand, LockStep, OnlyWriter,
              Writes, Saving, procVars, lockVars
<1>10. CASE Mark(p)
  BY <1>10 DEF Mark, TypeOK, StepShape, SameCommand, LockStep, OnlyWriter,
               Writes, Saving, repoVars, lockVars
<1>11. CASE WriteKept(p)
  BY <1>11 DEF WriteKept, TypeOK, StepShape, SameCommand, LockStep, OnlyWriter,
               Writes, Saving, lockVars
<1>12. CASE RemoveOldIndex(p)
  BY <1>12 DEF RemoveOldIndex, TypeOK, StepShape, SameCommand, LockStep,
               OnlyWriter, Writes, Saving, lockVars
<1>13. CASE DeletePack(p)
  BY <1>13 DEF DeletePack, TypeOK, StepShape, SameCommand, LockStep, OnlyWriter,
               Writes, Saving, lockVars
<1>14. CASE Rebuild(p)
  BY <1>14 DEF Rebuild, TypeOK, StepShape, SameCommand, LockStep, OnlyWriter,
               Writes, Saving, lockVars
<1>15. CASE Restore(p)
  <2>1. /\ pc[p] \in {"load", "read"} /\ pc'[p] = "read" /\ op' = op
        /\ writers' = writers /\ UNCHANGED repoVars
        /\ \A q \in Proc \ {p} : SameCommand(q)
    BY <1>15 DEF Restore, LoadSnapshot, ReadBlob, Expire, LeaveRead, lockVars,
                 procVars, SameCommand, TypeOK
  <2> QED BY <2>1 DEF StepShape, LockStep, OnlyWriter, Writes, Saving, repoVars
<1> QED
  BY <1>1, <1>2, <1>4, <1>5, <1>6, <1>7, <1>8, <1>9, <1>10, <1>11, <1>12,
     <1>13, <1>14, <1>15 DEF StepOf, Backup, Retain

\* What the snapshots need.
Used == UNION {s.blobs : s \in snapshots}

\* A prune has seen what all snapshots need; its new index file lists every
\* indexed pack of which they need something and no other, and what is stored
\* besides is on its way out.
PruneInv(p) ==
    /\ pc[p] = "sweep" => need[p] = Used
    /\ pc[p] = "unindex" /\ op[p] = "retain" =>
          /\ stored \subseteq Remaining(p) \cup doomed[p]
          /\ \A k \in Remaining(p) : k.blobs \cap Used # {}
          /\ \A k \in Indexed : k.blobs \cap Used # {} => k \in Remaining(p)

TidyInv == TypeOK /\ \A p \in Proc : OnlyWriter(p) /\ PruneInv(p)

LEMMA PruneStep ==
    ASSUME TidyInv, NEW p \in Proc, StepOf(p)
    PROVE  PruneInv(p)'
<1> USE DEF TidyInv
<1>1. CASE pc'[p] # "sweep" /\ ~(pc'[p] = "unindex" /\ op'[p] = "retain")
  BY <1>1 DEF PruneInv
<1>2. CASE Mark(p)
  <2>1. pc'[p] = "sweep" /\ need'[p] = Used /\ snapshots' = snapshots
    BY <1>2 DEF Mark, TypeOK, Used, repoVars
  <2> QED BY <2>1 DEF PruneInv, Used
<1>3. CASE WriteKept(p)
  <2>1. /\ pc'[p] = "unindex" /\ need[p] = Used
        /\ stored' = stored /\ snapshots' = snapshots
        /\ oldIndexes'[p] = indexes
        /\ doomed'[p] = (Indexed \cup stored) \ Kept(p)
    BY <1>3 DEF WriteKept, TypeOK, PruneInv
  <2>2. Indexed' = Indexed \cup Kept(p) /\ Remaining(p)' = Kept(p)
    BY <1>3, <2>1, ReplacingIndex DEF WriteKept
  <2>3. Used' = Used
    BY <2>1 DEF Used
  <2>4. Kept(p) = {k \in Indexed : k.blobs \cap Used # {}}
    BY <2>1 DEF Kept
  <2> QED BY <2>1, <2>2, <2>3, <2>4 DEF PruneInv
<1>4. CASE RemoveOldIndex(p) /\ op[p] = "retain"
  <2>1. PICK i \in oldIndexes[p] :
          /\ indexes' = indexes \ {i}
          /\ oldIndexes' = [oldIndexes EXCEPT ![p] = @ \ {i}]
    BY <1>4 DEF RemoveOldIndex
  <2>2. /\ pc[p] = "unindex"
        /\ stored' = stored /\ snapshots' = snapshots /\ pc' = pc /\ op' = op
        /\ doomed' = doomed
    BY <1>4 DEF RemoveOldIndex
  <2>3. oldIndexes'[p] = oldIndexes[p] \ {i}
    BY <2>1 DEF TypeOK
  <2>4. indexes' \ oldIndexes'[p] = indexes \ oldIndexes[p] /\ indexes' \subseteq indexes
    BY <2>1, <2>3
  <2>5. Remaining(p)' = Remaining(p) /\ Indexed' \subseteq Indexed /\ Used' = Used
    BY <2>2, <2>4, PacksMono DEF Remaining, Indexed, Used
  <2> QED BY <1>4, <2>2, <2>5 DEF PruneInv
<1>5. CASE DeletePack(p)
  <2>1. PICK k \in doomed[p] :
          /\ stored' = stored \ {k}
          /\ doomed' = [doomed EXCEPT ![p] = @ \ {k}]
    BY <1>5 DEF DeletePack
  <2>2. /\ pc[p] = "unindex" /\ op[p] = "retain"
        /\ indexes' = indexes /\ snapshots' = snapshots /\ pc' = pc /\ op' = op
        /\ oldIndexes' = oldIndexes
    BY <1>5 DEF DeletePack
  <2>3. doomed'[p] = doomed[p] \ {k}
    BY <2>1 DEF TypeOK
  <2>4. Remaining(p)' = Remaining(p) /\ Indexed' = Indexed /\ Used' = Used
    BY <2>2 DEF Remaining, Indexed, Used
  <2> QED BY <2>1, <2>2, <2>3, <2>4 DEF PruneInv
<1>6. ASSUME ~Mark(p), ~WriteKept(p), ~DeletePack(p),
             ~(RemoveOldIndex(p) /\ op[p] = "retain")
      PROVE  pc'[p] # "sweep" /\ ~(pc'[p] = "unindex" /\ op'[p] = "retain")
  <2>1. CASE \E o \in Op, t \in Tag \cup {NoTag} : Open(p, o, t)
    BY <2>1 DEF Open, TypeOK
  <2>2. CASE Lock(p)
    BY <2>2, FirstPhases DEF Lock, TypeOK, Op
  <2>3. CASE Stop(p) \/ SaveSnapshot(p)
    BY <2>3 DEF Stop, SaveSnapshot, End, TypeOK
  <2>4. CASE Walk(p) \/ SavePack(p) \/ SaveIndex(p) \/ Forget(p)
    BY <2>4 DEF Walk, SavePack, SaveIndex, Forget, procVars, TypeOK
  <2>5. CASE RemoveOldIndex(p)
    BY <1>6, <2>5 DEF RemoveOldIndex
  <2>6. CASE Rebuild(p)
    BY <2>6 DEF Rebuild, TypeOK, OnlyWriter
  <2>7. CASE Restore(p)
    BY <2>7 DEF Restore, LoadSnapshot, ReadBlob, Expire, procVars, TypeOK
  <2> QED BY <1>6, <2>1, <2>2, <2>3, <2>4, <2>5, <2>6, <2>7
             DEF StepOf, Backup, Retain
<1> QED BY <1>1, <1>2, <1>3, <1>4, <1>5, <1>6

\* What a prune has seen stays so until it is done: it is the only writer.
LEMMA TidyStep ==
    ASSUME TidyInv, [Next]_vars
    PROVE  TidyInv'
<1> USE DEF TidyInv
<1>1. TypeOK'
  BY TypeStep
<1>2. CASE UNCHANGED vars
  <2>1. /\ UNCHANGED <<stored, indexes, snapshots, writers>>
        /\ UNCHANGED <<pc, op, need, oldIndexes, doomed>>
    BY <1>2 DEF vars, repoVars, procVars, lockVars
  <2>2. ASSUME NEW p \in Proc
        PROVE  OnlyWriter(p)' /\ PruneInv(p)'
    <3>1. Remaining(p)' = Remaining(p) /\ Indexed' = Indexed /\ Used' = Used
      BY <2>1 DEF Remaining, Indexed, Used
    <3> QED BY <2>1, <3>1 DEF OnlyWriter, Writes, Saving, PruneInv
  <2> QED BY <1>1, <2>2
<1>3. ASSUME NEW p \in Proc, StepOf(p)
      PROVE  TidyInv'
  <2>1. StepShape(p)
    BY <1>3, StepsHaveShape
  <2>2. PruneInv(p)'
    BY <1>3, PruneStep
  <2>3. ASSUME NEW q \in Proc \ {p}
        PROVE  OnlyWriter(q)' /\ PruneInv(q)'
    <3>1. SameCommand(q) /\ OnlyWriter(q)'
      BY <2>1, OthersKeepLock DEF StepShape
    <3>2. CASE UNCHANGED <<stored, indexes, snapshots>>
      <4>1. Remaining(q)' = Remaining(q) /\ Indexed' = Indexed /\ Used' = Used
        BY <3>1, <3>2 DEF SameCommand, Remaining, Indexed, Used
      <4> QED BY <3>1, <3>2, <4>1 DEF SameCommand, PruneInv
    <3>3. CASE Writes(p)
      BY <3>1, <3>3 DEF OnlyWriter, SameCommand, Writes, PruneInv
    <3> QED BY <2>1, <3>1, <3>2, <3>3 DEF StepShape
  <2> QED BY <1>1, <2>1, <2>2, <2>3 DEF StepShape
<1> QED BY <1>2, <1>3 DEF Next, StepOf

\* What prunes have seen, with any number of hosts.
THEOREM TidyInvariance == Spec => []TidyInv
<1>1. Init => TidyInv
  <2> SUFFICES ASSUME Init
               PROVE  TidyInv
    OBVIOUS
  <2>1. TypeOK
    BY DEF Init, TypeOK, LockInit, LockTypeOK, Phases, Op
  <2>2. \A p \in Proc : pc[p] = "idle"
    BY DEF Init
  <2> QED BY <2>1, <2>2 DEF TidyInv, OnlyWriter, Writes, Saving, PruneInv
<1>2. TidyInv /\ [Next]_vars => TidyInv'
  BY TidyStep
<1> QED BY <1>1, <1>2, PTL DEF Spec

\* A finished prune leaves no pack that no snapshot needs or no index lists,
\* with any number of hosts and whatever stopped before it.
THEOREM PrunesAreClean == Spec => []PruneLeavesNoGarbage
<1>1. TidyInv => PruneLeavesNoGarbage
  <2> SUFFICES ASSUME TidyInv, NEW p \in Proc, pc[p] = "unindex",
                      op[p] = "retain", oldIndexes[p] = {}, doomed[p] = {},
                      NEW k \in stored
               PROVE  k \in Indexed /\ \E s \in snapshots : k.blobs \cap s.blobs # {}
    BY DEF PruneLeavesNoGarbage
  <2>1. Remaining(p) = Indexed
    BY DEF Remaining, Indexed
  <2>2. k \in Indexed /\ k.blobs \cap Used # {}
    BY <2>1 DEF TidyInv, PruneInv
  <2> QED BY <2>2 DEF Used
<1> QED BY <1>1, TidyInvariance, PTL

-----------------------------------------------------------------------------
(* Restores and recovery points, with one runner.                          *)

Times ==
    /\ IsFiniteSet(snapshots)
    /\ \A s \in snapshots : s.time < clock
    /\ \A s, t \in snapshots : s.time = t.time => s = t

\* A restore reads its index before it has its lock: what comes in between
\* leaves the packs its snapshot needs, if it leaves the snapshot.
WillFind(p) ==
    pc[p] = "load" \/ (pc[p] = "opened" /\ op[p] = "restore") =>
        /\ target[p] < clock
        /\ \A s \in snapshots :
              s.time = target[p] => s.blobs \subseteq BlobsOf(known[p] \cap Indexed)

Finds(p) ==
    p \in readers /\ pc[p] = "read" => need[p] \subseteq BlobsOf(known[p] \cap stored)

ReadersAlone == readers # {} => writers = {}

RestoreInv ==
    /\ Times
    /\ ReadersAlone
    /\ \A p \in Proc : WillFind(p) /\ Finds(p)

\* No step takes away an indexed pack that a snapshot needs ...
LEMMA UsefulStay ==
    ASSUME IInv, TidyInv, NEW p \in Proc, StepOf(p),
           NEW k \in Indexed, k.blobs \cap Used # {}
    PROVE  k \in Indexed'
<1>1. CASE RemoveOldIndex(p)
  <2>1. PICK i \in oldIndexes[p] :
          /\ indexes' = indexes \ {i}
          /\ oldIndexes' = [oldIndexes EXCEPT ![p] = @ \ {i}]
    BY <1>1 DEF RemoveOldIndex
  <2>2. pc[p] = "unindex" /\ op[p] \in {"retain", "repair"}
    BY <1>1 DEF RemoveOldIndex, IInv, OnlyWriter
  <2>3. k \in stored
    BY DEF IInv, IndexNeverDangles
  <2>4. k \in Remaining(p)
    BY <2>2, <2>3 DEF IInv, NewIndexSuffices, TidyInv, PruneInv
  <2>5. indexes \ oldIndexes[p] \subseteq indexes'
    BY <2>1
  <2> QED BY <2>4, <2>5, PacksMono DEF Remaining, Indexed
<1>2. CASE ~RemoveOldIndex(p)
  <2>1. indexes \subseteq indexes'
    BY <1>2 DEF StepOf, Open, Lock, Stop, Backup, Walk, SavePack, SaveIndex,
       SaveSnapshot, Retain, Forget, Mark, WriteKept, DeletePack, Rebuild, Restore,
       LoadSnapshot, ReadBlob, Expire, AddIndex, repoVars
  <2> QED BY <2>1, PacksMono DEF Indexed
<1> QED BY <1>1, <1>2

\* ... and snapshots come one at a time, each later than all others, and go
\* when there are KeepLast newer ones.
LEMMA SnapshotStep ==
    ASSUME TypeOK, NEW p \in Proc, StepOf(p)
    PROVE  \/ snapshots' = snapshots /\ clock' = clock
           \/ /\ \E x \in Snapshot : x.time = clock
                                     /\ snapshots' = snapshots \cup {x}
              /\ clock' = clock + 1
           \/ /\ \E s \in Mine(tag[p]) :
                    /\ \A t \in Mine(tag[p]) : s.time <= t.time
                    /\ snapshots' = snapshots \ {s}
              /\ Cardinality(Mine(tag[p])) > KeepLast
              /\ clock' = clock
<1>1. CASE SaveSnapshot(p)
  <2> DEFINE x == [time |-> clock, tag |-> tag[p], blobs |-> need[p]]
  <2>1. x \in Snapshot /\ x.time = clock
    BY DEF TypeOK, Snapshot
  <2>2. snapshots' = snapshots \cup {x} /\ clock' = clock + 1
    BY <1>1 DEF SaveSnapshot
  <2> QED BY <2>1, <2>2
<1>2. CASE Forget(p)
  BY <1>2 DEF Forget
<1>3. CASE ~SaveSnapshot(p) /\ ~Forget(p)
  BY <1>3 DEF StepOf, Open, Lock, Stop, Backup, Walk, SavePack, SaveIndex,
     Retain, Mark, WriteKept, RemoveOldIndex, DeletePack, Rebuild, Restore,
     LoadSnapshot, ReadBlob, Expire, repoVars
<1> QED BY <1>1, <1>2, <1>3

LEMMA TimesStep ==
    ASSUME TypeOK, Times, NEW p \in Proc, StepOf(p)
    PROVE  /\ Times'
           /\ clock \in Nat /\ clock' >= clock
           /\ \A s \in snapshots' \ snapshots : s.time = clock
<1> USE DEF Times
<1>1. clock \in Nat /\ \A s \in snapshots : s.time \in Nat
  BY DEF TypeOK, Snapshot
<1>2. CASE snapshots' = snapshots /\ clock' = clock
  BY <1>1, <1>2
<1>3. ASSUME NEW x \in Snapshot, x.time = clock,
             snapshots' = snapshots \cup {x}, clock' = clock + 1
      PROVE  /\ Times' /\ clock' >= clock
             /\ \A s \in snapshots' \ snapshots : s.time = clock
  <2>1. IsFiniteSet(snapshots')
    BY <1>3, FS_AddElement
  <2> QED BY <1>1, <1>3, <2>1
<1>4. ASSUME NEW s, snapshots' = snapshots \ {s}, clock' = clock
      PROVE  /\ Times' /\ clock' >= clock
             /\ \A t \in snapshots' \ snapshots : t.time = clock
  <2>1. IsFiniteSet(snapshots')
    BY <1>4, FS_RemoveElement
  <2> QED BY <1>1, <1>4, <2>1
<1> QED BY <1>1, <1>2, <1>3, <1>4, SnapshotStep

\* Of the restores, a step of p changes p's only.
LEMMA RestoreShape ==
    ASSUME TypeOK, ReadersAlone, NEW p \in Proc, StepOf(p)
    PROVE  /\ \A q \in Proc \ {p} : target'[q] = target[q]
           /\ readers' \subseteq readers \cup {p}
           /\ ReadersAlone'
<1>1. CASE \E o \in Op, t \in Tag \cup {NoTag} : Open(p, o, t)
  BY <1>1 DEF Open, lockVars, TypeOK, ReadersAlone
<1>2. CASE Lock(p)
  BY <1>2 DEF Lock, AcquireRead, AcquireWrite, ReadersAlone
<1>3. CASE Stop(p) \/ SaveSnapshot(p)
  BY <1>3 DEF Stop, SaveSnapshot, End, TypeOK, ReadersAlone
<1>4. CASE Restore(p)
  BY <1>4 DEF Restore, LoadSnapshot, ReadBlob, Expire, LeaveRead, procVars,
              lockVars, ReadersAlone
<1>5. CASE Walk(p) \/ SavePack(p) \/ SaveIndex(p) \/ Retain(p) \/ Rebuild(p)
  BY <1>5 DEF Walk, SavePack, SaveIndex, Retain, Forget, Mark, WriteKept,
     RemoveOldIndex, DeletePack, Rebuild, procVars, lockVars, ReadersAlone
<1> QED BY <1>1, <1>2, <1>3, <1>4, <1>5 DEF StepOf, Backup

LEMMA OwnRestoreStep ==
    ASSUME IInv, RestoreInv, NEW p \in Proc, StepOf(p)
    PROVE  WillFind(p)' /\ Finds(p)'
<1> USE DEF RestoreInv
<1>0. TypeOK
  BY DEF IInv
<1>1. ASSUME NEW o \in Op, NEW t \in Tag \cup {NoTag}, Open(p, o, t)
      PROVE  WillFind(p)' /\ Finds(p)'
  <2>1. pc'[p] = "opened" /\ op'[p] = o /\ UNCHANGED repoVars
        /\ (o = "restore" => known'[p] = Indexed
                             /\ \E s \in snapshots : target'[p] = s.time)
    BY <1>0, <1>1 DEF Open, TypeOK
  <2>2. Indexed' = Indexed /\ clock' = clock /\ snapshots' = snapshots
    BY <2>1 DEF repoVars, Indexed
  <2>3. o = "restore" => target'[p] < clock'
    BY <2>1, <2>2 DEF Times
  <2>4. o = "restore" => known'[p] \cap Indexed' = Indexed
    BY <2>1, <2>2
  <2>5. \A s \in snapshots : s.blobs \subseteq BlobsOf(Indexed)
    BY IndexServes
  <2> QED BY <2>1, <2>2, <2>3, <2>4, <2>5 DEF WillFind, Finds
<1>2. CASE Lock(p)
  <2>1. /\ pc'[p] = FirstPhase[op[p]] /\ pc[p] = "opened" /\ op[p] \in Op
        /\ UNCHANGED <<repoVars, known, target>>
    BY <1>0, <1>2 DEF Lock, TypeOK
  <2>2. Indexed' = Indexed /\ clock' = clock /\ snapshots' = snapshots
    BY <2>1 DEF repoVars, Indexed
  <2>3. pc'[p] # "read" /\ pc'[p] # "opened"
        /\ (pc'[p] = "load" => op[p] = "restore")
    BY <2>1, FirstPhases DEF Op
  <2> QED BY <2>1, <2>2, <2>3 DEF WillFind, Finds
<1>3. CASE Stop(p) \/ SaveSnapshot(p)
  BY <1>0, <1>3 DEF Stop, SaveSnapshot, End, TypeOK, WillFind, Finds
<1>4. CASE LoadSnapshot(p)
  <2>1. PICK s \in snapshots : s.time = target[p] /\ need' = [need EXCEPT ![p] = s.blobs]
    BY <1>4 DEF LoadSnapshot
  <2>2. /\ pc[p] = "load" /\ pc'[p] = "read"
        /\ UNCHANGED <<repoVars, known>>
    BY <1>0, <1>4 DEF LoadSnapshot, TypeOK
  <2>3. s.blobs \subseteq BlobsOf(known[p] \cap Indexed)
    BY <2>1, <2>2 DEF WillFind
  <2>4. BlobsOf(known[p] \cap Indexed) \subseteq BlobsOf(known[p] \cap stored)
    <3>1. known[p] \cap Indexed \subseteq known[p] \cap stored
      BY DEF IInv, IndexNeverDangles
    <3> QED BY <3>1, BlobsMono
  <2>5. need'[p] = s.blobs
    BY <1>0, <2>1 DEF TypeOK
  <2> QED BY <2>2, <2>3, <2>4, <2>5 DEF WillFind, Finds, repoVars
<1>5. CASE ReadBlob(p)
  <2>1. /\ pc[p] = "read" /\ need'[p] \subseteq need[p]
        /\ UNCHANGED <<repoVars, lockVars, pc, known>>
    BY <1>0, <1>5 DEF ReadBlob, TypeOK
  <2> QED BY <2>1 DEF WillFind, Finds, repoVars, lockVars
<1>6. CASE Expire(p)
  BY <1>6 DEF Expire, LeaveRead, procVars, WillFind, Finds
<1>7. CASE Walk(p) \/ SavePack(p) \/ SaveIndex(p) \/ Retain(p) \/ Rebuild(p)
  <2>1. pc'[p] \in {"save", "index", "forget", "sweep", "unindex"}
    BY <1>0, <1>7 DEF Walk, SavePack, SaveIndex, Retain, Forget, Mark, WriteKept,
       RemoveOldIndex, DeletePack, Rebuild, procVars, TypeOK
  <2> QED BY <2>1 DEF WillFind, Finds
<1> QED BY <1>1, <1>2, <1>3, <1>4, <1>5, <1>6, <1>7
           DEF StepOf, Backup, Restore

LEMMA RestoreInvStep ==
    ASSUME IInv, TidyInv, RestoreInv, [Next]_vars
    PROVE  RestoreInv'
<1>1. CASE UNCHANGED vars
  <2>1. UNCHANGED <<stored, indexes, snapshots, clock, pc, op, target, known,
                    need, readers, writers>>
    BY <1>1 DEF vars, repoVars, procVars, lockVars
  <2>2. Indexed' = Indexed
    BY <2>1 DEF Indexed
  <2> QED BY <2>1, <2>2 DEF RestoreInv, Times, ReadersAlone, WillFind, Finds
<1>2. ASSUME NEW p \in Proc, StepOf(p)
      PROVE  RestoreInv'
  <2>1. TypeOK /\ OnlyWriter(p)
    BY DEF TidyInv
  <2>2. StepShape(p)
    BY <1>2, <2>1, StepsHaveShape
  <2>3. Times' /\ clock \in Nat /\ clock' >= clock
        /\ (\A s \in snapshots' \ snapshots : s.time = clock)
    BY <1>2, <2>1, TimesStep DEF RestoreInv
  <2>4. /\ \A q \in Proc \ {p} : target'[q] = target[q]
        /\ readers' \subseteq readers \cup {p}
        /\ ReadersAlone'
    BY <1>2, <2>1, RestoreShape DEF RestoreInv
  <2>5. WillFind(p)' /\ Finds(p)'
    BY <1>2, OwnRestoreStep
  <2>6. ASSUME NEW q \in Proc \ {p}
        PROVE  WillFind(q)' /\ Finds(q)'
    <3>1. SameCommand(q)
      BY <2>2 DEF StepShape
    <3>2. ASSUME pc[q] = "load" \/ (pc[q] = "opened" /\ op[q] = "restore")
          PROVE  /\ target[q] < clock'
                 /\ \A s \in snapshots' :
                       s.time = target[q] =>
                           s.blobs \subseteq BlobsOf(known[q] \cap Indexed')
      <4>1. /\ target[q] < clock
            /\ \A s \in snapshots :
                  s.time = target[q] => s.blobs \subseteq BlobsOf(known[q] \cap Indexed)
        BY <3>2 DEF RestoreInv, WillFind
      <4>2. target[q] \in Nat /\ clock' \in Nat
        <5>1. TypeOK'
          BY <1>2, <2>1, TypeStep DEF Next, StepOf
        <5> QED BY <2>1, <5>1 DEF TypeOK
      <4>3. ASSUME NEW s \in snapshots', s.time = target[q], NEW b \in s.blobs
            PROVE  b \in BlobsOf(known[q] \cap Indexed')
        <5>1. s \in snapshots
          BY <2>3, <4>1, <4>2, <4>3
        <5>2. PICK k \in known[q] \cap Indexed : b \in k.blobs
          BY <4>1, <4>3, <5>1 DEF BlobsOf
        <5>3. k.blobs \cap Used # {}
          BY <4>3, <5>1, <5>2 DEF Used
        <5>4. k \in Indexed'
          BY <1>2, <5>2, <5>3, UsefulStay
        <5> QED BY <5>2, <5>4 DEF BlobsOf
      <4> QED BY <2>3, <4>1, <4>2, <4>3
    <3>3. WillFind(q)'
      BY <2>4, <3>1, <3>2 DEF WillFind, SameCommand
    <3>4. Finds(q)'
      <4>1. CASE q \notin readers
        BY <2>4, <4>1 DEF Finds
      <4>2. CASE q \in readers
        <5>1. ~Writes(p)
          BY <2>1, <4>2 DEF OnlyWriter, RestoreInv, ReadersAlone
        <5>2. stored' = stored
          BY <2>2, <5>1 DEF StepShape
        <5> QED BY <3>1, <4>2, <5>2 DEF RestoreInv, Finds, SameCommand
      <4> QED BY <4>1, <4>2
    <3> QED BY <3>3, <3>4
  <2> QED BY <2>3, <2>4, <2>5, <2>6 DEF RestoreInv
<1> QED BY <1>1, <1>2 DEF Next, StepOf

\* What tidy prunes and one runner add up to for restores and retention.
THEOREM RestoreInvariance ==
    ASSUME OneRunner
    PROVE  Spec => [](IInv /\ TidyInv /\ RestoreInv)
<1>1. Init => RestoreInv
  <2> SUFFICES ASSUME Init
               PROVE  RestoreInv
    OBVIOUS
  <2>1. Times /\ ReadersAlone
    BY FS_EmptySet DEF Init, LockInit, Times, ReadersAlone
  <2>2. \A p \in Proc : pc[p] = "idle"
    BY DEF Init
  <2> QED BY <2>1, <2>2 DEF RestoreInv, WillFind, Finds
<1>2. IInv /\ TidyInv /\ RestoreInv /\ [Next]_vars => RestoreInv'
  BY RestoreInvStep
<1> QED BY <1>1, <1>2, Invariance, TidyInvariance, PTL DEF Spec

\* A restore that could load its snapshot finds every blob of it while its lock
\* exists, although it read the index before it took the lock.
THEOREM RestoresFindAll ==
    ASSUME OneRunner
    PROVE  Spec => []RestoresComplete
<1>1. IInv /\ RestoreInv => RestoresComplete
  <2> SUFFICES ASSUME IInv, RestoreInv, NEW p \in readers, pc[p] = "read",
                      NEW b \in need[p]
               PROVE  CanLoad(p, b)
    BY DEF RestoresComplete
  <2>1. p \in Proc
    BY DEF IInv, TypeOK, LockTypeOK
  <2> QED BY <2>1 DEF RestoreInv, Finds, CanLoad, BlobsOf
<1> QED BY <1>1, RestoreInvariance, PTL

\* Cardinality means the same in either module.
LEMMA PointsCardinality == \A S : Points!Cardinality(S) = Cardinality(S)
BY Zenon DEF Points!Cardinality, Cardinality

\* Snapshots are recovery points: a step of a command adds the newest, or drops
\* the oldest of a tag that has more than KeepLast.
LEMMA SnapshotsArePoints ==
    ASSUME IInv, IInv', RestoreInv, [Next]_vars
    PROVE  [Points!PointsNext]_({s \in snapshots : Restorable(s)})
<1>1. /\ {s \in snapshots : Restorable(s)} = snapshots
      /\ {s \in snapshots : Restorable(s)}' = snapshots'
  BY DEF IInv, SnapshotsRestorable
<1>2. CASE snapshots' = snapshots
  BY <1>1, <1>2
<1>3. ASSUME NEW x \in Snapshot, x.time = clock, snapshots' = snapshots \cup {x}
      PROVE  Points!Add
  BY <1>1, <1>3 DEF Points!Add, RestoreInv, Times
<1>4. ASSUME NEW p \in Proc, NEW s \in Mine(tag[p]),
             \A t \in Mine(tag[p]) : s.time <= t.time,
             snapshots' = snapshots \ {s},
             Cardinality(Mine(tag[p])) > KeepLast
      PROVE  Points!Drop
  <2>1. s \in snapshots /\ s.tag = tag[p]
    BY DEF Mine
  <2>2. \A t \in snapshots : t.time \in Nat
    BY DEF IInv, TypeOK, Snapshot
  <2>3. Points!Newer(s, snapshots') = Mine(tag[p]) \ {s}
    BY <1>4, <2>1, <2>2 DEF Points!Newer, Mine, RestoreInv, Times
  <2>4. IsFiniteSet(Mine(tag[p]))
    BY FS_Subset DEF RestoreInv, Times, Mine
  <2>5. /\ Cardinality(Mine(tag[p]) \ {s}) = Cardinality(Mine(tag[p])) - 1
        /\ Cardinality(Mine(tag[p])) \in Nat
    BY <2>4, FS_RemoveElement, FS_CardinalityType
  <2>6. Points!Cardinality(Points!Newer(s, snapshots')) >= KeepLast
    <3>1. Cardinality(Mine(tag[p]) \ {s}) >= KeepLast
      BY <1>4, <2>5, RepoAssumption
    <3>2. Points!Cardinality(Mine(tag[p]) \ {s}) = Cardinality(Mine(tag[p]) \ {s})
      BY PointsCardinality
    <3> QED BY <2>3, <3>1, <3>2
  <2> QED BY <1>1, <1>4, <2>1, <2>6 DEF Points!Drop
<1>5. CASE UNCHANGED vars
  BY <1>1, <1>5 DEF vars, repoVars
<1>6. ASSUME NEW p \in Proc, StepOf(p)
      PROVE  [Points!PointsNext]_({s \in snapshots : Restorable(s)})
  <2>1. TypeOK
    BY DEF IInv
  <2> QED BY <1>2, <1>3, <1>4, <1>6, <2>1, SnapshotStep DEF Points!PointsNext
<1> QED BY <1>5, <1>6 DEF Next, StepOf

\* The repository implements RecoveryPoints: no crash, prune or repair takes a
\* restorable snapshot away before KeepLast newer ones of its tag exist.
THEOREM RepositoryKeepsPoints ==
    ASSUME OneRunner
    PROVE  Spec => KeepsRecoveryPoints
<1>1. Init => Points!PointsInit
  BY DEF Init, Points!PointsInit
<1>2. IInv /\ IInv' /\ RestoreInv /\ [Next]_vars =>
          [Points!PointsNext]_({s \in snapshots : Restorable(s)})
  BY SnapshotsArePoints
<1> QED BY <1>1, <1>2, RestoreInvariance, PTL DEF Spec, KeepsRecoveryPoints, Points!PointsSpec

-----------------------------------------------------------------------------
(* The check: what it has found when it is done.                           *)

\* A repository nobody damaged is as the commands leave it, and keys go only
\* where they may.
HarmInv ==
    /\ harm = 0 => bad = NoDamage /\ keys = Key /\ IInv
    /\ KeysMayGo \/ keys # {}

\* While the check loads, it has the packs of the files it has loaded, and
\* names the files it could not read.
LoadInv ==
    ck = "load" =>
        /\ found.broken_key = (keys \cap bad.keys) \cup Missed("key")
        /\ keys \ found.broken_key # {}
        /\ found.broken_config <=> (bad.config \/ Missed("config") # {})
        /\ \A kind \in {"snapshot", "header", "tree", "blob"} : Missed(kind) = {}
        /\ ~overtaken =>
              /\ todo \subseteq indexes
              /\ Missed("index") \subseteq indexes \ todo
              /\ packs = PacksOf({i \in (indexes \ todo) \ Missed("index") :
                                     i.id \notin bad.indexes})
              /\ found.broken_index =
                    {i.id : i \in {j \in indexes \ todo : j.id \in bad.indexes}
                                      \cup Missed("index")}

\* Every blob of s is where a client can read it, as far as walks look.
WalkedWell(s) ==
    \A b \in s.blobs :
        \E k \in packs : b \in k.blobs /\ (b \in TreeBlob => Intact(k, b))

SawAll ==
    /\ packs = Readable
    /\ Missed("index") \subseteq indexes
    /\ found.broken_index =
          {i.id : i \in {j \in indexes : j.id \in bad.indexes} \cup Missed("index")}
    /\ found.broken_snapshot =
          ({s.time : s \in snapshots} \cap bad.snapshots) \cup Missed("snapshot")
    /\ found.missing_pack = {k.id : k \in packs \ stored}
    /\ found.broken_pack =
          ({k.id : k \in packs \cap stored} \cap bad.headers) \cup Missed("header")
    /\ found.orphaned_pack = {k.id : k \in stored \ packs}
    /\ readData => \A k \in packs \cap stored : \A b \in k.blobs :
                       ~Intact(k, b) => b \in found.corrupt_blob
    /\ \A s \in snapshots :
          \/ s.time \in found.broken_snapshot
          \/ WalkedWell(s)
          \/ s.blobs \cap (found.missing_blob \cup found.corrupt_blob) # {}
    /\ found.missing_blob \subseteq (UNION {s.blobs : s \in snapshots}) \ BlobsOf(packs)
    /\ \A b \in found.corrupt_blob : \E k \in packs :
          b \in k.blobs /\ (~Intact(k, b) \/ <<k.id, b>> \in Missed("tree") \cup Missed("blob"))

\* Without a key nothing else is read.
SawNothing ==
    /\ ~found.broken_config /\ found.broken_index = {} /\ found.broken_snapshot = {}
    /\ found.missing_blob = {} /\ found.corrupt_blob = {}
    /\ found.missing_pack = {} /\ found.broken_pack = {}
    /\ \A kind \in {"config", "index", "snapshot", "header"} : Missed(kind) = {}

DoneInv ==
    ck = "done" =>
        /\ found.broken_key = (keys \cap bad.keys) \cup Missed("key")
        /\ keys \ found.broken_key = {} => SawNothing
        /\ keys \ found.broken_key # {} =>
              /\ found.broken_config <=> (bad.config \/ Missed("config") # {})
              /\ Missed("snapshot") \subseteq found.broken_snapshot
              /\ found.broken_snapshot \subseteq bad.snapshots \cup Missed("snapshot")
              /\ Missed("header") \subseteq found.broken_pack
              /\ found.broken_pack \subseteq bad.headers \cup Missed("header")
              /\ ~overtaken => SawAll

CheckInv ==
    /\ TypeOK /\ CheckTypeOK
    /\ LoadInv /\ DoneInv

\* The commands beside a check are RepoStore's.
LEMMA CommandIsStep ==
    ASSUME NEW p \in Proc, Command(p)
    PROVE  StepOf(p)
BY DEF Command, StepOf, Backup, Retain

LEMMA CommandsAreSteps ==
    ASSUME Commands
    PROVE  Next
BY CommandIsStep DEF Commands, Next, StepOf

\* A check takes and leaves its non-exclusive lock.
LEMMA OnlyReaders ==
    ASSUME TypeOK, UNCHANGED <<repoVars, procVars, writers>>, readers' \subseteq Proc
    PROVE  /\ TypeOK'
           /\ IInv => IInv'
<1>1. TypeOK'
  BY DEF TypeOK, LockTypeOK, repoVars, procVars
<1>2. ASSUME IInv
      PROVE  IInv'
  <2> DEFINE p == Checker
  <2>1. p \in Proc
    BY CheckAssumption
  <2> HIDE DEF p
  <2>2. /\ \A q \in Proc : SameCommand(q)
        /\ writers' = writers /\ Indexed' = Indexed /\ pc' = pc /\ op' = op
        /\ stored' = stored /\ snapshots' = snapshots
        /\ Remaining(p)' = Remaining(p)
    BY DEF SameCommand, procVars, repoVars, Indexed, Remaining
  <2>3. CommandInv(p)'
    BY <1>2, <2>1, <2>2 DEF IInv, CommandInv, SameCommand, OnlyWriter, Writes,
       Saving, KnowsIndexed, LosesNothing, SweepSeesAll, NewIndexSuffices
  <2> QED BY <1>1, <1>2, <2>1, <2>2, <2>3, QuietStep DEF LockStep
<1> QED BY <1>1, <1>2

LEMMA CheckReaders ==
    ASSUME TypeOK, CheckOpen \/ LoadIndex \/ CheckRepository \/ CheckEnd
    PROVE  UNCHANGED <<repoVars, procVars, writers, harmVars>> /\ readers' \subseteq Proc
BY CheckAssumption DEF TypeOK, LockTypeOK, CheckOpen, LoadIndex, CheckRepository,
   CheckEnd, AcquireRead, lockVars

\* Damage comes between commands.
LEMMA DamageShape ==
    ASSUME TypeOK, CheckTypeOK, Corrupt \/ Lose
    PROVE  /\ ck = "idle" /\ UNCHANGED checkVars
           /\ TypeOK'
           /\ keys' \subseteq Key /\ bad' \in Damage
           /\ harm' \in 1 .. MaxHarm
           /\ KeysMayGo \/ keys # {} => KeysMayGo \/ keys' # {}
<1>1. /\ ck = "idle" /\ harm < MaxHarm /\ harm' = harm + 1
      /\ UNCHANGED <<clock, procVars, lockVars, checkVars>>
  BY DEF Corrupt, Lose, Harm
<1>2. harm' \in 1 .. MaxHarm
  BY <1>1, CheckAssumption DEF CheckTypeOK
<1>3. CASE Corrupt
  <2>1. UNCHANGED <<stored, indexes, snapshots, keys>>
    BY <1>3 DEF Corrupt
  <2>2. bad' \in Damage
    <3>1. /\ keys \subseteq Key /\ bad \in Damage
          /\ \A i \in indexes : i.id \in IndexId
          /\ \A s \in snapshots : s.time \in Nat
          /\ \A k \in stored : k.id \in PackId /\ k.blobs \subseteq Blob
      BY DEF TypeOK, CheckTypeOK, IndexFile, Snapshot, Pack
    <3>2. CASE \E k \in keys : bad' = [bad EXCEPT !.keys = @ \cup {k}]
      BY <3>1, <3>2 DEF Damage
    <3>3. CASE bad' = [bad EXCEPT !.config = TRUE]
      BY <3>1, <3>3 DEF Damage
    <3>4. CASE \E i \in indexes : bad' = [bad EXCEPT !.indexes = @ \cup {i.id}]
      BY <3>1, <3>4 DEF Damage
    <3>5. CASE \E s \in snapshots : bad' = [bad EXCEPT !.snapshots = @ \cup {s.time}]
      BY <3>1, <3>5 DEF Damage
    <3>6. CASE \E k \in stored : bad' = [bad EXCEPT !.headers = @ \cup {k.id}]
      BY <3>1, <3>6 DEF Damage
    <3>7. CASE \E k \in stored : \E b \in k.blobs :
                  bad' = [bad EXCEPT !.blobs = @ \cup {<<k.id, b>>}]
      <4>1. PICK k \in stored : \E b \in k.blobs :
                  bad' = [bad EXCEPT !.blobs = @ \cup {<<k.id, b>>}]
        BY <3>7
      <4>2. PICK b \in k.blobs : bad' = [bad EXCEPT !.blobs = @ \cup {<<k.id, b>>}]
        BY <4>1
      <4>3. <<k.id, b>> \in BlobsAt
        BY <3>1 DEF BlobsAt
      <4> QED BY <3>1, <4>2, <4>3 DEF Damage
    <3> QED BY <1>3, <3>2, <3>3, <3>4, <3>5, <3>6, <3>7 DEF Corrupt
  <2> QED BY <1>1, <1>2, <2>1, <2>2 DEF TypeOK, LockTypeOK, CheckTypeOK, procVars,
                                        lockVars
<1>4. CASE Lose
  <2>1. /\ stored' \subseteq stored /\ indexes' \subseteq indexes
        /\ keys' \subseteq keys /\ UNCHANGED <<snapshots, bad>>
        /\ keys' = keys \/ keys' # {} \/ KeysMayGo
    BY <1>4 DEF Lose
  <2> QED BY <1>1, <1>2, <2>1 DEF TypeOK, LockTypeOK, CheckTypeOK, procVars, lockVars
<1> QED BY <1>1, <1>2, <1>3, <1>4

\* Ids and blobs of what is in the repository.
LEMMA Ids ==
    ASSUME TypeOK, CheckTypeOK
    PROVE  /\ \A i \in indexes \cup todo : i.id \in IndexId /\ i.packs \subseteq Pack
           /\ \A s \in snapshots : s.time \in Nat /\ s.blobs \subseteq Blob
           /\ \A k \in stored \cup packs : k.id \in PackId /\ k.blobs \subseteq Blob
           /\ BlobsOf(packs) \subseteq Blob
BY DEF TypeOK, CheckTypeOK, IndexFile, Snapshot, Pack, BlobsOf

\* The reads of a kind that failed are reads of that kind.
LEMMA OfUnion ==
    ASSUME NEW a, NEW b, NEW kind
    PROVE  Of(a \cup b, kind) = Of(a, kind) \cup Of(b, kind)
BY DEF Of

LEMMA OfReads ==
    ASSUME NEW kind, NEW files, NEW failed, failed \subseteq Reads(kind, files)
    PROVE  /\ Of(failed, kind) \subseteq files
           /\ \A other : other # kind => Of(failed, other) = {}
BY DEF Of, Reads

LEMMA OfNone == \A kind : Of({}, kind) = {}
BY DEF Of

LEMMA FailedIsRead ==
    ASSUME NEW reads, NEW failed \in SomeFail(reads)
    PROVE  failed \subseteq reads
<1> DEFINE left == MaxHarm - harm - Cardinality(misread)
<1>1. failed = {} \/ \E f \in [1 .. left -> reads] : failed = {f[n] : n \in 1 .. left}
  BY DEF SomeFail
<1> HIDE DEF left
<1>2. CASE failed = {}
  BY <1>2
<1>3. CASE \E f \in [1 .. left -> reads] : failed = {f[n] : n \in 1 .. left}
  BY <1>3
<1> QED BY <1>1, <1>2, <1>3

\* A walk reports something of a snapshot unless all of it is well; what it
\* reports is not listed, or could not be loaded.
LEMMA WalkTells ==
    ASSUME NEW at \in Places, NEW s \in snapshots, NEW failed,
           NEW x \in Walked(s, at, failed)
    PROVE  /\ x \subseteq s.blobs
           /\ WalkedWell(s) \/ s.blobs \cap x # {}
           /\ \A b \in x \cap BlobsOf(packs) : \E k \in packs :
                 b \in k.blobs /\ (~Intact(k, b) \/ <<k.id, b>> \in Of(failed, "tree"))
<1> DEFINE missed == s.blobs \ BlobsOf(packs)
           loads(t) == Intact(at[t], t) /\ <<at[t].id, t>> \notin Of(failed, "tree")
           trees == (missed \cap TreeBlob) \cup {t \in s.blobs \cap DOMAIN at : ~loads(t)}
<1>1. at \in [TreeBlob \cap BlobsOf(packs) -> packs] /\ \A t \in DOMAIN at : t \in at[t].blobs
  BY DEF Places
<1>2. x \in IF trees = {} THEN {missed}
            ELSE {t \in SUBSET (missed \cup trees) : t \cap trees # {}}
  BY DEF Walked
<1>3. missed \subseteq s.blobs /\ trees \subseteq s.blobs
  OBVIOUS
<1>4. \A b \in trees \cap BlobsOf(packs) : \E k \in packs :
          b \in k.blobs /\ (~Intact(k, b) \/ <<k.id, b>> \in Of(failed, "tree"))
  <2> SUFFICES ASSUME NEW b \in trees, b \in BlobsOf(packs)
               PROVE  \E k \in packs : b \in k.blobs
                          /\ (~Intact(k, b) \/ <<k.id, b>> \in Of(failed, "tree"))
    OBVIOUS
  <2>1. b \in DOMAIN at /\ ~loads(b)
    OBVIOUS
  <2>2. at[b] \in packs /\ b \in at[b].blobs
    BY <1>1, <2>1
  <2> QED BY <2>1, <2>2
<1>5. CASE trees = {}
  <2>1. x = missed
    BY <1>2, <1>5
  <2>2. ASSUME missed = {}
        PROVE  WalkedWell(s)
    <3> SUFFICES ASSUME NEW b \in s.blobs
                 PROVE  \E k \in packs : b \in k.blobs /\ (b \in TreeBlob => Intact(k, b))
      BY DEF WalkedWell
    <3>1. PICK k \in packs : b \in k.blobs
      BY <2>2 DEF BlobsOf
    <3>2. CASE b \in TreeBlob
      <4>1. b \in BlobsOf(packs)
        BY <2>2
      <4>2. b \in DOMAIN at /\ at[b] \in packs /\ b \in at[b].blobs
        BY <1>1, <3>2, <4>1
      <4>3. Intact(at[b], b)
        BY <1>5, <4>2
      <4> QED BY <4>2, <4>3
    <3> QED BY <3>1, <3>2
  <2>3. x \cap BlobsOf(packs) = {}
    BY <2>1
  <2> HIDE DEF missed, trees
  <2> QED BY <1>3, <2>1, <2>2, <2>3
<1>6. CASE trees # {}
  <2>1. x \subseteq missed \cup trees /\ x \cap trees # {}
    BY <1>2, <1>6
  <2>2. x \cap BlobsOf(packs) \subseteq trees \cap BlobsOf(packs)
    BY <2>1
  <2> HIDE DEF missed, trees
  <2> QED BY <1>3, <1>4, <2>1, <2>2
<1> QED BY <1>5, <1>6

\* So do the walks of all readable snapshots.
LEMMA TroublesTell ==
    ASSUME NEW at \in Places, NEW failed, NEW trouble \in Troubles(at, failed)
    PROVE  /\ trouble \subseteq UNION {s.blobs : s \in snapshots}
           /\ \A s \in snapshots :
                 \/ s.time \in bad.snapshots \cup Of(failed, "snapshot")
                 \/ WalkedWell(s)
                 \/ s.blobs \cap trouble # {}
           /\ \A b \in trouble \cap BlobsOf(packs) : \E k \in packs :
                 b \in k.blobs /\ (~Intact(k, b) \/ <<k.id, b>> \in Of(failed, "tree"))
<1> DEFINE readable == ReadableSnapshots(failed)
<1>1. PICK w \in [readable -> SUBSET Blob] :
          /\ \A s \in readable : w[s] \in Walked(s, at, failed)
          /\ trouble = UNION {w[s] : s \in readable}
  BY DEF Troubles
<1>2. readable \subseteq snapshots
      /\ \A s \in snapshots : s.time \in bad.snapshots \cup Of(failed, "snapshot")
                              \/ s \in readable
  BY DEF ReadableSnapshots
<1> HIDE DEF readable
<1>3. \A s \in readable :
          /\ w[s] \subseteq s.blobs
          /\ WalkedWell(s) \/ s.blobs \cap w[s] # {}
          /\ \A b \in w[s] \cap BlobsOf(packs) : \E k \in packs :
                b \in k.blobs /\ (~Intact(k, b) \/ <<k.id, b>> \in Of(failed, "tree"))
  BY <1>1, <1>2, WalkTells
<1>4. \A s \in readable : w[s] \subseteq trouble
  BY <1>1
<1>5. trouble \subseteq UNION {s.blobs : s \in snapshots}
  BY <1>1, <1>2, <1>3
<1>6. ASSUME NEW s \in snapshots
      PROVE  \/ s.time \in bad.snapshots \cup Of(failed, "snapshot")
             \/ WalkedWell(s)
             \/ s.blobs \cap trouble # {}
  BY <1>2, <1>3, <1>4
<1>7. ASSUME NEW b \in trouble \cap BlobsOf(packs)
      PROVE  \E k \in packs :
                b \in k.blobs /\ (~Intact(k, b) \/ <<k.id, b>> \in Of(failed, "tree"))
  <2>1. PICK s \in readable : b \in w[s]
    BY <1>1, <1>7
  <2> QED BY <1>3, <1>7, <2>1
<1> QED BY <1>5, <1>6, <1>7

LEMMA CheckOpenStep ==
    ASSUME CheckInv, CheckOpen
    PROVE  CheckTypeOK' /\ LoadInv' /\ DoneInv'
<1> USE DEF CheckInv
<1>1. PICK failed \in SomeFail(Reads("key", keys) \cup Reads("config", {"config"})) :
       LET broken == (keys \cap bad.keys) \cup Of(failed, "key")
           opens == keys \ broken # {}
           unread == Of(failed, "config") # {}
       IN  /\ unread => opens
           /\ misread' = failed
           /\ found' = [NoFindings EXCEPT
                           !.broken_key = broken,
                           !.broken_config = opens /\ (bad.config \/ unread)]
           /\ ck' = IF opens THEN "load" ELSE "done"
           /\ todo' = IF opens THEN indexes ELSE {}
  BY DEF CheckOpen
<1> DEFINE broken == (keys \cap bad.keys) \cup Of(failed, "key")
           opens == keys \ broken # {}
           unread == Of(failed, "config") # {}
           config == opens /\ (bad.config \/ unread)
<1>2. failed \subseteq Reads("key", keys) \cup Reads("config", {"config"})
  BY FailedIsRead
<1>3. /\ Of(failed, "key") \subseteq keys
      /\ \A kind \in {"index", "snapshot", "header", "tree", "blob"} : Of(failed, kind) = {}
      /\ failed \subseteq Read
  BY <1>2 DEF Of, Reads, Read, CheckTypeOK
<1>4. /\ misread' = failed /\ found' = [NoFindings EXCEPT !.broken_key = broken,
                                                          !.broken_config = config]
      /\ unread => opens
      /\ ck' = IF opens THEN "load" ELSE "done"
      /\ todo' = IF opens THEN indexes ELSE {}
  BY <1>1
<1>5. broken \subseteq Key /\ config \in BOOLEAN
  BY <1>3 DEF CheckTypeOK
<1>6. \A kind : Missed(kind)' = Of(failed, kind)
  BY <1>4 DEF Missed
<1>7. /\ UNCHANGED <<repoVars, harmVars>> /\ packs' = {} /\ overtaken' = FALSE
      /\ readData' \in BOOLEAN
  BY DEF CheckOpen
<1>8. /\ found'.broken_key = broken
      /\ found'.broken_config = config
      /\ found'.broken_index = {} /\ found'.broken_snapshot = {}
      /\ found'.missing_blob = {} /\ found'.corrupt_blob = {}
      /\ found'.missing_pack = {} /\ found'.broken_pack = {}
      /\ found' \in Findings
  <2> HIDE DEF broken, config
  <2> QED BY <1>4, <1>5 DEF NoFindings, Findings
<1>9. CheckTypeOK'
  BY <1>3, <1>4, <1>7, <1>8 DEF CheckTypeOK, CheckPhases, TypeOK, harmVars, repoVars
<1>10. Missed("key")' = Of(failed, "key") /\ Missed("config")' = Of(failed, "config")
       /\ broken = (keys' \cap bad'.keys) \cup Missed("key")'
  BY <1>6, <1>7 DEF harmVars
<1>11. DoneInv'
  <2>1. CASE opens
    BY <1>4, <2>1 DEF DoneInv
  <2>2. CASE ~opens
    <3>1. ~unread /\ ~config
      BY <1>4, <2>2
    <3>2. SawNothing'
      BY <1>3, <1>6, <1>8, <1>10, <3>1 DEF SawNothing
    <3>3. keys' \ found'.broken_key = {}
      BY <1>7, <1>8, <2>2 DEF harmVars
    <3> QED BY <1>8, <1>10, <3>2, <3>3 DEF DoneInv
  <2> QED BY <2>1, <2>2
<1>12. LoadInv'
  <2>1. CASE opens
    <3>1. /\ todo' = indexes' /\ indexes' \ todo' = {}
          /\ Missed("index")' = {}
      BY <1>3, <1>4, <1>6, <1>7, <2>1 DEF repoVars
    <3>2. /\ packs' = PacksOf({i \in (indexes' \ todo') \ Missed("index")' :
                                  i.id \notin bad'.indexes})
          /\ found'.broken_index =
                {i.id : i \in {j \in indexes' \ todo' : j.id \in bad'.indexes}
                                  \cup Missed("index")'}
      <4>1. {i \in (indexes' \ todo') \ Missed("index")' : i.id \notin bad'.indexes} = {}
        BY <3>1
      <4>2. {i.id : i \in {j \in indexes' \ todo' : j.id \in bad'.indexes}
                                  \cup Missed("index")'} = {}
        BY <3>1
      <4> QED BY <1>7, <1>8, <4>1, <4>2, PacksNone
    <3>3. keys' \ found'.broken_key # {}
      BY <1>7, <1>8, <2>1 DEF harmVars
    <3>4. found'.broken_config <=> (bad'.config \/ Missed("config")' # {})
      <4>1. bad' = bad /\ bad.config \in BOOLEAN
        BY <1>7 DEF harmVars, CheckTypeOK, Damage
      <4> QED BY <1>8, <1>10, <2>1, <4>1
    <3>5. \A kind \in {"snapshot", "header", "tree", "blob"} : Missed(kind)' = {}
      BY <1>3, <1>6
    <3> HIDE DEF broken
    <3> QED BY <1>8, <1>10, <3>1, <3>2, <3>3, <3>4, <3>5 DEF LoadInv
  <2>2. CASE ~opens
    BY <1>4, <2>2 DEF LoadInv
  <2> QED BY <2>1, <2>2
<1> QED BY <1>9, <1>11, <1>12

LEMMA LoadIndexStep ==
    ASSUME CheckInv, LoadIndex
    PROVE  CheckTypeOK' /\ LoadInv' /\ DoneInv'
<1> USE DEF CheckInv
<1>1. PICK i \in todo : \E failed \in SomeFail(Reads("index", {i})) :
          /\ todo' = todo \ {i}
          /\ misread' = misread \cup failed
          /\ IF i \in indexes /\ i.id \notin bad.indexes /\ failed = {}
             THEN packs' = packs \cup i.packs /\ UNCHANGED found
             ELSE /\ found' = [found EXCEPT !.broken_index = @ \cup {i.id}]
                  /\ UNCHANGED packs
  BY DEF LoadIndex
<1>2. PICK failed \in SomeFail(Reads("index", {i})) :
          /\ todo' = todo \ {i}
          /\ misread' = misread \cup failed
          /\ IF i \in indexes /\ i.id \notin bad.indexes /\ failed = {}
             THEN packs' = packs \cup i.packs /\ UNCHANGED found
             ELSE /\ found' = [found EXCEPT !.broken_index = @ \cup {i.id}]
                  /\ UNCHANGED packs
  BY <1>1
<1>3. /\ ck = "load" /\ ck' = "load"
      /\ UNCHANGED <<repoVars, harmVars, readData, overtaken>>
  BY DEF LoadIndex
<1>4. i.id \in IndexId /\ i.packs \subseteq Pack /\ i \in IndexFile
  BY Ids DEF CheckTypeOK
<1>5. /\ failed \subseteq Reads("index", {i})
      /\ Of(failed, "index") = IF failed = {} THEN {} ELSE {i}
      /\ \A kind : kind # "index" => Of(failed, kind) = {}
  <2>1. failed \subseteq Reads("index", {i})
    BY FailedIsRead
  <2>2. \A r \in failed : r.kind = "index" /\ r.file = i
    BY <2>1 DEF Reads
  <2> QED BY <2>1, <2>2 DEF Of
<1>6. /\ Missed("index")' = Missed("index") \cup Of(failed, "index")
      /\ \A kind : kind # "index" => Missed(kind)' = Missed(kind)
  <2>1. \A kind : Missed(kind)' = Missed(kind) \cup Of(failed, kind)
    BY <1>2, OfUnion DEF Missed
  <2> QED BY <1>5, <2>1
<1>7. misread' \subseteq Read
  BY <1>2, <1>4, <1>5 DEF CheckTypeOK, Read, Reads
<1>8. /\ found' \in Findings /\ packs' \subseteq Pack
      /\ found'.broken_key = found.broken_key
      /\ found'.broken_config <=> found.broken_config
  BY <1>2, <1>4 DEF CheckTypeOK, Findings
<1>9. CheckTypeOK'
  BY <1>2, <1>3, <1>7, <1>8 DEF CheckTypeOK, harmVars
<1>10. DoneInv'
  BY <1>3 DEF DoneInv
<1>11. ASSUME ~overtaken
       PROVE  /\ todo' \subseteq indexes
              /\ Missed("index")' \subseteq indexes \ todo'
              /\ packs' = PacksOf({j \in (indexes \ todo') \ Missed("index")' :
                                      j.id \notin bad.indexes})
              /\ found'.broken_index =
                    {j.id : j \in {l \in indexes \ todo' : l.id \in bad.indexes}
                                      \cup Missed("index")'}
  <2>1. /\ todo \subseteq indexes
        /\ Missed("index") \subseteq indexes \ todo
        /\ packs = PacksOf({j \in (indexes \ todo) \ Missed("index") :
                               j.id \notin bad.indexes})
        /\ found.broken_index =
              {j.id : j \in {l \in indexes \ todo : l.id \in bad.indexes} \cup Missed("index")}
    BY <1>3, <1>11 DEF LoadInv
  <2>2. /\ indexes \ todo' = (indexes \ todo) \cup {i}
        /\ i \in indexes /\ i \notin Missed("index")
    BY <1>2, <2>1
  <2>3. todo' \subseteq indexes /\ Missed("index")' \subseteq indexes \ todo'
    BY <1>2, <1>5, <1>6, <2>1, <2>2
  <2>4. CASE i.id \notin bad.indexes /\ failed = {}
    <3>1. packs' = packs \cup i.packs /\ found' = found /\ Missed("index")' = Missed("index")
      BY <1>2, <1>5, <1>6, <2>2, <2>4
    <3>2. {j \in (indexes \ todo') \ Missed("index")' : j.id \notin bad.indexes}
            = {j \in (indexes \ todo) \ Missed("index") : j.id \notin bad.indexes} \cup {i}
      BY <2>2, <2>4, <3>1
    <3>3. packs' = PacksOf({j \in (indexes \ todo') \ Missed("index")' :
                               j.id \notin bad.indexes})
      BY <2>1, <3>1, <3>2 DEF PacksOf
    <3>4. {l \in indexes \ todo' : l.id \in bad.indexes}
            = {l \in indexes \ todo : l.id \in bad.indexes}
      BY <2>2, <2>4
    <3> QED BY <2>1, <2>3, <3>1, <3>3, <3>4
  <2>5. CASE i.id \in bad.indexes \/ failed # {}
    <3>1. packs' = packs /\ found'.broken_index = found.broken_index \cup {i.id}
      BY <1>2, <2>5 DEF CheckTypeOK, Findings
    <3>2. {j \in (indexes \ todo') \ Missed("index")' : j.id \notin bad.indexes}
            = {j \in (indexes \ todo) \ Missed("index") : j.id \notin bad.indexes}
      BY <1>5, <1>6, <2>2, <2>5
    <3>3. {l \in indexes \ todo' : l.id \in bad.indexes} \cup Missed("index")'
            = {l \in indexes \ todo : l.id \in bad.indexes} \cup Missed("index") \cup {i}
      BY <1>5, <1>6, <2>2, <2>5
    <3>4. {j.id : j \in {l \in indexes \ todo : l.id \in bad.indexes}
                            \cup Missed("index") \cup {i}}
            = {j.id : j \in {l \in indexes \ todo : l.id \in bad.indexes} \cup Missed("index")}
                  \cup {i.id}
      OBVIOUS
    <3> QED BY <2>1, <2>3, <3>1, <3>2, <3>3, <3>4
  <2> QED BY <2>4, <2>5
<1>12. LoadInv'
  <2>1. \A kind \in {"key", "config", "snapshot", "header", "tree", "blob"} :
            Missed(kind)' = Missed(kind)
    BY <1>6
  <2>2. /\ keys' = keys /\ bad' = bad /\ indexes' = indexes /\ overtaken' = overtaken
    BY <1>3 DEF harmVars, repoVars
  <2> QED BY <1>3, <1>8, <1>11, <2>1, <2>2 DEF LoadInv
<1> QED BY <1>9, <1>10, <1>12

LEMMA CheckRepositoryStep ==
    ASSUME CheckInv, CheckRepository
    PROVE  CheckTypeOK' /\ LoadInv' /\ DoneInv'
<1> USE DEF CheckInv
<1> DEFINE Result(failed, trouble) ==
             [found EXCEPT
               !.broken_snapshot = {s.time : s \in snapshots}
                                       \cap (bad.snapshots \cup Of(failed, "snapshot")),
               !.missing_blob = trouble \ BlobsOf(packs),
               !.corrupt_blob = (trouble \cap BlobsOf(packs))
                                    \cup (IF readData THEN UnreadableBlobs(failed) ELSE {}),
               !.missing_pack = {k.id : k \in packs \ stored},
               !.broken_pack = BrokenPacks(failed),
               !.orphaned_pack = {k.id : k \in stored \ packs}]
<1>1. PICK failed \in SomeFail(ReadsOfCheck), at \in Places :
         \E trouble \in Troubles(at, failed) :
            misread' = misread \cup failed /\ found' = Result(failed, trouble)
  BY DEF CheckRepository
<1>2. PICK trouble \in Troubles(at, failed) :
            misread' = misread \cup failed /\ found' = Result(failed, trouble)
  BY <1>1
<1> DEFINE corrupt == (trouble \cap BlobsOf(packs))
                          \cup (IF readData THEN UnreadableBlobs(failed) ELSE {})
<1>3. /\ ck = "load" /\ todo = {} /\ ck' = "done"
      /\ UNCHANGED <<repoVars, harmVars, readData, todo, packs, overtaken>>
  BY DEF CheckRepository
<1>4. /\ trouble \subseteq UNION {s.blobs : s \in snapshots}
      /\ \A s \in snapshots :
            \/ s.time \in bad.snapshots \cup Of(failed, "snapshot")
            \/ WalkedWell(s)
            \/ s.blobs \cap trouble # {}
      /\ \A b \in trouble \cap BlobsOf(packs) : \E k \in packs :
            b \in k.blobs /\ (~Intact(k, b) \/ <<k.id, b>> \in Of(failed, "tree"))
  BY TroublesTell
<1>5. /\ trouble \subseteq Blob /\ UnreadableBlobs(failed) \subseteq Blob
      /\ {s.time : s \in snapshots} \subseteq Nat
      /\ {k.id : k \in packs \ stored} \subseteq PackId
      /\ {k.id : k \in stored \ packs} \subseteq PackId
      /\ BrokenPacks(failed) \subseteq PackId
  BY <1>4, Ids DEF UnreadableBlobs, BrokenPacks
<1>6. corrupt \subseteq Blob
  BY <1>5
<1>7. /\ failed \subseteq Read
      /\ Of(failed, "key") = {} /\ Of(failed, "config") = {} /\ Of(failed, "index") = {}
      /\ Of(failed, "snapshot") \subseteq {s.time : s \in snapshots}
      /\ Of(failed, "header") \subseteq {k.id : k \in packs \cap stored}
  <2> DEFINE times == {s.time : s \in snapshots}
             ids == {k.id : k \in packs \cap stored}
             blobs == {c \in BlobsAt : \E k \in packs \cap stored :
                                          k.id = c[1] /\ c[2] \in k.blobs}
             treesAt == {c \in blobs : c[2] \in TreeBlob}
  <2>1. failed \subseteq Reads("snapshot", times) \cup Reads("header", ids)
                 \cup Reads("tree", treesAt) \cup Reads("blob", blobs)
    BY FailedIsRead DEF ReadsOfCheck
  <2>2. times \subseteq Nat /\ ids \subseteq PackId /\ treesAt \subseteq BlobsAt
        /\ blobs \subseteq BlobsAt
    BY Ids
  <2> HIDE DEF times, ids, blobs, treesAt
  <2>3. failed \subseteq Read
    BY <2>1, <2>2 DEF Read, Reads
  <2>4. /\ Of(failed, "key") = {} /\ Of(failed, "config") = {} /\ Of(failed, "index") = {}
        /\ Of(failed, "snapshot") \subseteq times
        /\ Of(failed, "header") \subseteq ids
    BY <2>1 DEF Of, Reads
  <2> QED BY <2>3, <2>4 DEF times, ids
<1>8. /\ found' \in Findings
      /\ found'.broken_key = found.broken_key
      /\ found'.broken_config <=> found.broken_config
      /\ found'.broken_index = found.broken_index
      /\ found'.broken_snapshot = {s.time : s \in snapshots}
                                      \cap (bad.snapshots \cup Of(failed, "snapshot"))
      /\ found'.missing_blob = trouble \ BlobsOf(packs)
      /\ found'.corrupt_blob = corrupt
      /\ found'.missing_pack = {k.id : k \in packs \ stored}
      /\ found'.broken_pack =
            {k.id : k \in packs \cap stored} \cap (bad.headers \cup Of(failed, "header"))
      /\ found'.orphaned_pack = {k.id : k \in stored \ packs}
  <2> DEFINE bs == {s.time : s \in snapshots} \cap (bad.snapshots \cup Of(failed, "snapshot"))
             mb == trouble \ BlobsOf(packs)
             mp == {k.id : k \in packs \ stored}
             op1 == {k.id : k \in stored \ packs}
             bp == BrokenPacks(failed)
  <2>1. found' = [found EXCEPT !.broken_snapshot = bs, !.missing_blob = mb,
          !.corrupt_blob = corrupt, !.missing_pack = mp,
          !.broken_pack = bp, !.orphaned_pack = op1]
    BY <1>2
  <2>2. bp = {k.id : k \in packs \cap stored} \cap (bad.headers \cup Of(failed, "header"))
    BY DEF BrokenPacks
  <2>3. /\ bs \subseteq Nat /\ mb \subseteq Blob /\ mp \subseteq PackId
        /\ op1 \subseteq PackId /\ bp \subseteq PackId
    BY <1>5
  <2>4. found \in Findings
    BY DEF CheckTypeOK
  <2> HIDE DEF bs, mb, mp, op1, bp, corrupt
  <2>5. /\ found' \in Findings
        /\ found'.broken_key = found.broken_key
        /\ found'.broken_config <=> found.broken_config
        /\ found'.broken_index = found.broken_index
        /\ found'.broken_snapshot = bs
        /\ found'.missing_blob = mb /\ found'.corrupt_blob = corrupt
        /\ found'.missing_pack = mp /\ found'.broken_pack = bp
        /\ found'.orphaned_pack = op1
    BY <1>6, <2>1, <2>3, <2>4 DEF Findings
  <2> QED BY <2>2, <2>5 DEF bs, mb, mp, op1
<1>9. CheckTypeOK'
  BY <1>2, <1>3, <1>7, <1>8 DEF CheckTypeOK, CheckPhases, harmVars
<1>10. LoadInv'
  BY <1>3 DEF LoadInv
<1>11. /\ Missed("key")' = Missed("key") /\ Missed("config")' = Missed("config")
       /\ Missed("index")' = Missed("index")
       /\ Missed("snapshot")' = Of(failed, "snapshot")
       /\ Missed("header")' = Of(failed, "header")
       /\ Missed("tree")' = Of(failed, "tree")
       /\ Missed("blob")' = Of(failed, "blob")
  <2>1. \A kind : Missed(kind)' = Missed(kind) \cup Of(failed, kind)
    BY <1>2, OfUnion DEF Missed
  <2>2. \A kind \in {"snapshot", "header", "tree", "blob"} : Missed(kind) = {}
    BY <1>3 DEF LoadInv
  <2> QED BY <1>7, <2>1, <2>2
<1>12. /\ keys' = keys /\ bad' = bad /\ stored' = stored /\ indexes' = indexes
       /\ snapshots' = snapshots /\ packs' = packs /\ readData' = readData
  BY <1>3 DEF repoVars, harmVars
<1>13. ASSUME ~overtaken
       PROVE  SawAll'
  <2>1. /\ Missed("index") \subseteq indexes \ todo
        /\ packs = PacksOf({i \in (indexes \ todo) \ Missed("index") : i.id \notin bad.indexes})
        /\ found.broken_index =
              {i.id : i \in {j \in indexes \ todo : j.id \in bad.indexes} \cup Missed("index")}
    BY <1>3, <1>13 DEF LoadInv
  <2>2. indexes \ todo = indexes
    BY <1>3
  <2>3. /\ packs = Readable /\ Missed("index") \subseteq indexes
        /\ found.broken_index =
              {i.id : i \in {j \in indexes : j.id \in bad.indexes} \cup Missed("index")}
    BY <2>1, <2>2 DEF Readable
  <2>4. readData => \A k \in packs \cap stored : \A b \in k.blobs :
                        ~Intact(k, b) => b \in corrupt
    BY Ids DEF UnreadableBlobs
  <2>5. ASSUME NEW s \in snapshots, s.blobs \cap trouble # {}
        PROVE  s.blobs \cap ((trouble \ BlobsOf(packs)) \cup corrupt) # {}
    BY <2>5
  <2>6. \A b \in corrupt : \E k \in packs : b \in k.blobs
            /\ (~Intact(k, b) \/ <<k.id, b>> \in Of(failed, "tree") \cup Of(failed, "blob"))
    <3> SUFFICES ASSUME NEW b \in corrupt
                 PROVE  \E k \in packs : b \in k.blobs
                          /\ (~Intact(k, b)
                                \/ <<k.id, b>> \in Of(failed, "tree") \cup Of(failed, "blob"))
      OBVIOUS
    <3>1. CASE b \in trouble \cap BlobsOf(packs)
      BY <1>4, <3>1
    <3>2. CASE b \in UnreadableBlobs(failed)
      BY <3>2 DEF UnreadableBlobs
    <3> QED BY <3>1, <3>2
  <2>7. trouble \ BlobsOf(packs) \subseteq (UNION {s.blobs : s \in snapshots}) \ BlobsOf(packs)
    BY <1>4
  <2> HIDE DEF corrupt
  <2>8. Readable' = Readable
    BY <1>11, <1>12 DEF Readable
  <2>9. \A s \in snapshots : WalkedWell(s)' <=> WalkedWell(s)
    BY <1>12 DEF WalkedWell, Intact
  <2>10. \A k \in packs : \A b \in k.blobs : Intact(k, b)' <=> Intact(k, b)
    BY <1>12 DEF Intact
  <2>11. \A s \in snapshots' :
            \/ s.time \in found'.broken_snapshot
            \/ WalkedWell(s)'
            \/ s.blobs \cap (found'.missing_blob \cup found'.corrupt_blob) # {}
    <3> SUFFICES ASSUME NEW s \in snapshots
                 PROVE  \/ s.time \in found'.broken_snapshot
                        \/ WalkedWell(s)'
                        \/ s.blobs \cap (found'.missing_blob \cup found'.corrupt_blob) # {}
      BY <1>12
    <3>1. CASE s.time \in bad.snapshots \cup Of(failed, "snapshot")
      BY <1>8, <3>1
    <3>2. CASE WalkedWell(s)
      BY <2>9, <3>2
    <3>3. CASE s.blobs \cap trouble # {}
      BY <1>8, <2>5, <3>3
    <3> QED BY <1>4, <3>1, <3>2, <3>3
  <2>12. readData' => \A k \in packs' \cap stored' : \A b \in k.blobs :
                        ~Intact(k, b)' => b \in found'.corrupt_blob
    BY <1>8, <1>12, <2>4, <2>10
  <2>13. /\ packs' = Readable' /\ Missed("index")' \subseteq indexes'
         /\ found'.broken_index =
               {i.id : i \in {j \in indexes' : j.id \in bad'.indexes} \cup Missed("index")'}
    BY <1>8, <1>11, <1>12, <2>3, <2>8
  <2>14. /\ found'.broken_snapshot =
               ({s.time : s \in snapshots'} \cap bad'.snapshots) \cup Missed("snapshot")'
         /\ found'.missing_pack = {k.id : k \in packs' \ stored'}
         /\ found'.broken_pack =
               ({k.id : k \in packs' \cap stored'} \cap bad'.headers) \cup Missed("header")'
         /\ found'.orphaned_pack = {k.id : k \in stored' \ packs'}
    BY <1>7, <1>8, <1>11, <1>12
  <2>15. found'.missing_blob \subseteq (UNION {s.blobs : s \in snapshots'}) \ BlobsOf(packs')
    BY <1>8, <1>12, <2>7
  <2>16. \A b \in found'.corrupt_blob : \E k \in packs' : b \in k.blobs
            /\ (~Intact(k, b)' \/ <<k.id, b>> \in Missed("tree")' \cup Missed("blob")')
    BY <1>8, <1>11, <1>12, <2>6, <2>10
  <2>17. BlobsOf(packs)' = BlobsOf(packs')
    BY DEF BlobsOf
  <2> QED BY <2>11, <2>12, <2>13, <2>14, <2>15, <2>16, <2>17 DEF SawAll
<1>14. DoneInv'
  <2>1. /\ found.broken_key = (keys \cap bad.keys) \cup Missed("key")
        /\ keys \ found.broken_key # {}
        /\ found.broken_config <=> (bad.config \/ Missed("config") # {})
    BY <1>3 DEF LoadInv
  <2>2. /\ found'.broken_key = (keys' \cap bad'.keys) \cup Missed("key")'
        /\ keys' \ found'.broken_key # {}
        /\ found'.broken_config <=> (bad'.config \/ Missed("config")' # {})
    BY <1>8, <1>11, <1>12, <2>1
  <2>3. /\ Missed("snapshot")' \subseteq found'.broken_snapshot
        /\ found'.broken_snapshot \subseteq bad'.snapshots \cup Missed("snapshot")'
        /\ Missed("header")' \subseteq found'.broken_pack
        /\ found'.broken_pack \subseteq bad'.headers \cup Missed("header")'
    BY <1>7, <1>8, <1>11, <1>12
  <2>4. ~overtaken' => SawAll'
    BY <1>3, <1>13
  <2> QED BY <2>2, <2>3, <2>4 DEF DoneInv
<1> QED BY <1>9, <1>10, <1>14

\* What the check has found stays true while nothing it speaks of changes.
LEMMA FindingsStay ==
    ASSUME CheckInv,
           UNCHANGED <<keys, bad, ck, readData, todo, packs, found, misread>>,
           overtaken => overtaken',
           ~overtaken' => ck = "idle" \/ UNCHANGED <<stored, indexes, snapshots>>
    PROVE  LoadInv' /\ DoneInv'
<1> USE DEF CheckInv
<1>1. \A kind : Missed(kind)' = Missed(kind)
  BY DEF Missed
<1>2. LoadInv'
  BY <1>1 DEF LoadInv
<1>3. ASSUME UNCHANGED <<stored, indexes, snapshots>>, SawAll
      PROVE  SawAll'
  <2>1. Readable' = Readable
    BY <1>1, <1>3 DEF Readable
  <2>2. BlobsOf(packs)' = BlobsOf(packs)
    BY DEF BlobsOf
  <2>3. \A s \in snapshots : WalkedWell(s)' <=> WalkedWell(s)
    BY <1>3 DEF WalkedWell, Intact
  <2>4. \A k \in packs : \A b \in k.blobs : Intact(k, b)' <=> Intact(k, b)
    BY <1>3 DEF Intact
  <2> QED BY <1>1, <1>3, <2>1, <2>2, <2>3, <2>4 DEF SawAll
<1>4. SawNothing' <=> SawNothing
  BY <1>1 DEF SawNothing
<1>5. DoneInv'
  BY <1>1, <1>3, <1>4 DEF DoneInv
<1> QED BY <1>2, <1>5

LEMMA CheckInvStep ==
    ASSUME CheckInv, [CheckNext]_allVars
    PROVE  CheckInv'
<1> USE DEF CheckInv
<1>1. CASE UNCHANGED allVars
  <2>1. UNCHANGED vars /\ UNCHANGED harmVars /\ UNCHANGED checkVars
    BY <1>1 DEF allVars
  <2>2. TypeOK'
    BY <2>1, TypeStep
  <2>3. CheckTypeOK'
    BY <2>1 DEF harmVars, checkVars, CheckTypeOK
  <2> QED BY <2>1, <2>2, <2>3, FindingsStay DEF vars, repoVars, harmVars, checkVars
<1>2. CASE Commands
  <2>1. TypeOK'
    BY <1>2, CommandsAreSteps, TypeStep
  <2>2. /\ UNCHANGED <<harmVars, ck, readData, todo, packs, found, misread>>
        /\ overtaken' = (overtaken \/ (ck # "idle" /\ repoVars' # repoVars))
    BY <1>2 DEF Commands
  <2>3. overtaken => overtaken'
    BY <2>2
  <2>4. ~overtaken' => ck = "idle" \/ repoVars' = repoVars
    BY <2>2
  <2>5. overtaken' \in BOOLEAN
    BY <2>2
  <2>6. CheckTypeOK'
    BY <2>2, <2>5 DEF CheckTypeOK, harmVars
  <2> QED BY <2>1, <2>2, <2>3, <2>4, <2>6, FindingsStay DEF repoVars, harmVars
<1>3. CASE Corrupt \/ Lose
  <2>1. /\ ck = "idle" /\ UNCHANGED checkVars /\ TypeOK'
        /\ keys' \subseteq Key /\ bad' \in Damage /\ harm' \in 1 .. MaxHarm
    BY <1>3, DamageShape
  <2>2. harm' \in 0 .. MaxHarm
    BY <2>1, CheckAssumption
  <2>3. CheckTypeOK'
    BY <2>1, <2>2 DEF checkVars, CheckTypeOK
  <2>4. LoadInv' /\ DoneInv'
    BY <2>1 DEF checkVars, LoadInv, DoneInv
  <2> QED BY <2>1, <2>3, <2>4
<1>4. CASE CheckOpen \/ LoadIndex \/ CheckRepository
  <2>1. TypeOK'
    BY <1>4, CheckReaders, OnlyReaders
  <2> QED BY <1>4, <2>1, CheckOpenStep, LoadIndexStep, CheckRepositoryStep
<1>5. CASE CheckEnd
  <2>1. TypeOK'
    BY <1>5, CheckReaders, OnlyReaders
  <2>2. NoFindings \in Findings
    BY DEF NoFindings, Findings
  <2>3. CheckTypeOK'
    BY <1>5, <2>2 DEF CheckEnd, CheckTypeOK, CheckPhases, harmVars
  <2>4. LoadInv' /\ DoneInv'
    BY <1>5 DEF CheckEnd, LoadInv, DoneInv
  <2> QED BY <2>1, <2>3, <2>4
<1> QED BY <1>1, <1>2, <1>3, <1>4, <1>5 DEF CheckNext

\* The types of a check beside the commands, and what it has found: while
\* nothing overtakes it, all there is to find.
THEOREM CheckInvariance == CheckSpec => []CheckInv
<1>1. CheckInit => CheckInv
  <2> SUFFICES ASSUME CheckInit
               PROVE  CheckInv
    OBVIOUS
  <2>1. TypeOK
    BY DEF CheckInit, Init, TypeOK, LockInit, LockTypeOK, Phases, Op
  <2>2. NoFindings \in Findings /\ NoDamage \in Damage
    BY DEF NoFindings, Findings, NoDamage, Damage
  <2>3. CheckTypeOK
    <3>1. keys \subseteq Key /\ bad \in Damage /\ found \in Findings
      BY <2>2 DEF CheckInit
    <3>2. harm \in 0 .. MaxHarm
      BY CheckAssumption DEF CheckInit
    <3>3. /\ ck \in CheckPhases /\ todo \subseteq IndexFile /\ packs \subseteq Pack
          /\ readData \in BOOLEAN /\ overtaken \in BOOLEAN
      BY DEF CheckInit, CheckPhases
    <3>4. misread \subseteq Read
      BY DEF CheckInit
    <3> QED BY <3>1, <3>2, <3>3, <3>4 DEF CheckTypeOK
  <2> QED BY <2>1, <2>3 DEF CheckInit, CheckInv, LoadInv, DoneInv
<1>2. CheckInv /\ [CheckNext]_allVars => CheckInv'
  BY CheckInvStep
<1> QED BY <1>1, <1>2, PTL DEF CheckSpec

\* "Status is healthy or problems": whatever files were damaged, lost or could not
\* be read, each is named as what it is.
THEOREM DamageGetsNamed == CheckSpec => []DamageIsNamed
<1>1. CheckInv => DamageIsNamed
  <2> SUFFICES ASSUME CheckInv, ck = "done", ~overtaken, keys \ found.broken_key # {}
               PROVE  /\ found.broken_config = (bad.config \/ Missed("config") # {})
                      /\ SawAll
                      /\ \A s \in snapshots : WalkedWell(s) => s.blobs \subseteq BlobsOf(packs)
    BY DEF DamageIsNamed, CheckInv, DoneInv, SawAll
  <2>1. (found.broken_config <=> (bad.config \/ Missed("config") # {})) /\ SawAll
    BY DEF CheckInv, DoneInv
  <2>2. found.broken_config \in BOOLEAN
    BY DEF CheckInv, CheckTypeOK, Findings
  <2>3. \A s \in snapshots : WalkedWell(s) => s.blobs \subseteq BlobsOf(packs)
    BY DEF WalkedWell, BlobsOf
  <2> QED BY <2>1, <2>2, <2>3
<1> QED BY <1>1, CheckInvariance, PTL

\* Damage aside, the repository under a check is the one of RepoStore.
LEMMA HarmInvStep ==
    ASSUME OneRunner, CheckInv, HarmInv, [CheckNext]_allVars
    PROVE  HarmInv'
<1> USE DEF HarmInv
<1>1. CASE UNCHANGED allVars
  <2>1. UNCHANGED vars /\ UNCHANGED harmVars
    BY <1>1 DEF allVars
  <2>2. IInv => IInv'
    BY <2>1, InvStep
  <2> QED BY <2>1, <2>2 DEF harmVars
<1>2. CASE Commands
  <2>1. IInv => IInv'
    BY <1>2, CommandsAreSteps, InvStep
  <2>2. UNCHANGED harmVars
    BY <1>2 DEF Commands
  <2> QED BY <2>1, <2>2 DEF harmVars
<1>3. CASE Corrupt \/ Lose
  <2>1. /\ harm' \in 1 .. MaxHarm
        /\ KeysMayGo \/ keys # {} => KeysMayGo \/ keys' # {}
    BY <1>3, DamageShape DEF CheckInv
  <2>2. harm' # 0
    BY <2>1
  <2> QED BY <2>1, <2>2
<1>4. CASE CheckOpen \/ LoadIndex \/ CheckRepository \/ CheckEnd
  <2>1. UNCHANGED <<repoVars, procVars, writers, harmVars>> /\ readers' \subseteq Proc
    BY <1>4, CheckReaders DEF CheckInv
  <2>2. IInv => IInv'
    BY <2>1, OnlyReaders DEF CheckInv
  <2> QED BY <2>1, <2>2 DEF harmVars
<1> QED BY <1>1, <1>2, <1>3, <1>4 DEF CheckNext

LEMMA HarmInvariance ==
    ASSUME OneRunner
    PROVE  CheckSpec => []HarmInv
<1>1. CheckInit => HarmInv
  BY InitInv, CheckAssumption DEF CheckInit, HarmInv
<1>2. CheckInv /\ HarmInv /\ [CheckNext]_allVars => HarmInv'
  BY HarmInvStep
<1> QED BY <1>1, <1>2, CheckInvariance, PTL DEF CheckSpec

\* In a repository nobody damaged every snapshot is found, and whole.
LEMMA UndamagedIsSound ==
    ASSUME IInv, bad = NoDamage
    PROVE  /\ \A k \in Indexed : k \in stored /\ \A b \in k.blobs : Intact(k, b)
           /\ Readable \subseteq Indexed
           /\ \A s \in snapshots : s.blobs \subseteq BlobsOf(Indexed)
<1>1. bad.blobs = {}
  BY DEF NoDamage
<1>2. Readable \subseteq Indexed
  BY DEF Readable, Indexed, PacksOf
<1>3. \A k \in Indexed : k \in stored /\ \A b \in k.blobs : Intact(k, b)
  BY <1>1 DEF IInv, IndexNeverDangles, Intact
<1> QED BY <1>2, <1>3, IndexServes

\* In a repository nobody damaged, with one runner, whatever is called broken,
\* corrupt or missing the check could not read, or an index file it could not
\* read lists it.
THEOREM AlarmsAreExplained ==
    ASSUME OneRunner
    PROVE  CheckSpec => []AlarmsAreReal
<1>1. CheckInv /\ HarmInv => AlarmsAreReal
  <2> SUFFICES ASSUME CheckInv, HarmInv, ck = "done", harm = 0
               PROVE  AlarmsAreReal
    BY DEF AlarmsAreReal
  <2>1. bad = NoDamage /\ IInv /\ found \in Findings
    BY DEF HarmInv, CheckInv, CheckTypeOK
  <2>2. /\ bad.keys = {} /\ bad.indexes = {} /\ bad.snapshots = {} /\ bad.headers = {}
        /\ ~bad.config
    BY <2>1 DEF NoDamage
  <2>3. found.broken_key = Missed("key")
    BY <2>2 DEF CheckInv, DoneInv
  <2>4. found.broken_config \in BOOLEAN
    BY <2>1 DEF Findings
  <2>5. CASE keys \ found.broken_key = {}
    <3>1. SawNothing
      BY <2>5 DEF CheckInv, DoneInv
    <3>2. found.broken_key \subseteq keys
      <4>1. misread \subseteq Read
        BY DEF CheckInv, CheckTypeOK
      <4>2. Missed("key") \subseteq Key
        BY <4>1 DEF Missed, Of, Read, Reads
      <4> QED BY <2>3, <4>2 DEF HarmInv
    <3>3. keys = found.broken_key
      BY <2>5, <3>2
    <3>4. {i.id : i \in Missed("index")} = {}
      BY <3>1 DEF SawNothing
    <3> QED BY <2>3, <2>4, <3>1, <3>3, <3>4 DEF SawNothing, AlarmsAreReal
  <2>6. CASE keys \ found.broken_key # {}
    <3>1. /\ found.broken_config <=> (bad.config \/ Missed("config") # {})
          /\ Missed("snapshot") \subseteq found.broken_snapshot
          /\ found.broken_snapshot \subseteq bad.snapshots \cup Missed("snapshot")
          /\ Missed("header") \subseteq found.broken_pack
          /\ found.broken_pack \subseteq bad.headers \cup Missed("header")
          /\ ~overtaken => SawAll
      BY <2>6 DEF CheckInv, DoneInv
    <3>2. /\ found.broken_config = (Missed("config") # {})
          /\ found.broken_snapshot = Missed("snapshot")
          /\ found.broken_pack = Missed("header")
      BY <2>2, <2>4, <3>1
    <3>3. ASSUME ~overtaken
          PROVE  /\ found.broken_index = {i.id : i \in Missed("index")}
                 /\ found.missing_pack = {}
                 /\ found.missing_blob \subseteq BlobsOf(Indexed) \ BlobsOf(Readable)
                 /\ \A b \in found.corrupt_blob :
                       \E k \in PackId : <<k, b>> \in Missed("tree") \cup Missed("blob")
                 /\ found.orphaned_pack = {k.id : k \in stored \ Readable}
      <4>1. SawAll
        BY <3>1, <3>3
      <4>2. packs = Readable /\ packs \subseteq Indexed
        BY <2>1, <4>1, UndamagedIsSound DEF SawAll
      <4>3. found.broken_index = {i.id : i \in Missed("index")}
        <5>1. {j \in indexes : j.id \in bad.indexes} = {}
          BY <2>2
        <5> QED BY <4>1, <5>1 DEF SawAll
      <4>4. packs \ stored = {}
        BY <2>1, <4>2, UndamagedIsSound
      <4>5. found.missing_pack = {}
        BY <4>1, <4>4 DEF SawAll
      <4>6. found.missing_blob \subseteq BlobsOf(Indexed) \ BlobsOf(Readable)
        BY <2>1, <4>1, <4>2, UndamagedIsSound DEF SawAll
      <4>7. ASSUME NEW b \in found.corrupt_blob
            PROVE  \E k \in PackId : <<k, b>> \in Missed("tree") \cup Missed("blob")
        <5>1. PICK k \in packs : b \in k.blobs
                 /\ (~Intact(k, b) \/ <<k.id, b>> \in Missed("tree") \cup Missed("blob"))
          BY <4>1 DEF SawAll
        <5>2. Intact(k, b)
          BY <2>1, <4>2, <5>1, UndamagedIsSound
        <5>3. k.id \in PackId
          BY Ids DEF CheckInv
        <5> QED BY <5>1, <5>2, <5>3
      <4> QED BY <4>1, <4>2, <4>3, <4>5, <4>6, <4>7 DEF SawAll
    <3> QED BY <2>3, <3>2, <3>3 DEF AlarmsAreReal
  <2> QED BY <2>5, <2>6
<1> QED BY <1>1, CheckInvariance, HarmInvariance, PTL

\* A verdict of "healthy" means that a client with a key can restore every
\* snapshot, with one runner and as long as not every key file is lost.
THEOREM HealthyIsRestorable ==
    ASSUME OneRunner, ~KeysMayGo
    PROVE  CheckSpec => []HealthyMeansRestorable
<1>1. CheckInv /\ HarmInv => HealthyMeansRestorable
  <2> SUFFICES ASSUME CheckInv, HarmInv, ck = "done", harm = 0 \/ ~overtaken,
                      found = NoFindings
               PROVE  /\ MayOpen /\ ListsSnapshots
                      /\ \A s \in snapshots : \A b \in s.blobs :
                             /\ \E k \in Indexed \cap stored :
                                   b \in k.blobs /\ (b \in TreeBlob => Intact(k, b))
                             /\ readData => \A k \in Indexed : b \in k.blobs => Intact(k, b)
    BY DEF HealthyMeansRestorable, Status
  <2>1. CASE harm = 0
    <3>1. bad = NoDamage /\ keys = Key /\ IInv
      BY <2>1 DEF HarmInv
    <3>2. /\ bad.keys = {} /\ ~bad.config /\ bad.indexes = {}
          /\ bad.snapshots = {}
      BY <3>1 DEF NoDamage
    <3>3. MayOpen /\ ListsSnapshots
      BY <3>1, <3>2, CheckAssumption DEF MayOpen, ListsSnapshots
    <3>4. ASSUME NEW s \in snapshots, NEW b \in s.blobs
          PROVE  /\ \E k \in Indexed \cap stored :
                        b \in k.blobs /\ (b \in TreeBlob => Intact(k, b))
                 /\ readData => \A k \in Indexed : b \in k.blobs => Intact(k, b)
      <4>1. PICK k \in Indexed : b \in k.blobs
        BY <3>1, <3>4, UndamagedIsSound DEF BlobsOf
      <4>2. k \in stored
        BY <3>1, <4>1 DEF IInv, IndexNeverDangles
      <4> QED BY <3>1, <4>1, <4>2, UndamagedIsSound
    <3> QED BY <3>3, <3>4
  <2>2. CASE ~overtaken
    <3>1. /\ found.broken_key = {} /\ ~found.broken_config
          /\ found.broken_index = {} /\ found.broken_snapshot = {}
          /\ found.missing_blob = {} /\ found.corrupt_blob = {}
          /\ found.missing_pack = {}
      BY DEF NoFindings
    <3>2. keys \ bad.keys # {} /\ keys \ found.broken_key # {}
      BY <3>1 DEF CheckInv, DoneInv, HarmInv
    <3>3. ~bad.config /\ SawAll
      BY <2>2, <3>1, <3>2 DEF CheckInv, DoneInv
    <3>4. (\A i \in indexes : i.id \notin bad.indexes) /\ Missed("index") = {}
      BY <3>1, <3>3 DEF SawAll
    <3>5. packs = Indexed
      BY <3>3, <3>4 DEF SawAll, Readable, Indexed, PacksOf
    <3>6. Indexed \subseteq stored
      BY <3>1, <3>3, <3>5 DEF SawAll
    <3>7. MayOpen /\ ListsSnapshots
      BY <3>1, <3>2, <3>3, <3>4 DEF MayOpen, ListsSnapshots, SawAll
    <3>8. \A s \in snapshots : WalkedWell(s)
      BY <3>1, <3>3 DEF SawAll
    <3>9. readData => \A k \in Indexed : \A b \in k.blobs : Intact(k, b)
      BY <3>1, <3>3, <3>5, <3>6 DEF SawAll
    <3> QED BY <3>5, <3>6, <3>7, <3>8, <3>9 DEF WalkedWell
  <2> QED BY <2>1, <2>2
<1> QED BY <1>1, CheckInvariance, HarmInvariance, PTL
=============================================================================
