----------------------------- MODULE RepoCheck ------------------------------
(***************************************************************************)
(* `bqckup backup check` of an incremental repository: the tolerant open,  *)
(* the walk of every snapshot, the packs, the orphans and, with            *)
(* --read-data, every blob.  The check runs beside the commands of         *)
(* RepoStore, whose index it loads before it takes its lock, and in a      *)
(* repository whose files somebody damages or removes.                     *)
(***************************************************************************)
EXTENDS RepoStore

CONSTANTS
    Checker,        \* the process that checks
    Key,            \* key files the password opens
    KeysMayGo,      \* TRUE when the last key file may be lost too
    MaxHarm         \* bound: files damaged, lost or, in one check, not read

ASSUME CheckAssumption ==
    /\ Checker \in Proc /\ Role[Checker] = {}
    /\ Key # {} /\ KeysMayGo \in BOOLEAN /\ MaxHarm \in Nat

VARIABLES
    keys,           \* files in keys/
    bad,            \* what does not decrypt, parse or hash any more
    harm,           \* files damaged or lost so far
    ck,             \* where the check is
    readData,       \* --read-data
    todo,           \* index files it listed and has not loaded
    packs,          \* packs of the index files it loaded
    found,          \* its findings, by type
    misread,        \* (auxiliary) the reads of it that failed
    overtaken       \* (auxiliary) the repository changed since it listed the index

checkVars == <<ck, readData, todo, packs, found, misread, overtaken>>
harmVars == <<keys, bad, harm>>
allVars == <<vars, harmVars, checkVars>>

BlobsAt == PackId \X Blob

Damage == [keys : SUBSET Key, config : BOOLEAN, indexes : SUBSET IndexId,
           snapshots : SUBSET Nat, headers : SUBSET PackId,
           blobs : SUBSET BlobsAt]
NoDamage == [keys |-> {}, config |-> FALSE, indexes |-> {}, snapshots |-> {},
             headers |-> {}, blobs |-> {}]

\* What a check reads: trees in the walk of a snapshot, blobs with --read-data.
Reads(kind, files) == [kind : {kind}, file : files]
Read == Reads("key", Key) \cup Reads("config", {"config"}) \cup Reads("index", IndexFile)
            \cup Reads("snapshot", Nat) \cup Reads("header", PackId)
            \cup Reads("tree", BlobsAt) \cup Reads("blob", BlobsAt)

Of(reads, kind) == {r.file : r \in {q \in reads : q.kind = kind}}

Findings == [broken_key : SUBSET Key, broken_config : BOOLEAN,
             broken_index : SUBSET IndexId, broken_snapshot : SUBSET Nat,
             missing_blob : SUBSET Blob, corrupt_blob : SUBSET Blob,
             missing_pack : SUBSET PackId, broken_pack : SUBSET PackId,
             orphaned_pack : SUBSET PackId]
NoFindings == [broken_key |-> {}, broken_config |-> FALSE, broken_index |-> {},
               broken_snapshot |-> {}, missing_blob |-> {}, corrupt_blob |-> {},
               missing_pack |-> {}, broken_pack |-> {}, orphaned_pack |-> {}]

CheckPhases == {"idle", "load", "done"}

CheckTypeOK ==
    /\ keys \subseteq Key
    /\ bad \in Damage
    /\ harm \in 0 .. MaxHarm
    /\ ck \in CheckPhases
    /\ readData \in BOOLEAN
    /\ todo \subseteq IndexFile
    /\ packs \subseteq Pack
    /\ found \in Findings
    /\ misread \subseteq Read
    /\ overtaken \in BOOLEAN

CheckInit ==
    /\ Init
    /\ keys = Key /\ bad = NoDamage /\ harm = 0
    /\ ck = "idle" /\ readData = FALSE
    /\ todo = {} /\ packs = {} /\ found = NoFindings /\ misread = {}
    /\ overtaken = FALSE

-----------------------------------------------------------------------------
(* Damage.                                                                 *)

\* Bound: between two commands, and not while a check runs, which would see
\* it or not.
Harm ==
    /\ harm < MaxHarm /\ ck = "idle" /\ \A p \in Proc : pc[p] = "idle"
    /\ harm' = harm + 1
    /\ UNCHANGED <<clock, procVars, lockVars, checkVars>>

\* The content of one file changes; of a pack, its header or one of its blobs.
Corrupt ==
    /\ Harm
    /\ \/ \E k \in keys : bad' = [bad EXCEPT !.keys = @ \cup {k}]
       \/ bad' = [bad EXCEPT !.config = TRUE]
       \/ \E i \in indexes : bad' = [bad EXCEPT !.indexes = @ \cup {i.id}]
       \/ \E s \in snapshots : bad' = [bad EXCEPT !.snapshots = @ \cup {s.time}]
       \/ \E k \in stored : bad' = [bad EXCEPT !.headers = @ \cup {k.id}]
       \/ \E k \in stored : \E b \in k.blobs :
             bad' = [bad EXCEPT !.blobs = @ \cup {<<k.id, b>>}]
    /\ UNCHANGED <<stored, indexes, snapshots, keys>>

\* One file disappears.  (A lost snapshot looks like a forgotten one.)
Lose ==
    /\ Harm
    /\ \/ /\ \E k \in stored : stored' = stored \ {k}
          /\ UNCHANGED <<indexes, keys>>
       \/ /\ \E i \in indexes : indexes' = indexes \ {i}
          /\ UNCHANGED <<stored, keys>>
       \/ /\ \E k \in keys : keys' = keys \ {k} /\ (keys' # {} \/ KeysMayGo)
          /\ UNCHANGED <<stored, indexes>>
    /\ UNCHANGED <<snapshots, bad>>

-----------------------------------------------------------------------------
(* The other commands, which stop at what they cannot read.  Index repair   *)
(* is left to RepoStore.                                                   *)

Intact(k, b) == k \in stored /\ <<k.id, b>> \notin bad.blobs

\* repository.Open: a key the password opens, the config, every index file.
MayOpen ==
    /\ keys \ bad.keys # {}
    /\ ~bad.config
    /\ \A i \in indexes : i.id \notin bad.indexes

ListsSnapshots == bad.snapshots \cap {s.time : s \in snapshots} = {}

LoadsTrees(p) ==
    \A s \in snapshots : \A t \in s.blobs \cap TreeBlob :
        \E k \in known[p] : t \in k.blobs /\ Intact(k, t)

\* New files are named by their content, so no name comes back.
NamesAreNew ==
    /\ \A i \in indexes' \ indexes :
          i.id \notin bad.indexes \cup {j.id : j \in todo}
    /\ \A k \in stored' \ stored :
          k.id \notin bad.headers \cup {c[1] : c \in bad.blobs}
                      \cup {j.id : j \in packs}

Command(p) ==
    \/ \E o \in Op, t \in Tag \cup {NoTag} : Open(p, o, t) /\ MayOpen
    \/ Lock(p) \/ Stop(p)
    \/ Walk(p) /\ ListsSnapshots
    \/ SavePack(p) \/ SaveIndex(p) \/ SaveSnapshot(p)
    \/ Forget(p) /\ ListsSnapshots
    \/ Mark(p) /\ ListsSnapshots /\ LoadsTrees(p)
    \/ WriteKept(p) /\ \A i \in indexes : i.id \notin bad.indexes
    \/ RemoveOldIndex(p) \/ DeletePack(p)

Commands ==
    /\ \E p \in Proc : Command(p)
    /\ NamesAreNew
    /\ overtaken' = (overtaken \/ (ck # "idle" /\ repoVars' # repoVars))
    /\ UNCHANGED <<harmVars, ck, readData, todo, packs, found, misread>>

-----------------------------------------------------------------------------
(* The check.                                                              *)

\* A read may fail although nothing is wrong with the file, and is not
\* repeated: the ways in which some of the reads of a step fail.
SomeFail(reads) ==
    LET left == MaxHarm - harm - Cardinality(misread)
    IN  {{}} \cup {{f[n] : n \in 1 .. left} : f \in [1 .. left -> reads]}

\* CheckOpen: every key file is tried; one that cannot be read, does not parse
\* or does not open is a finding.  When none opens, that is the result, and no
\* lock is taken.  Otherwise the config is read and the index files are listed.
CheckOpen ==
    /\ ck = "idle"
    /\ readData' \in BOOLEAN
    /\ \E failed \in SomeFail(Reads("key", keys) \cup Reads("config", {"config"})) :
       LET broken == (keys \cap bad.keys) \cup Of(failed, "key")
           opens == keys \ broken # {}
           unread == Of(failed, "config") # {}
       IN  /\ unread => opens
           /\ misread' = failed
           /\ found' = [NoFindings EXCEPT
                           !.broken_key = broken,
                           !.broken_config = opens /\ (bad.config \/ unread)]
           /\ ck' = IF opens THEN "load" ELSE "done"
           /\ todo' = IF opens THEN indexes ELSE {}
    /\ packs' = {} /\ overtaken' = FALSE
    /\ UNCHANGED <<repoVars, procVars, harmVars, lockVars>>

\* An index file that is gone, cannot be read or is garbage is a finding, and
\* the next one is loaded.
LoadIndex ==
    /\ ck = "load"
    /\ \E i \in todo : \E failed \in SomeFail(Reads("index", {i})) :
          /\ todo' = todo \ {i}
          /\ misread' = misread \cup failed
          /\ IF i \in indexes /\ i.id \notin bad.indexes /\ failed = {}
             THEN packs' = packs \cup i.packs /\ UNCHANGED found
             ELSE /\ found' = [found EXCEPT !.broken_index = @ \cup {i.id}]
                  /\ UNCHANGED packs
    /\ UNCHANGED <<repoVars, procVars, lockVars, harmVars, ck, readData, overtaken>>

\* A blob two packs hold is read where the last index file puts it.
Places ==
    {at \in [TreeBlob \cap BlobsOf(packs) -> packs] :
        \A t \in DOMAIN at : t \in at[t].blobs}

\* walkForCheck of a snapshot's trees.  Below a tree it cannot load it sees
\* nothing; what hangs there is not known here.
Walked(s, at, failed) ==
    LET missed == s.blobs \ BlobsOf(packs)
        loads(t) == Intact(at[t], t) /\ <<at[t].id, t>> \notin Of(failed, "tree")
        trees == (missed \cap TreeBlob) \cup {t \in s.blobs \cap DOMAIN at : ~loads(t)}
    IN  IF trees = {} THEN {missed}
        ELSE {t \in SUBSET (missed \cup trees) : t \cap trees # {}}

ReadableSnapshots(failed) ==
    {s \in snapshots : s.time \notin bad.snapshots \cup Of(failed, "snapshot")}

\* (Mutant of Troubles: a snapshot that cannot be read ends the loop.)
TroublesUntilUnreadable(at, failed) ==
    LET readable == ReadableSnapshots(failed) IN
    IF readable # snapshots THEN {{}}
    ELSE {UNION {w[s] : s \in readable} : w \in
              {v \in [readable -> SUBSET Blob] :
                  \A s \in readable : v[s] \in Walked(s, at, failed)}}

\* What the walks of all readable snapshots may report (checkSnapshots).
Troubles(at, failed) ==
    LET readable == ReadableSnapshots(failed)
        walks == {w \in [readable -> SUBSET Blob] :
                     \A s \in readable : w[s] \in Walked(s, at, failed)}
    IN  {UNION {w[s] : s \in readable} : w \in walks}

\* (Mutant of BrokenPacks: a pack that is gone counts as one that is broken.)
BrokenOrGone(failed) ==
    {k.id : k \in packs \ stored} \cup ({k.id : k \in packs} \cap bad.headers)
                                  \cup Of(failed, "header")

\* checkPacks and verifyPackHeader ...
BrokenPacks(failed) ==
    {k.id : k \in packs \cap stored} \cap (bad.headers \cup Of(failed, "header"))

\* (Mutant of UnreadableBlobs: only what the snapshots' walks load is read.)
UnreadableTrees(failed) ==
    {b \in TreeBlob : \E k \in packs \cap stored : b \in k.blobs /\ ~Intact(k, b)}

\* ... checkBlobData and verifyBlob.
UnreadableBlobs(failed) ==
    {b \in Blob : \E k \in packs \cap stored :
        b \in k.blobs /\ (~Intact(k, b) \/ <<k.id, b>> \in Of(failed, "blob"))}

\* What is read under the lock.
ReadsOfCheck ==
    LET blobs == {c \in BlobsAt : \E k \in packs \cap stored : k.id = c[1] /\ c[2] \in k.blobs}
    IN  Reads("snapshot", {s.time : s \in snapshots})
            \cup Reads("header", {k.id : k \in packs \cap stored})
            \cup Reads("tree", {c \in blobs : c[2] \in TreeBlob})
            \cup (IF readData THEN Reads("blob", blobs) ELSE {})

\* The non-exclusive lock, and under it the snapshots, the packs, the orphans
\* and, with --read-data, every blob; nobody writes as long as it is held.
CheckRepository ==
    /\ ck = "load" /\ todo = {}
    /\ AcquireRead(Checker)
    /\ \E failed \in SomeFail(ReadsOfCheck), at \in Places :
       \E trouble \in Troubles(at, failed) :
          /\ misread' = misread \cup failed
          /\ found' = [found EXCEPT
               !.broken_snapshot = {s.time : s \in snapshots}
                                       \cap (bad.snapshots \cup Of(failed, "snapshot")),
               !.missing_blob = trouble \ BlobsOf(packs),
               !.corrupt_blob = (trouble \cap BlobsOf(packs))
                                    \cup (IF readData THEN UnreadableBlobs(failed) ELSE {}),
               !.missing_pack = {k.id : k \in packs \ stored},
               !.broken_pack = BrokenPacks(failed),
               !.orphaned_pack = {k.id : k \in stored \ packs}]
    /\ ck' = "done"
    /\ UNCHANGED <<repoVars, procVars, harmVars, readData, todo, packs, overtaken>>

\* The check ends with its verdict, or before it: when a directory cannot be
\* listed, the size of a pack not asked for, or the lock not taken; when it is
\* cancelled, or dies.
CheckEnd ==
    /\ ck # "idle"
    /\ ck' = "idle" /\ readData' = FALSE /\ todo' = {} /\ packs' = {}
    /\ found' = NoFindings /\ misread' = {} /\ overtaken' = FALSE
    /\ readers' = readers \ {Checker}
    /\ UNCHANGED <<repoVars, procVars, harmVars, writers>>

CheckNext ==
    \/ Commands \/ Corrupt \/ Lose
    \/ CheckOpen \/ LoadIndex \/ CheckRepository \/ CheckEnd

CheckSpec == CheckInit /\ [][CheckNext]_allVars

-----------------------------------------------------------------------------
(* Properties.                                                             *)

Status == IF found = NoFindings THEN "healthy" ELSE "problems"

\* "Status is healthy or problems": a repository the check calls healthy can
\* be opened, and every snapshot in it restored - down to every directory
\* listing, and with --read-data to every byte, wherever a client reads it.
\* Commits between the check's open and its lock do not change that, unless
\* they come from commands that themselves work on damaged files.
HealthyMeansRestorable ==
    ck = "done" /\ (harm = 0 \/ ~overtaken) /\ Status = "healthy" =>
        /\ MayOpen /\ ListsSnapshots
        /\ \A s \in snapshots : \A b \in s.blobs :
              /\ \E k \in Indexed \cap stored :
                    b \in k.blobs /\ (b \in TreeBlob => Intact(k, b))
              /\ readData => \A k \in Indexed : b \in k.blobs => Intact(k, b)

\* What the check could not read.
Missed(kind) == Of(misread, kind)

\* The packs of the index files that could be loaded.
Readable == PacksOf({i \in indexes \ Missed("index") : i.id \notin bad.indexes})

\* Every lost, damaged or unread file is named as what it is, however much else
\* is: only below a directory listing or in an index file that cannot be loaded,
\* or without a key, does the check see nothing.
DamageIsNamed ==
    ck = "done" /\ ~overtaken =>
        /\ found.broken_key = (keys \cap bad.keys) \cup Missed("key")
        /\ keys \ found.broken_key # {} =>
           /\ found.broken_config = (bad.config \/ Missed("config") # {})
           /\ found.broken_index =
                 {i.id : i \in {j \in indexes : j.id \in bad.indexes} \cup Missed("index")}
           /\ found.broken_snapshot =
                 ({s.time : s \in snapshots} \cap bad.snapshots) \cup Missed("snapshot")
           /\ found.missing_pack = {k.id : k \in Readable \ stored}
           /\ found.broken_pack =
                 ({k.id : k \in Readable \cap stored} \cap bad.headers) \cup Missed("header")
           /\ readData => \A k \in Readable \cap stored : \A b \in k.blobs :
                 ~Intact(k, b) => b \in found.corrupt_blob
           /\ \A s \in snapshots :
                 s.time \in found.broken_snapshot \/ s.blobs \subseteq BlobsOf(Readable)
                 \/ s.blobs \cap (found.missing_blob \cup found.corrupt_blob) # {}

\* In a repository nobody damaged, whatever a check calls broken, corrupt or
\* missing it could not read, or an index file that it could not read is what
\* lists it: no commit it was overtaken by makes it call a key, the config, a
\* snapshot or a pack broken, and no leftover of a command but a pack that
\* nothing lists is a finding.
AlarmsAreReal ==
    ck = "done" /\ harm = 0 =>
        /\ found.broken_key = Missed("key")
        /\ found.broken_config = (Missed("config") # {})
        /\ found.broken_snapshot = Missed("snapshot")
        /\ found.broken_pack = Missed("header")
        /\ ~overtaken =>
           /\ found.broken_index = {i.id : i \in Missed("index")}
           /\ found.missing_pack = {}
           /\ found.missing_blob \subseteq BlobsOf(Indexed) \ BlobsOf(Readable)
           /\ \A b \in found.corrupt_blob :
                 \E k \in PackId : <<k, b>> \in Missed("tree") \cup Missed("blob")
           /\ keys # found.broken_key =>
                 found.orphaned_pack = {k.id : k \in stored \ Readable}
=============================================================================
