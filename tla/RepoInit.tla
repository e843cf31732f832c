------------------------------ MODULE RepoInit ------------------------------
(***************************************************************************)
(* The first backup of a site: how hosts that share a repository URL agree *)
(* on one master key.                                                      *)
(*                                                                         *)
(* EnsureRepository looks for a config and, when there is none, takes an   *)
(* initialization lock before repository.Init looks again and writes the   *)
(* config, then the key file.  A failed key file rolls both back.  Only    *)
(* then is the repository opened: the first key file the password opens    *)
(* must be the key the config is sealed with.  The backup runs under the   *)
(* repository's own lock.  Both locks are files of locks/; lock.New, whose *)
(* check-create-check protocol is the subject of RepoLock, is one step     *)
(* here, and as any lock file blocks an exclusive request there is never   *)
(* more than one.  `bqckup backup unlock` is a command of its own.         *)
(***************************************************************************)
EXTENDS Naturals

CONSTANTS
    Host,           \* hosts that back the site up
    Operator,       \* operators that run `bqckup backup unlock`
    Master,         \* master keys a host can draw
    None,
    Faults,         \* steps whose backend call may fail
    MaxCrashes      \* bound: crashes of one behaviour

ASSUME ConstantsAssumption ==
    /\ Host \cap Operator = {}
    /\ None \notin Master \cup Host \cup Operator
    /\ Faults \subseteq {"read", "config", "key", "drop", "release"}
    /\ MaxCrashes \in Nat

Proc == Host \cup Operator

VARIABLES
    config,         \* the master key that seals the config, None without one
    keys,           \* master keys with a key file in keys/
    lock,           \* the file in locks/
    data,           \* master keys that seal stored backups
    pc,             \* where each command is
    goal,           \* why it opens the repository, or "fail"
    mine,           \* the master key it drew or opened
    crashes

vars == <<config, keys, lock, data, pc, goal, mine, crashes>>

\* A lock file is sealed with the init-lock key or with the master key; dead
\* when its command no longer runs and it is past the staleness window.
LockFile == [by : Proc, kind : {"init", "repo"}, dead : BOOLEAN]
NoLock == [by |-> None, kind |-> "none", dead |-> FALSE]

Phases == {"idle", "outer", "initlock", "inner", "config", "key", "dropkey",
           "dropconfig", "release", "openkey", "openconfig", "lock", "work",
           "unlock", "clean"}

TypeOK ==
    /\ config \in Master \cup {None}
    /\ keys \subseteq Master
    /\ lock \in LockFile \cup {NoLock}
    /\ data \subseteq Master
    /\ pc \in [Proc -> Phases]
    /\ goal \in [Proc -> {"ensure", "backup", "unlock", "fail"}]
    /\ mine \in [Proc -> Master \cup {None}]
    /\ crashes \in 0 .. MaxCrashes

Init ==
    /\ config = None /\ keys = {} /\ lock = NoLock /\ data = {}
    /\ pc = [p \in Proc |-> "idle"]
    /\ goal = [p \in Proc |-> "fail"]
    /\ mine = [p \in Proc |-> None]
    /\ crashes = 0

MayFail(step) == step \in Faults

Go(p, phase) == pc' = [pc EXCEPT ![p] = phase]

\* The command ends.
End(p) ==
    /\ Go(p, "idle")
    /\ goal' = [goal EXCEPT ![p] = "fail"]
    /\ mine' = [mine EXCEPT ![p] = None]

Lock(p, kind) == [by |-> p, kind |-> kind, dead |-> FALSE]
Dead(l) == [by |-> l.by, kind |-> l.kind, dead |-> TRUE]

-----------------------------------------------------------------------------
(* EnsureRepository and Init.                                              *)

BeginBackup(p) ==
    /\ p \in Host /\ pc[p] = "idle"
    /\ Go(p, "outer")
    /\ goal' = [goal EXCEPT ![p] = "ensure"]
    /\ UNCHANGED <<config, keys, lock, data, mine, crashes>>

OuterStat(p) ==
    /\ pc[p] = "outer"
    /\ Go(p, IF config = None THEN "initlock" ELSE "inner")
    /\ UNCHANGED <<config, keys, lock, data, goal, mine, crashes>>

TakeInitLock(p) ==
    /\ pc[p] = "initlock"
    /\ lock = NoLock
    /\ lock' = Lock(p, "init")
    /\ Go(p, "inner")
    /\ UNCHANGED <<config, keys, data, goal, mine, crashes>>

\* lock.New fails: a lock file is there, or two commands meet between their
\* checks and both back out.
Refused(p) ==
    /\ pc[p] \in {"initlock", "lock"}
    /\ \/ lock # NoLock
       \/ \E q \in Proc \ {p} : pc[q] \in {"initlock", "lock"}
    /\ End(p)
    /\ UNCHANGED <<config, keys, lock, data, crashes>>

\* (Mutant of InnerStat: Init does not look for the config again.)
InnerStatSkipped(p) ==
    /\ pc[p] = "inner"
    /\ \E m \in Master \ (keys \cup data \cup {config}) :
          /\ \A q \in Proc : mine[q] # m
          /\ mine' = [mine EXCEPT ![p] = m]
          /\ Go(p, "config")
    /\ UNCHANGED <<config, keys, lock, data, goal, crashes>>

\* Init looks itself: an existing config is opened, otherwise a random
\* master key is drawn.
InnerStat(p) ==
    /\ pc[p] = "inner"
    /\ \/ /\ config # None
          /\ Go(p, "openkey")
          /\ UNCHANGED mine
       \/ /\ config = None
          /\ \E m \in Master \ (keys \cup data) :
                /\ \A q \in Proc : mine[q] # m
                /\ mine' = [mine EXCEPT ![p] = m]
          /\ Go(p, "config")
    /\ UNCHANGED <<config, keys, lock, data, goal, crashes>>

\* Save replaces a config that is already there.
SaveConfig(p) ==
    /\ pc[p] = "config"
    /\ config' = mine[p]
    /\ Go(p, "key")
    /\ UNCHANGED <<keys, lock, data, goal, mine, crashes>>

Fail(p) ==
    /\ Go(p, "release")
    /\ goal' = [goal EXCEPT ![p] = "fail"]

\* The error of a Save that may have stored the config: no rollback.
SaveConfigFails(p) ==
    /\ pc[p] = "config" /\ MayFail("config")
    /\ config' \in {config, mine[p]}
    /\ Fail(p)
    /\ UNCHANGED <<keys, lock, data, mine, crashes>>

SaveKey(p) ==
    /\ pc[p] = "key"
    /\ keys' = keys \cup {mine[p]}
    /\ Go(p, "release")
    /\ goal' = [goal EXCEPT ![p] = "backup"]
    /\ UNCHANGED <<config, lock, data, mine, crashes>>

SaveKeyFails(p) ==
    /\ pc[p] = "key" /\ MayFail("key")
    /\ keys' \in {keys, keys \cup {mine[p]}}
    /\ Go(p, "dropkey")
    /\ UNCHANGED <<config, lock, data, goal, mine, crashes>>

\* rollbackInit removes the key file, then the config; a failed removal does
\* not stop it.
DropKey(p) ==
    /\ pc[p] = "dropkey"
    /\ keys' \in {keys \ {mine[p]}} \cup (IF MayFail("drop") THEN {keys} ELSE {})
    /\ Go(p, "dropconfig")
    /\ UNCHANGED <<config, lock, data, goal, mine, crashes>>

\* (Mutant of DropConfig: the config stays.)
DropConfigNot(p) ==
    /\ pc[p] = "dropconfig"
    /\ Fail(p)
    /\ UNCHANGED <<config, keys, lock, data, mine, crashes>>

DropConfig(p) ==
    /\ pc[p] = "dropconfig"
    /\ config' \in {None} \cup (IF MayFail("drop") THEN {config} ELSE {})
    /\ Fail(p)
    /\ UNCHANGED <<keys, lock, data, mine, crashes>>

\* A deferred Unlock, where the init lock was taken: it removes this
\* command's file, if that is still there.
Removed(p, kind) ==
    lock' \in IF lock # Lock(p, kind) THEN {lock}
              ELSE {NoLock} \cup
                   (IF MayFail("release") THEN {Dead(lock)}
                    ELSE {})

ReleaseInit(p) ==
    /\ pc[p] = "release"
    /\ Removed(p, "init")
    /\ IF goal[p] = "backup"
       THEN /\ Go(p, "openkey")
            /\ mine' = [mine EXCEPT ![p] = None]
            /\ UNCHANGED goal
       ELSE End(p)
    /\ UNCHANGED <<config, keys, data, crashes>>

-----------------------------------------------------------------------------
(* Opening the repository, backing up, unlocking.                          *)

BeginUnlock(p) ==
    /\ p \in Operator /\ pc[p] = "idle"
    /\ Go(p, "openkey")
    /\ goal' = [goal EXCEPT ![p] = "unlock"]
    /\ UNCHANGED <<config, keys, lock, data, mine, crashes>>

\* Key files are listed in the order of their hashes, which is any order, and
\* every one of them opens with the site's password: the first one wins.
OpenKey(p) ==
    /\ pc[p] = "openkey"
    /\ config # None
    /\ \E m \in keys : mine' = [mine EXCEPT ![p] = m]
    /\ Go(p, "openconfig")
    /\ UNCHANGED <<config, keys, lock, data, goal, crashes>>

\* No config, no key file, a config sealed with another key, or a failing
\* Stat, List or Load.  A lock taken by EnsureRepository is still released.
OpenFails(p) ==
    /\ \/ pc[p] = "openkey" /\ (config = None \/ keys = {})
       \/ pc[p] = "openconfig" /\ config # mine[p]
       \/ MayFail("read") /\ pc[p] \in {"outer", "inner", "openkey", "openconfig"}
    /\ IF goal[p] = "ensure" THEN Fail(p) /\ UNCHANGED mine ELSE End(p)
    /\ UNCHANGED <<config, keys, lock, data, crashes>>

\* Init's Open is over, or the backup's, or the operator's.
OpenConfig(p) ==
    /\ pc[p] = "openconfig"
    /\ config = mine[p]
    /\ \/ /\ goal[p] = "ensure"
          /\ Go(p, "release")
          /\ goal' = [goal EXCEPT ![p] = "backup"]
       \/ goal[p] = "backup" /\ Go(p, "lock") /\ UNCHANGED goal
       \/ goal[p] = "unlock" /\ Go(p, "clean") /\ UNCHANGED goal
    /\ UNCHANGED <<config, keys, lock, data, mine, crashes>>

TakeLock(p) ==
    /\ pc[p] = "lock"
    /\ lock = NoLock
    /\ lock' = Lock(p, "repo")
    /\ Go(p, "work")
    /\ UNCHANGED <<config, keys, data, goal, mine, crashes>>

\* Blobs, trees and the snapshot, sealed with the key found by Open.
Backup(p) ==
    /\ pc[p] = "work"
    /\ data' = data \cup {mine[p]}
    /\ Go(p, "unlock")
    /\ UNCHANGED <<config, keys, lock, goal, mine, crashes>>

Unlock(p) ==
    /\ pc[p] = "unlock"
    /\ Removed(p, "repo")
    /\ End(p)
    /\ UNCHANGED <<config, keys, data, crashes>>

\* (Mutant of Clean: files that cannot be read are left alone.)
CleanReadable(p) ==
    /\ pc[p] = "clean"
    /\ lock' = IF lock.dead /\ lock.kind = "repo" THEN NoLock ELSE lock
    /\ End(p)
    /\ UNCHANGED <<config, keys, data, crashes>>

\* RemoveStale with the master key: a file sealed with the init-lock key
\* cannot be read and counts as invalid, whoever it belongs to.
Clean(p) ==
    /\ pc[p] = "clean"
    /\ lock' = IF lock.dead \/ lock.kind = "init" THEN NoLock ELSE lock
    /\ End(p)
    /\ UNCHANGED <<config, keys, data, crashes>>

\* Death at any point; the lock file stays and grows stale.
Crash(p) ==
    /\ pc[p] # "idle" /\ p \in Host
    /\ crashes < MaxCrashes
    /\ crashes' = crashes + 1
    /\ lock' = IF lock.by = p THEN Dead(lock) ELSE lock
    /\ End(p)
    /\ UNCHANGED <<config, keys, data>>

Step(p) ==
    \/ OuterStat(p) \/ TakeInitLock(p) \/ Refused(p) \/ InnerStat(p)
    \/ SaveConfig(p) \/ SaveConfigFails(p) \/ SaveKey(p) \/ SaveKeyFails(p)
    \/ DropKey(p) \/ DropConfig(p) \/ ReleaseInit(p)
    \/ OpenKey(p) \/ OpenFails(p) \/ OpenConfig(p)
    \/ TakeLock(p) \/ Backup(p) \/ Unlock(p) \/ Clean(p)

Next ==
    \E p \in Proc :
        BeginBackup(p) \/ BeginUnlock(p) \/ Step(p) \/ Crash(p)

Spec == Init /\ [][Next]_vars

\* Commands run on, and the operator does what the lock's message asks for,
\* again and again.
FairSpec ==
    /\ Spec
    /\ \A p \in Proc : WF_vars(Step(p))
    /\ \A p \in Operator : WF_vars(BeginUnlock(p))

-----------------------------------------------------------------------------
(* Properties.                                                             *)

\* Whatever key file Open tries first, it is the config's.
Openable == config # None /\ keys = {config}

\* "The loser's data would be undecryptable forever" (facade.go): whatever
\* the order of first backups, crashes and unlocks, everything a backup has
\* sealed is sealed with the one key the repository opens with.
NoLostData == data # {} => Openable /\ data = {config}

Initialising(p) == pc[p] \in {"config", "key", "dropkey", "dropconfig"}

\* At most one host is between finding no config and having written the
\* config and its key file.
InitsAreSerial ==
    \A p, q \in Proc : Initialising(p) /\ Initialising(q) => p = q

\* "Without this rollback, a transient key write failure leaves a config that
\* makes every retry try (and fail) to open the repository" (init.go): with
\* no command under way, and none dead, a config can be opened.
FailedInitLeavesNothing ==
    (\A p \in Proc : pc[p] = "idle") /\ crashes = 0 /\ config # None => Openable

\* Once the repository can be opened, the operator's unlock gets rid of the
\* lock of a dead command, an initialization lock included.
DeadLocksClear == lock.dead /\ Openable ~> ~lock.dead

-----------------------------------------------------------------------------
(* Why initialization is safe: the inductive invariant of NoLostData for   *)
(* key files that do not fail to be stored.                                *)

OwnLock(p, kind) == lock = Lock(p, kind)

\* Who writes or uses a master key has drawn or opened one.
KeyInHand ==
    \A p \in Proc :
        pc[p] \in {"config", "key", "dropkey", "openconfig", "lock", "work"} =>
            mine[p] \in Master

\* The config and the only key file belong together, and nobody rolls back.
OneKey ==
    /\ keys # {} => config # None /\ keys = {config}
    /\ data \subseteq keys
    /\ \A p \in Proc : pc[p] \notin {"dropkey", "dropconfig"}

\* Who has found no config holds the init lock; nobody else comes between.
InitUnderLock ==
    \A p \in Proc :
        /\ pc[p] = "inner" => config # None \/ OwnLock(p, "init")
        /\ pc[p] = "config" => OwnLock(p, "init") /\ config = None
        /\ pc[p] = "key" => OwnLock(p, "init") /\ config = mine[p]
                            /\ keys = {}

\* Who has opened the repository has the key in hand, and it stays the key.
OpenedWithKey ==
    \A p \in Proc :
        pc[p] \in {"openconfig", "lock", "work", "unlock", "clean"} =>
            mine[p] \in keys

IInv == TypeOK /\ KeyInHand /\ OneKey /\ InitUnderLock /\ OpenedWithKey
=============================================================================
