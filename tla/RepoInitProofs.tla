--------------------------- MODULE RepoInitProofs ---------------------------
(***************************************************************************)
(* Proofs about RepoInit, for every set of hosts, operators and master     *)
(* keys and any number of crashes: as long as storing the key file does    *)
(* not fail, so that nobody rolls an initialization back, initializations  *)
(* are serial and no backup is ever sealed with a key that is lost; and    *)
(* where it may fail, a host alone is left with nothing or a repository    *)
(* that opens.                                                             *)
(***************************************************************************)
EXTENDS MCRepoInit, TLAPS

-----------------------------------------------------------------------------
(* Types.                                                                  *)

\* Going to a phase keeps pc typed.
LEMMA GoType ==
    ASSUME TypeOK, NEW p \in Proc, NEW phase \in Phases, Go(p, phase)
    PROVE  pc' \in [Proc -> Phases]
BY DEF Go, TypeOK

\* The phases there are.
LEMMA PhaseNames ==
    {"idle", "outer", "initlock", "inner", "config", "key", "dropkey",
     "dropconfig", "release", "openkey", "openconfig", "lock", "work",
     "unlock", "clean"} \subseteq Phases
BY DEF Phases

\* Ending a command keeps the types of what belongs to it.
LEMMA EndType ==
    ASSUME TypeOK, NEW p \in Proc, End(p)
    PROVE  /\ pc' \in [Proc -> Phases]
           /\ goal' \in [Proc -> {"ensure", "backup", "unlock", "fail"}]
           /\ mine' \in [Proc -> Master \cup {None}]
BY DEF End, Go, TypeOK, Phases

\* A lock taken or removed is a lock file or none.
LEMMA LockType ==
    ASSUME TypeOK, NEW p \in Proc, NEW kind \in {"init", "repo"}
    PROVE  /\ Lock(p, kind) \in LockFile
           /\ lock.by = p => Dead(lock) \in LockFile
           /\ Removed(p, kind) => lock' \in LockFile \cup {NoLock}
<1>1. Lock(p, kind) \in LockFile
  BY DEF Lock, LockFile
<1>2. lock.by = p => Dead(lock) \in LockFile
  <2>1. lock \in LockFile => Dead(lock) \in LockFile
    BY DEF LockFile, Dead
  <2>2. NoLock.by \notin Proc
    BY ConstantsAssumption DEF NoLock, Proc
  <2> QED BY <2>1, <2>2 DEF TypeOK
<1>3. Removed(p, kind) => lock' \in LockFile \cup {NoLock}
  <2>1. lock = Lock(p, kind) => lock.by = p
    BY DEF Lock
  <2> QED BY <1>2, <2>1 DEF Removed, TypeOK
<1> QED BY <1>1, <1>2, <1>3

\* Every step keeps every variable in its type.
LEMMA TypeStep ==
    ASSUME TypeOK, KeyInHand, [Next]_vars
    PROVE  TypeOK'
<1>1. CASE UNCHANGED vars
  BY <1>1 DEF TypeOK, vars
<1>2. ASSUME NEW p \in Proc, BeginBackup(p)
      PROVE  TypeOK'
  BY <1>2 DEF BeginBackup, Go, TypeOK, Phases
<1>3. ASSUME NEW p \in Proc, BeginUnlock(p)
      PROVE  TypeOK'
  BY <1>3 DEF BeginUnlock, Go, TypeOK, Phases
<1>4. ASSUME NEW p \in Proc, Crash(p)
      PROVE  TypeOK'
  <2>1. lock' \in LockFile \cup {NoLock}
    BY <1>4, LockType DEF Crash, TypeOK
  <2>2. crashes' \in 0 .. MaxCrashes
    BY <1>4, ConstantsAssumption DEF Crash, TypeOK
  <2> QED BY <1>4, <2>1, <2>2, EndType DEF Crash, TypeOK
<1>5. ASSUME NEW p \in Proc, Step(p)
      PROVE  TypeOK'
  <2>1. CASE OuterStat(p)
    BY <2>1 DEF OuterStat, Go, TypeOK, Phases
  <2>2. CASE TakeInitLock(p)
    BY <2>2, LockType, GoType, PhaseNames DEF TakeInitLock, TypeOK
  <2>3. CASE Refused(p)
    BY <2>3, EndType DEF Refused, TypeOK
  <2>4. CASE InnerStat(p)
    <3>1. mine' \in [Proc -> Master \cup {None}]
      BY <2>4 DEF InnerStat, TypeOK
    <3>2. pc' \in [Proc -> Phases]
      BY <2>4, GoType, PhaseNames DEF InnerStat
    <3> QED BY <2>4, <3>1, <3>2 DEF InnerStat, TypeOK
  <2>5. CASE SaveConfig(p)
    BY <2>5, GoType, PhaseNames DEF SaveConfig, TypeOK
  <2>6. CASE SaveConfigFails(p)
    BY <2>6 DEF SaveConfigFails, Fail, Go, TypeOK, Phases
  <2>7. CASE SaveKey(p)
    BY <2>7 DEF SaveKey, KeyInHand, Go, TypeOK, Phases
  <2>8. CASE SaveKeyFails(p)
    BY <2>8, GoType, PhaseNames DEF SaveKeyFails, KeyInHand, TypeOK
  <2>9. CASE DropKey(p)
    <3>1. keys' \subseteq Master
      BY <2>9 DEF DropKey, TypeOK
    <3> QED BY <2>9, <3>1, GoType, PhaseNames DEF DropKey, TypeOK
  <2>10. CASE DropConfig(p)
    <3>1. config' \in Master \cup {None}
      BY <2>10 DEF DropConfig, TypeOK
    <3> QED BY <2>10, <3>1 DEF DropConfig, Fail, Go, TypeOK, Phases
  <2>11. CASE ReleaseInit(p)
    <3>1. lock' \in LockFile \cup {NoLock}
      BY <2>11, LockType DEF ReleaseInit
    <3>2. CASE goal[p] = "backup"
      BY <2>11, <3>1, <3>2 DEF ReleaseInit, Go, TypeOK, Phases
    <3>3. CASE goal[p] # "backup"
      BY <2>11, <3>1, <3>3, EndType DEF ReleaseInit, TypeOK
    <3> QED BY <3>2, <3>3
  <2>12. CASE OpenKey(p)
    <3>1. mine' \in [Proc -> Master \cup {None}]
      BY <2>12 DEF OpenKey, TypeOK
    <3> QED BY <2>12, <3>1, GoType, PhaseNames DEF OpenKey, TypeOK
  <2>13. CASE OpenFails(p)
    <3>1. CASE goal[p] = "ensure"
      BY <2>13, <3>1 DEF OpenFails, Fail, Go, TypeOK, Phases
    <3>2. CASE goal[p] # "ensure"
      BY <2>13, <3>2, EndType DEF OpenFails, TypeOK
    <3> QED BY <3>1, <3>2
  <2>14. CASE OpenConfig(p)
    <3>1. pc' \in [Proc -> Phases]
      BY <2>14, GoType, PhaseNames DEF OpenConfig
    <3>2. goal' \in [Proc -> {"ensure", "backup", "unlock", "fail"}]
      BY <2>14 DEF OpenConfig, TypeOK
    <3> QED BY <2>14, <3>1, <3>2 DEF OpenConfig, TypeOK
  <2>15. CASE TakeLock(p)
    BY <2>15, LockType, GoType, PhaseNames DEF TakeLock, TypeOK
  <2>16. CASE Backup(p)
    BY <2>16 DEF Backup, KeyInHand, Go, TypeOK, Phases
  <2>17. CASE Unlock(p)
    BY <2>17, LockType, EndType DEF Unlock, TypeOK
  <2>18. CASE Clean(p)
    BY <2>18, EndType DEF Clean, TypeOK
  <2> QED
    BY <1>5, <2>1, <2>2, <2>3, <2>4, <2>5, <2>6, <2>7, <2>8, <2>9, <2>10,
       <2>11, <2>12, <2>13, <2>14, <2>15, <2>16, <2>17, <2>18 DEF Step
<1> QED BY <1>1, <1>2, <1>3, <1>4, <1>5 DEF Next

-----------------------------------------------------------------------------
(* The key in hand.                                                        *)

\* A command draws or opens a master key before it uses one.
LEMMA KeyStep ==
    ASSUME TypeOK, KeyInHand, [Next]_vars
    PROVE  KeyInHand'
<1>1. CASE UNCHANGED vars
  BY <1>1 DEF KeyInHand, vars
<1>2. ASSUME NEW p \in Proc, BeginBackup(p) \/ BeginUnlock(p) \/ Crash(p)
      PROVE  KeyInHand'
  BY <1>2 DEF BeginBackup, BeginUnlock, Crash, End, Go, TypeOK, KeyInHand
<1>3. ASSUME NEW p \in Proc, OuterStat(p) \/ TakeInitLock(p) \/ Refused(p)
      PROVE  KeyInHand'
  BY <1>3 DEF OuterStat, TakeInitLock, Refused, End, Go, TypeOK, KeyInHand
<1>4. ASSUME NEW p \in Proc, InnerStat(p)
      PROVE  KeyInHand'
  BY <1>4 DEF InnerStat, Go, TypeOK, KeyInHand
<1>5. ASSUME NEW p \in Proc, SaveConfig(p) \/ SaveConfigFails(p)
      PROVE  KeyInHand'
  BY <1>5 DEF SaveConfig, SaveConfigFails, Fail, Go, TypeOK, KeyInHand
<1>6. ASSUME NEW p \in Proc, SaveKey(p) \/ SaveKeyFails(p)
      PROVE  KeyInHand'
  BY <1>6 DEF SaveKey, SaveKeyFails, Go, TypeOK, KeyInHand
<1>7. ASSUME NEW p \in Proc, DropKey(p) \/ DropConfig(p)
      PROVE  KeyInHand'
  BY <1>7 DEF DropKey, DropConfig, Fail, Go, TypeOK, KeyInHand
<1>8. ASSUME NEW p \in Proc, ReleaseInit(p)
      PROVE  KeyInHand'
  BY <1>8 DEF ReleaseInit, End, Go, TypeOK, KeyInHand
<1>9. ASSUME NEW p \in Proc, OpenKey(p) \/ OpenFails(p) \/ OpenConfig(p)
      PROVE  KeyInHand'
  BY <1>9 DEF OpenKey, OpenFails, OpenConfig, Fail, End, Go, TypeOK, KeyInHand
<1>10. ASSUME NEW p \in Proc, TakeLock(p) \/ Backup(p) \/ Unlock(p) \/ Clean(p)
       PROVE  KeyInHand'
  BY <1>10 DEF TakeLock, Backup, Unlock, Clean, End, Go, TypeOK, KeyInHand
<1> QED
  BY <1>1, <1>2, <1>3, <1>4, <1>5, <1>6, <1>7, <1>8, <1>9, <1>10
     DEF Next, Step

\* Every variable always holds a value of its type, whatever fails.
THEOREM TypeCorrect == Spec => []TypeOK
<1>1. Init => TypeOK /\ KeyInHand
  BY ConstantsAssumption DEF Init, TypeOK, KeyInHand, Phases
<1>2. TypeOK /\ KeyInHand /\ [Next]_vars => (TypeOK /\ KeyInHand)'
  BY TypeStep, KeyStep
<1> QED BY <1>1, <1>2, PTL DEF Spec

-----------------------------------------------------------------------------
(* One key.  Nobody rolls back, so the config and its key file stay.       *)

\* Two commands cannot both have the lock.
LEMMA OneOwner ==
    ASSUME NEW p \in Proc, NEW q \in Proc, NEW j, NEW k,
           OwnLock(p, j), OwnLock(q, k)
    PROVE  p = q /\ lock # NoLock
<1>1. Lock(p, j).by = p /\ Lock(q, k).by = q
  BY DEF Lock
<1>2. NoLock.by \notin Proc
  BY ConstantsAssumption DEF NoLock, Proc
<1> QED BY <1>1, <1>2 DEF OwnLock

\* Where no config is, no key file is, and nothing is backed up.
LEMMA EmptyTogether ==
    ASSUME OneKey, config = None
    PROVE  keys = {} /\ data = {}
BY DEF OneKey

\* Who writes the config finds none, who writes the key file finds only his.
LEMMA OneKeyStep ==
    ASSUME IInv, "key" \notin Faults, [Next]_vars
    PROVE  OneKey'
<1> USE DEF IInv
<1>1. CASE UNCHANGED vars
  BY <1>1 DEF OneKey, vars
<1>2. ASSUME NEW p \in Proc, BeginBackup(p) \/ BeginUnlock(p) \/ Crash(p)
      PROVE  OneKey'
  BY <1>2 DEF BeginBackup, BeginUnlock, Crash, End, Go, TypeOK, OneKey
<1>3. ASSUME NEW p \in Proc, OuterStat(p) \/ TakeInitLock(p) \/ Refused(p)
      PROVE  OneKey'
  BY <1>3 DEF OuterStat, TakeInitLock, Refused, End, Go, TypeOK, OneKey
<1>4. ASSUME NEW p \in Proc, InnerStat(p)
      PROVE  OneKey'
  BY <1>4 DEF InnerStat, Go, TypeOK, OneKey
<1>5. ASSUME NEW p \in Proc, SaveConfig(p) \/ SaveConfigFails(p)
      PROVE  OneKey'
  <2>1. keys = {} /\ data = {}
    BY <1>5, EmptyTogether DEF SaveConfig, SaveConfigFails, InitUnderLock
  <2> QED
    BY <1>5, <2>1 DEF SaveConfig, SaveConfigFails, Fail, Go, TypeOK, OneKey
<1>6. ASSUME NEW p \in Proc, SaveKey(p)
      PROVE  OneKey'
  <2>1. keys = {} /\ config = mine[p] /\ mine[p] # None
    BY <1>6, ConstantsAssumption DEF SaveKey, InitUnderLock, KeyInHand
  <2> QED BY <1>6, <2>1 DEF SaveKey, Go, TypeOK, OneKey
<1>7. ASSUME NEW p \in Proc, SaveKeyFails(p) \/ DropKey(p) \/ DropConfig(p)
      PROVE  FALSE
  BY <1>7 DEF SaveKeyFails, MayFail, DropKey, DropConfig, OneKey
<1>8. ASSUME NEW p \in Proc, ReleaseInit(p)
      PROVE  OneKey'
  BY <1>8 DEF ReleaseInit, End, Go, TypeOK, OneKey
<1>9. ASSUME NEW p \in Proc, OpenKey(p) \/ OpenFails(p) \/ OpenConfig(p)
      PROVE  OneKey'
  BY <1>9 DEF OpenKey, OpenFails, OpenConfig, Fail, End, Go, TypeOK, OneKey
<1>10. ASSUME NEW p \in Proc, TakeLock(p) \/ Unlock(p) \/ Clean(p)
       PROVE  OneKey'
  BY <1>10 DEF TakeLock, Unlock, Clean, End, Go, TypeOK, OneKey
<1>11. ASSUME NEW p \in Proc, Backup(p)
       PROVE  OneKey'
  <2>1. mine[p] \in keys
    BY <1>11 DEF Backup, OpenedWithKey
  <2> QED BY <1>11, <2>1 DEF Backup, Go, TypeOK, OneKey
<1> QED
  BY <1>1, <1>2, <1>3, <1>4, <1>5, <1>6, <1>7, <1>8, <1>9, <1>10, <1>11
     DEF Next, Step

-----------------------------------------------------------------------------
(* Under the lock.                                                         *)

\* What p does leaves q alone, and q's own lock stays q's.
LEMMA OthersKeepLock ==
    ASSUME TypeOK, NEW p \in Proc, NEW q \in Proc, p # q, NEW k,
           OwnLock(q, k),
           \/ UNCHANGED lock
           \/ lock = NoLock
           \/ \E kind \in {"init", "repo"} : Removed(p, kind)
           \/ lock' = IF lock.by = p THEN Dead(lock) ELSE lock
    PROVE  OwnLock(q, k)'
<1>1. lock.by = q /\ lock # NoLock
  BY OneOwner DEF OwnLock, Lock
<1>2. \A kind : lock # Lock(p, kind)
  BY <1>1 DEF Lock
<1> QED BY <1>1, <1>2 DEF OwnLock, Removed, Lock

\* Between finding no config and storing the key file a host is alone.
LEMMA InitUnderLockStep ==
    ASSUME IInv, "key" \notin Faults, [Next]_vars
    PROVE  InitUnderLock'
<1> USE DEF IInv
<1>1. CASE UNCHANGED vars
  BY <1>1 DEF InitUnderLock, OwnLock, vars
<1>2. ASSUME NEW p \in Proc, BeginBackup(p) \/ BeginUnlock(p) \/ OuterStat(p)
      PROVE  InitUnderLock'
  BY <1>2 DEF BeginBackup, BeginUnlock, OuterStat, Go, TypeOK, InitUnderLock,
              OwnLock
<1>3. ASSUME NEW p \in Proc, TakeInitLock(p)
      PROVE  InitUnderLock'
  <2>1. \A q \in Proc \ {p} :
          pc'[q] = pc[q] /\ \A k : OwnLock(q, k) => OwnLock(q, k)'
    BY <1>3, OthersKeepLock DEF TakeInitLock, Go, TypeOK
  <2>2. OwnLock(p, "init")' /\ pc'[p] = "inner"
    BY <1>3 DEF TakeInitLock, OwnLock, Go, TypeOK
  <2> QED BY <1>3, <2>1, <2>2 DEF TakeInitLock, InitUnderLock
<1>4. ASSUME NEW p \in Proc, Refused(p) \/ OpenFails(p)
      PROVE  InitUnderLock'
  BY <1>4 DEF Refused, OpenFails, Fail, End, Go, TypeOK, InitUnderLock, OwnLock
<1>5. ASSUME NEW p \in Proc, InnerStat(p)
      PROVE  InitUnderLock'
  BY <1>5 DEF InnerStat, Go, TypeOK, InitUnderLock, OwnLock
<1>6. ASSUME NEW p \in Proc, SaveConfig(p) \/ SaveConfigFails(p)
      PROVE  InitUnderLock'
  <2>1. /\ OwnLock(p, "init") /\ config = None /\ keys = {}
        /\ mine[p] \in Master /\ mine[p] # None
    BY <1>6, EmptyTogether, ConstantsAssumption
       DEF SaveConfig, SaveConfigFails, InitUnderLock, KeyInHand
  <2>2. \A q \in Proc \ {p} : ~OwnLock(q, "init")
    BY <2>1, OneOwner
  <2>3. \A q \in Proc \ {p} : pc[q] \notin {"inner", "config", "key"}
    BY <2>1, <2>2 DEF InitUnderLock
  <2>4. /\ \A q \in Proc \ {p} : pc'[q] = pc[q]
        /\ pc'[p] \in {"key", "release"}
    BY <1>6 DEF SaveConfig, SaveConfigFails, Fail, Go, TypeOK
  <2>5. pc'[p] = "key" => config' = mine[p] /\ UNCHANGED <<mine, keys, lock>>
    BY <1>6 DEF SaveConfig, SaveConfigFails, Fail, Go, TypeOK
  <2> QED BY <2>1, <2>3, <2>4, <2>5 DEF InitUnderLock, OwnLock
<1>7. ASSUME NEW p \in Proc, SaveKey(p)
      PROVE  InitUnderLock'
  <2>1. \A q \in Proc \ {p} : ~OwnLock(q, "init")
    BY <1>7, OneOwner DEF SaveKey, InitUnderLock
  <2> QED BY <1>7, <2>1 DEF SaveKey, Go, TypeOK, InitUnderLock, OwnLock
<1>8. ASSUME NEW p \in Proc, SaveKeyFails(p) \/ DropKey(p) \/ DropConfig(p)
      PROVE  FALSE
  BY <1>8 DEF SaveKeyFails, MayFail, DropKey, DropConfig, OneKey
<1>9. ASSUME NEW p \in Proc, ReleaseInit(p) \/ Unlock(p) \/ Crash(p)
      PROVE  InitUnderLock'
  <2>1. \A q \in Proc \ {p} :
          /\ pc'[q] = pc[q] /\ mine'[q] = mine[q]
          /\ \A k : OwnLock(q, k) => OwnLock(q, k)'
    BY <1>9, OthersKeepLock DEF ReleaseInit, Unlock, Crash, End, Go, TypeOK
  <2>2. pc'[p] \in {"openkey", "idle"} /\ UNCHANGED <<config, keys>>
    BY <1>9 DEF ReleaseInit, Unlock, Crash, End, Go, TypeOK
  <2> QED BY <2>1, <2>2 DEF InitUnderLock
<1>10. ASSUME NEW p \in Proc, OpenKey(p) \/ OpenConfig(p) \/ Backup(p)
       PROVE  InitUnderLock'
  BY <1>10 DEF OpenKey, OpenConfig, Backup, Go, TypeOK, InitUnderLock, OwnLock
<1>11. ASSUME NEW p \in Proc, TakeLock(p)
       PROVE  InitUnderLock'
  <2>1. \A q \in Proc \ {p} :
          pc'[q] = pc[q] /\ \A k : OwnLock(q, k) => OwnLock(q, k)'
    BY <1>11, OthersKeepLock DEF TakeLock, Go, TypeOK
  <2>2. pc'[p] = "work"
    BY <1>11 DEF TakeLock, Go, TypeOK
  <2> QED BY <1>11, <2>1, <2>2 DEF TakeLock, InitUnderLock
<1>12. ASSUME NEW p \in Proc, Clean(p)
       PROVE  InitUnderLock'
  \* The repository is open, so no initialization is under way.
  <2>1. keys # {} /\ config # None
    BY <1>12 DEF Clean, OpenedWithKey, OneKey
  <2>2. \A q \in Proc : pc[q] \notin {"config", "key"}
    BY <2>1 DEF InitUnderLock
  <2> QED BY <1>12, <2>1, <2>2 DEF Clean, End, Go, TypeOK, InitUnderLock
<1> QED
  BY <1>1, <1>2, <1>3, <1>4, <1>5, <1>6, <1>7, <1>8, <1>9, <1>10, <1>11, <1>12
     DEF Next, Step

\* A key found by Open stays in keys/.
LEMMA OpenedWithKeyStep ==
    ASSUME IInv, "key" \notin Faults, [Next]_vars
    PROVE  OpenedWithKey'
<1> USE DEF IInv
<1>1. CASE UNCHANGED vars
  BY <1>1 DEF OpenedWithKey, vars
<1>2. ASSUME NEW p \in Proc, BeginBackup(p) \/ BeginUnlock(p) \/ Crash(p)
      PROVE  OpenedWithKey'
  BY <1>2 DEF BeginBackup, BeginUnlock, Crash, End, Go, TypeOK, OpenedWithKey
<1>3. ASSUME NEW p \in Proc,
             OuterStat(p) \/ TakeInitLock(p) \/ Refused(p) \/ InnerStat(p)
      PROVE  OpenedWithKey'
  BY <1>3 DEF OuterStat, TakeInitLock, Refused, InnerStat, End, Go, TypeOK,
              OpenedWithKey
<1>4. ASSUME NEW p \in Proc, SaveConfig(p) \/ SaveConfigFails(p) \/ SaveKey(p)
      PROVE  OpenedWithKey'
  BY <1>4 DEF SaveConfig, SaveConfigFails, SaveKey, Fail, Go, TypeOK,
              OpenedWithKey
<1>5. ASSUME NEW p \in Proc, SaveKeyFails(p) \/ DropKey(p) \/ DropConfig(p)
      PROVE  FALSE
  BY <1>5 DEF SaveKeyFails, MayFail, DropKey, DropConfig, OneKey
<1>6. ASSUME NEW p \in Proc, ReleaseInit(p) \/ OpenKey(p) \/ OpenFails(p)
      PROVE  OpenedWithKey'
  BY <1>6 DEF ReleaseInit, OpenKey, OpenFails, Fail, End, Go, TypeOK,
              OpenedWithKey
<1>7. ASSUME NEW p \in Proc, OpenConfig(p) \/ TakeLock(p) \/ Backup(p)
      PROVE  OpenedWithKey'
  BY <1>7 DEF OpenConfig, TakeLock, Backup, Go, TypeOK, OpenedWithKey
<1>8. ASSUME NEW p \in Proc, Unlock(p) \/ Clean(p)
      PROVE  OpenedWithKey'
  BY <1>8 DEF Unlock, Clean, End, Go, TypeOK, OpenedWithKey
<1> QED
  BY <1>1, <1>2, <1>3, <1>4, <1>5, <1>6, <1>7, <1>8 DEF Next, Step

-----------------------------------------------------------------------------
(* The theorems.                                                           *)

\* The inductive invariant holds in every behaviour in which key files are
\* stored, whatever else fails.
THEOREM Invariance ==
    ASSUME "key" \notin Faults
    PROVE  Spec => []IInv
<1>1. Init => IInv
  BY ConstantsAssumption DEF Init, IInv, TypeOK, KeyInHand, OneKey,
     InitUnderLock, OpenedWithKey, Phases
<1>2. IInv /\ [Next]_vars => IInv'
  <2> SUFFICES ASSUME IInv, [Next]_vars PROVE IInv'
    OBVIOUS
  <2>1. (TypeOK /\ KeyInHand)'
    BY TypeStep, KeyStep DEF IInv
  <2>2. (OneKey /\ InitUnderLock /\ OpenedWithKey)'
    BY OneKeyStep, InitUnderLockStep, OpenedWithKeyStep
  <2> QED BY <2>1, <2>2 DEF IInv
<1> QED BY <1>1, <1>2, PTL DEF Spec

\* No backup is ever sealed with a key the repository does not open with.
THEOREM DataStaysReadable ==
    ASSUME "key" \notin Faults
    PROVE  Spec => []NoLostData
<1>1. IInv => NoLostData
  BY DEF IInv, OneKey, NoLostData, Openable
<1> QED BY <1>1, Invariance, PTL

\* Two hosts never initialize the repository at the same time.
THEOREM OneInitialises ==
    ASSUME "key" \notin Faults
    PROVE  Spec => []InitsAreSerial
<1>1. IInv => InitsAreSerial
  BY OneOwner DEF IInv, OneKey, InitUnderLock, InitsAreSerial, Initialising
<1> QED BY <1>1, Invariance, PTL

-----------------------------------------------------------------------------
(* One host alone, whose key files may fail to be stored: it leaves either *)
(* nothing or a repository that opens.                                     *)

\* No config and no key file, or a config with its key file and no other.
Settled ==
    \/ config = None /\ keys = {}
    \/ config # None /\ keys = {config}

\* What is stored wherever the host is, as nothing but its death keeps it
\* from rolling back.
Between(p) ==
    /\ pc[p] \notin {"config", "key", "dropkey", "dropconfig"} => Settled
    /\ pc[p] = "config" => config = None /\ keys = {} /\ mine[p] \in Master
    /\ pc[p] = "key" => config = mine[p] /\ keys = {} /\ mine[p] \in Master
    /\ pc[p] = "dropkey" => keys \subseteq {mine[p]}
    /\ pc[p] = "dropconfig" => keys = {}

\* An operator unlocks, and does nothing else.
Unlocking(p) ==
    \/ pc[p] = "idle"
    \/ pc[p] \in {"openkey", "openconfig", "clean"} /\ goal[p] = "unlock"

Typed ==
    /\ pc \in [Proc -> Phases]
    /\ goal \in [Proc -> {"ensure", "backup", "unlock", "fail"}]
    /\ DOMAIN mine = Proc
    /\ crashes \in Nat

LoneInv ==
    /\ Typed
    /\ \A o \in Operator : Unlocking(o)
    /\ crashes = 0 => Between(Loner)

LEMMA LoneStepTyped ==
    ASSUME Typed, NEW p \in Proc, Lone!Step(p)
    PROVE  Typed' /\ crashes' = crashes
<1> USE DEF Typed, Lone!Go, Lone!End, Lone!Fail, Phases
<1>1. Lone!OuterStat(p) \/ Lone!TakeInitLock(p) \/ Lone!Refused(p)
        => Typed' /\ crashes' = crashes
  BY DEF Lone!OuterStat, Lone!TakeInitLock, Lone!Refused
<1>2. Lone!InnerStat(p) => Typed' /\ crashes' = crashes
  BY DEF Lone!InnerStat
<1>3. Lone!SaveConfig(p) \/ Lone!SaveConfigFails(p) \/ Lone!SaveKey(p)
        \/ Lone!SaveKeyFails(p) => Typed' /\ crashes' = crashes
  BY DEF Lone!SaveConfig, Lone!SaveConfigFails, Lone!SaveKey, Lone!SaveKeyFails
<1>4. Lone!DropKey(p) \/ Lone!DropConfig(p) \/ Lone!ReleaseInit(p)
        => Typed' /\ crashes' = crashes
  BY DEF Lone!DropKey, Lone!DropConfig, Lone!ReleaseInit
<1>5. Lone!OpenKey(p) \/ Lone!OpenFails(p) \/ Lone!OpenConfig(p)
        => Typed' /\ crashes' = crashes
  BY DEF Lone!OpenKey, Lone!OpenFails, Lone!OpenConfig
<1>6. Lone!TakeLock(p) \/ Lone!Backup(p) \/ Lone!Unlock(p) \/ Lone!Clean(p)
        => Typed' /\ crashes' = crashes
  BY DEF Lone!TakeLock, Lone!Backup, Lone!Unlock, Lone!Clean
<1> QED BY <1>1, <1>2, <1>3, <1>4, <1>5, <1>6 DEF Lone!Step

\* Whoever steps leaves the others where they are.
LEMMA LoneFrame ==
    ASSUME Typed, NEW p \in Proc, NEW q \in Proc, q # p,
           Lone!BeginBackup(p) \/ Lone!BeginUnlock(p) \/ Lone!Step(p) \/ Lone!Crash(p)
    PROVE  pc'[q] = pc[q] /\ goal'[q] = goal[q] /\ mine'[q] = mine[q]
<1> DEFINE Same == pc'[q] = pc[q] /\ goal'[q] = goal[q] /\ mine'[q] = mine[q]
<1> USE DEF Typed, Lone!Go, Lone!End, Lone!Fail
<1>0. Lone!BeginBackup(p) \/ Lone!BeginUnlock(p) \/ Lone!Crash(p) => Same
  BY DEF Lone!BeginBackup, Lone!BeginUnlock, Lone!Crash
<1>1. Lone!OuterStat(p) \/ Lone!TakeInitLock(p) \/ Lone!Refused(p) => Same
  BY DEF Lone!OuterStat, Lone!TakeInitLock, Lone!Refused
<1>2. Lone!InnerStat(p) => Same
  BY DEF Lone!InnerStat
<1>3. Lone!SaveConfig(p) \/ Lone!SaveConfigFails(p) \/ Lone!SaveKey(p)
        \/ Lone!SaveKeyFails(p) => Same
  BY DEF Lone!SaveConfig, Lone!SaveConfigFails, Lone!SaveKey, Lone!SaveKeyFails
<1>4. Lone!DropKey(p) \/ Lone!DropConfig(p) \/ Lone!ReleaseInit(p) => Same
  BY DEF Lone!DropKey, Lone!DropConfig, Lone!ReleaseInit
<1>5. Lone!OpenKey(p) \/ Lone!OpenFails(p) \/ Lone!OpenConfig(p) => Same
  BY DEF Lone!OpenKey, Lone!OpenFails, Lone!OpenConfig
<1>6. Lone!TakeLock(p) \/ Lone!Backup(p) \/ Lone!Unlock(p) \/ Lone!Clean(p) => Same
  BY DEF Lone!TakeLock, Lone!Backup, Lone!Unlock, Lone!Clean
<1> QED BY <1>0, <1>1, <1>2, <1>3, <1>4, <1>5, <1>6 DEF Lone!Step

\* The operator's step.
LEMMA OperatorOnlyUnlocks ==
    ASSUME Typed, NEW o \in Operator, Unlocking(o),
           Lone!BeginBackup(o) \/ Lone!BeginUnlock(o) \/ Lone!Step(o) \/ Lone!Crash(o)
    PROVE  Unlocking(o)' /\ UNCHANGED <<config, keys>>
<1> USE DEF Typed, Unlocking, Lone!Go, Lone!End, Lone!Fail
<1>p. o \in Proc /\ o \notin Host
  BY ConstantsAssumption DEF Proc
<1>0. ~Lone!BeginBackup(o) /\ ~Lone!Crash(o)
  BY <1>p DEF Lone!BeginBackup, Lone!Crash
<1>1. Lone!BeginUnlock(o) => Unlocking(o)' /\ UNCHANGED <<config, keys>>
  BY <1>p DEF Lone!BeginUnlock
<1>2. /\ ~Lone!OuterStat(o) /\ ~Lone!TakeInitLock(o) /\ ~Lone!Refused(o)
      /\ ~Lone!InnerStat(o) /\ ~Lone!SaveConfig(o) /\ ~Lone!SaveConfigFails(o)
      /\ ~Lone!SaveKey(o) /\ ~Lone!SaveKeyFails(o) /\ ~Lone!DropKey(o)
      /\ ~Lone!DropConfig(o) /\ ~Lone!ReleaseInit(o) /\ ~Lone!TakeLock(o)
      /\ ~Lone!Backup(o) /\ ~Lone!Unlock(o)
  BY DEF Lone!OuterStat, Lone!TakeInitLock, Lone!Refused, Lone!InnerStat,
         Lone!SaveConfig, Lone!SaveConfigFails, Lone!SaveKey, Lone!SaveKeyFails,
         Lone!DropKey, Lone!DropConfig, Lone!ReleaseInit, Lone!TakeLock,
         Lone!Backup, Lone!Unlock
<1>3. Lone!OpenKey(o) => Unlocking(o)' /\ UNCHANGED <<config, keys>>
  BY <1>p DEF Lone!OpenKey
<1>4. Lone!OpenFails(o) => Unlocking(o)' /\ UNCHANGED <<config, keys>>
  BY <1>p DEF Lone!OpenFails
<1>5. Lone!OpenConfig(o) => Unlocking(o)' /\ UNCHANGED <<config, keys>>
  BY <1>p DEF Lone!OpenConfig
<1>6. Lone!Clean(o) => Unlocking(o)' /\ UNCHANGED <<config, keys>>
  BY <1>p DEF Lone!Clean
<1> QED BY <1>0, <1>1, <1>2, <1>3, <1>4, <1>5, <1>6 DEF Lone!Step

\* The host's own step: where config and removals do not fail, a rollback
\* leaves nothing.
LEMMA LonerStep ==
    ASSUME Typed, LoneFaults \cap {"config", "drop"} = {},
           NEW p \in Proc, Between(p), Lone!BeginBackup(p) \/ Lone!Step(p)
    PROVE  Between(p)'
<1> USE DEF Typed, Between, Settled, Lone!Go, Lone!End, Lone!Fail, Lone!MayFail
<1>n. None \notin Master
  BY ConstantsAssumption
<1>0. Lone!BeginBackup(p) => Between(p)'
  BY DEF Lone!BeginBackup
<1>1. Lone!OuterStat(p) \/ Lone!TakeInitLock(p) \/ Lone!Refused(p) => Between(p)'
  BY DEF Lone!OuterStat, Lone!TakeInitLock, Lone!Refused
<1>2. Lone!InnerStat(p) => Between(p)'
  BY DEF Lone!InnerStat
<1>3. Lone!SaveConfig(p) => Between(p)'
  BY DEF Lone!SaveConfig
<1>4. ~Lone!SaveConfigFails(p)
  BY DEF Lone!SaveConfigFails
<1>5. Lone!SaveKey(p) => Between(p)'
  BY <1>n DEF Lone!SaveKey
<1>6. Lone!SaveKeyFails(p) => Between(p)'
  BY DEF Lone!SaveKeyFails
<1>7. Lone!DropKey(p) => Between(p)'
  BY DEF Lone!DropKey
<1>8. Lone!DropConfig(p) => Between(p)'
  BY DEF Lone!DropConfig
<1>9. Lone!ReleaseInit(p) => Between(p)'
  BY DEF Lone!ReleaseInit
<1>10. Lone!OpenKey(p) => Between(p)'
  BY DEF Lone!OpenKey
<1>11. Lone!OpenFails(p) => Between(p)'
  BY DEF Lone!OpenFails
<1>12. Lone!OpenConfig(p) => Between(p)'
  BY DEF Lone!OpenConfig
<1>13. Lone!TakeLock(p) \/ Lone!Backup(p) \/ Lone!Unlock(p) \/ Lone!Clean(p)
         => Between(p)'
  BY DEF Lone!TakeLock, Lone!Backup, Lone!Unlock, Lone!Clean
<1> QED
  BY <1>0, <1>1, <1>2, <1>3, <1>4, <1>5, <1>6, <1>7, <1>8, <1>9, <1>10, <1>11,
     <1>12, <1>13 DEF Lone!Step

LEMMA LoneInvStep ==
    ASSUME Loner \in Host, LoneFaults \cap {"config", "drop"} = {}, LoneInv, LoneNext
    PROVE  LoneInv'
<1>p. LoneProc \subseteq Proc /\ Loner \in Proc /\ Loner \notin Operator
  BY ConstantsAssumption DEF LoneProc, Proc
<1>1. PICK p \in LoneProc :
          Lone!BeginBackup(p) \/ Lone!BeginUnlock(p) \/ Lone!Step(p) \/ Lone!Crash(p)
  BY DEF LoneNext
<1>2. Typed'
  <2>1. Lone!BeginBackup(p) \/ Lone!BeginUnlock(p) => Typed'
    BY <1>p DEF LoneInv, Typed, Lone!BeginBackup, Lone!BeginUnlock, Lone!Go, Phases
  <2>2. Lone!Crash(p) => Typed'
    BY <1>p DEF LoneInv, Typed, Lone!Crash, Lone!End, Lone!Go, Phases
  <2> QED BY <1>p, <1>1, <2>1, <2>2, LoneStepTyped DEF LoneInv
<1>3. \A q \in Proc : q # p =>
          pc'[q] = pc[q] /\ goal'[q] = goal[q] /\ mine'[q] = mine[q]
  BY <1>p, <1>1, LoneFrame DEF LoneInv
<1>4. CASE p \in Operator
  <2>1. Unlocking(p)' /\ UNCHANGED <<config, keys>>
    BY <1>1, <1>4, OperatorOnlyUnlocks DEF LoneInv
  <2>2. \A o \in Operator : Unlocking(o)'
    BY <1>3, <2>1 DEF LoneInv, Unlocking, Proc
  <2>3. crashes' = 0 => crashes = 0
    <3>1. ~Lone!Crash(p)
      BY <1>4, ConstantsAssumption DEF Lone!Crash
    <3>2. Lone!BeginBackup(p) \/ Lone!BeginUnlock(p) => crashes' = crashes
      BY DEF Lone!BeginBackup, Lone!BeginUnlock
    <3> QED BY <1>1, <1>p, <3>1, <3>2, LoneStepTyped DEF LoneInv
  <2>4. crashes = 0 => Between(Loner)'
    BY <1>3, <1>4, <1>p, <2>1 DEF LoneInv, Between, Settled
  <2> QED BY <1>2, <2>2, <2>3, <2>4 DEF LoneInv
<1>5. CASE p = Loner
  <2>1. \A o \in Operator : Unlocking(o)'
    BY <1>3, <1>5, <1>p DEF LoneInv, Unlocking, Proc
  <2>2. ~Lone!BeginUnlock(p)
    BY <1>5, <1>p DEF Lone!BeginUnlock
  <2>3. Lone!Crash(p) => crashes' # 0
    BY DEF Lone!Crash, LoneInv, Typed
  <2>4. CASE Lone!BeginBackup(p) \/ Lone!Step(p)
    <3>1. crashes' = crashes
      BY <1>p, <1>5, <2>4, LoneStepTyped DEF LoneInv, Lone!BeginBackup
    <3>2. crashes = 0 => Between(Loner)'
      BY <1>p, <1>5, <2>4, LonerStep DEF LoneInv
    <3> QED BY <1>2, <2>1, <3>1, <3>2 DEF LoneInv
  <2> QED BY <1>1, <1>2, <2>1, <2>2, <2>3, <2>4 DEF LoneInv
<1> QED BY <1>4, <1>5 DEF LoneProc

\* A first backup that is alone and whose key file fails to be stored leaves
\* nothing or a repository that opens, as long as the config is stored and
\* removals succeed (init.go: "a config that makes every retry try (and fail)
\* to open the repository").
THEOREM LoneInitsLeaveNothing ==
    ASSUME Loner \in Host, LoneFaults \cap {"config", "drop"} = {}
    PROVE  InitSpec => []LoneInitLeavesNothing
<1> DEFINE Inv == race \in BOOLEAN /\ (race \/ LoneInv)
<1>1. RaceOrAlone => Inv
  BY DEF RaceOrAlone, Init, LoneInv, Typed, Unlocking, Between, Settled, Proc, Phases
<1>2. Inv /\ [InitNext]_initVars => Inv'
  <2> SUFFICES ASSUME Inv, [InitNext]_initVars
               PROVE  Inv'
    OBVIOUS
  <2>1. CASE UNCHANGED initVars
    BY <2>1 DEF initVars, vars, LoneInv, Typed, Unlocking, Between, Settled
  <2>2. CASE InitNext
    <3>1. CASE race
      BY <2>2, <3>1 DEF InitNext
    <3>2. CASE ~race
      BY <2>2, <3>2, LoneInvStep DEF InitNext
    <3> QED BY <3>1, <3>2
  <2> QED BY <2>1, <2>2
<1>3. Inv => LoneInitLeavesNothing
  <2> SUFFICES ASSUME LoneInv, \A p \in Proc : pc[p] = "idle", crashes = 0,
                      config # None
               PROVE  Openable
    BY DEF LoneInitLeavesNothing, FailedInitLeavesNothing
  <2>1. pc[Loner] = "idle"
    BY DEF Proc
  <2> QED BY <2>1 DEF LoneInv, Between, Settled, Openable
<1> QED BY <1>1, <1>2, <1>3, PTL DEF InitSpec
=============================================================================
