--------------------------- MODULE RepoLockProofs ---------------------------
(***************************************************************************)
(* Proofs about RepoLock.  Types hold for every value of the constants.    *)
(* As long as the operator does not run the unlock command, the lock files *)
(* keep the promise of RWLock, whatever clocks and schedulers do.  With    *)
(* commands and clocks in time (InTime), also under an operator who        *)
(* unlocks at any moment, a writer is alone and locks of commands at work  *)
(* stay.  Where creating and removing files works, only the dead leave     *)
(* lock files behind.                                                      *)
(***************************************************************************)
EXTENDS RepoLock, TLAPS

\* The commands that change one process only, as one definition.
Step(p) ==
    \/ \E exclusive \in BOOLEAN : Begin(p, exclusive)
    \/ Acquire(p)
    \/ Hold(p)
    \/ Crash(p)

LEMMA NextCases ==
    ASSUME Next
    PROVE  (\E p \in Proc : Step(p)) \/ (\E k \in OperatorKeys : RemoveStale(k)) \/ Tick
BY DEF Next, Step

\* Giving up keeps the types.
LEMMA ForgetType ==
    ASSUME TypeOK, NEW p \in Proc, Forget(p)
    PROVE  /\ pc' \in [Proc -> Phases] /\ req' \in [Proc -> BOOLEAN]
           /\ handle' \in [Proc -> Name \cup {NoName}]
           /\ handles' \in [Proc -> SUBSET Name]
           /\ old' \in [Proc -> Name \cup {NoName}]
           /\ todo' \in [Proc -> SUBSET Name]
           /\ attempt' \in [Proc -> 0 .. Attempts - 1]
           /\ timer' \in [Proc -> 0 .. TimerCap]
BY ConstantsAssumption DEF TypeOK, Forget, Phases, Attempts, TimerCap

LEMMA CheckFailsType ==
    ASSUME TypeOK, NEW p \in Proc, CheckFails(p), UNCHANGED files
    PROVE  TypeOK'
<1>1. CASE pc[p] \in {"list1", "scan1"}
  BY <1>1, ForgetType DEF CheckFails, TypeOK
<1>2. CASE pc[p] \notin {"list1", "scan1"}
  BY <1>2 DEF CheckFails, TypeOK, Phases, Attempts
<1> QED BY <1>1, <1>2

LEMMA RetryType ==
    ASSUME TypeOK, NEW p \in Proc, Retry(p), UNCHANGED files
    PROVE  TypeOK'
<1>1. CASE attempt[p] + 1 = Attempts
  BY <1>1, CheckFailsType DEF Retry
<1>2. CASE attempt[p] + 1 # Attempts
  BY <1>2 DEF Retry, TypeOK, Phases, Attempts
<1> QED BY <1>1, <1>2

LEMMA NewFileType ==
    ASSUME TypeOK, NEW p \in Proc, NEW d \in Int
    PROVE  NewFile(p, d) \in LockFile
BY ConstantsAssumption DEF TypeOK, NewFile, LockFile

LEMMA StoreType ==
    ASSUME TypeOK, NEW n \in Name, NEW f \in LockFile \cup {NoFile},
           files' = files \/ files' = [files EXCEPT ![n] = f]
    PROVE  files' \in [Name -> LockFile \cup {NoFile}]
BY DEF TypeOK

LEMMA StepType ==
    ASSUME TypeOK, NEW p \in Proc, Step(p)
    PROVE  TypeOK'
<1> USE DEF TypeOK
<1>t. timer[p] \in Int /\ 0 \in Int
  BY ConstantsAssumption DEF TimerCap
<1>1. ASSUME NEW x \in BOOLEAN, Begin(p, x) PROVE TypeOK'
  BY <1>1 DEF Begin, Phases
<1>2. CASE List(p)
  BY <1>2 DEF List, Phases, Stored
<1>3. CASE ListFails(p) \/ LoadFails(p) \/ DropFails(p)
  BY <1>3, RetryType DEF ListFails, LoadFails, DropFails
<1>4. CASE PassReader(p)
  BY <1>4 DEF PassReader
<1>5. CASE DropStale(p)
  BY <1>5 DEF DropStale
<1>6. CASE Conflict(p)
  BY <1>6, CheckFailsType DEF Conflict
<1>7. CASE CheckPasses(p)
  BY <1>7 DEF CheckPasses, Phases, Attempts
<1>8. CASE Create(p)
  BY <1>8, <1>t, NewFileType DEF Create, Phases
<1>9. CASE CreateFails(p)
  <2>1. PICK n \in Name : files' \in AfterFailedSave(n, NewFile(p, timer[p]))
    BY <1>9 DEF CreateFails
  <2>2. files' \in [Name -> LockFile \cup {NoFile}]
    BY <2>1, <1>t, NewFileType DEF AfterFailedSave
  <2> QED BY <1>9, <2>2, ForgetType DEF CreateFails
<1>10. CASE BackOut(p)
  <2>1. files' \in [Name -> LockFile \cup {NoFile}]
    BY <1>10 DEF BackOut
  <2> QED BY <1>10, <2>1, ForgetType DEF BackOut
<1>11. CASE Refresh(p)
  BY <1>11, <1>t, NewFileType, ConstantsAssumption DEF Refresh, Phases, TimerCap
<1>12. CASE RefreshFails(p)
  <2>1. PICK n \in Name :
          /\ files' \in AfterFailedSave(n, NewFile(p, 0))
          /\ handle' = [handle EXCEPT ![p] = n]
          /\ handles' = [handles EXCEPT ![p] = @ \cup {n}]
    BY <1>12 DEF RefreshFails
  <2>2. files' \in [Name -> LockFile \cup {NoFile}]
    BY <2>1, <1>t, NewFileType DEF AfterFailedSave
  <2> QED BY <1>12, <2>1, <2>2, ConstantsAssumption DEF RefreshFails, TimerCap
<1>13. CASE Swap(p)
  BY <1>13 DEF Swap, Phases
<1>14. CASE Release(p)
  BY <1>14 DEF Release, Phases
<1>15. CASE Unlock(p)
  <2>1. PICK n \in handles[p] :
          /\ files' \in {[files EXCEPT ![n] = NoFile], files}
          /\ IF handles[p] = {n}
             THEN Forget(p)
             ELSE /\ handles' = [handles EXCEPT ![p] = @ \ {n}]
                  /\ UNCHANGED <<pc, req, handle, old, todo, attempt, timer>>
    BY <1>15 DEF Unlock
  <2>2. files' \in [Name -> LockFile \cup {NoFile}]
    BY <2>1
  <2>3. CASE handles[p] = {n}
    BY <2>1, <2>2, <2>3, ForgetType
  <2>4. CASE handles[p] # {n}
    BY <2>1, <2>2, <2>4
  <2> QED BY <2>3, <2>4
<1>16. CASE Crash(p)
  BY <1>16, ForgetType DEF Crash
<1> QED
  BY <1>1, <1>2, <1>3, <1>4, <1>5, <1>6, <1>7, <1>8, <1>9, <1>10, <1>11,
     <1>12, <1>13, <1>14, <1>15, <1>16 DEF Step, Acquire, Hold

LEMMA TickType ==
    ASSUME TypeOK, Tick
    PROVE  TypeOK'
<1>1. ASSUME NEW a \in Int, NEW cap \in Int PROVE Older(a, cap) \in Int
  BY DEF Older
<1>2. files' \in [Name -> LockFile \cup {NoFile}]
  BY <1>1, ConstantsAssumption DEF TypeOK, Tick, LockFile
<1>3. timer' \in [Proc -> 0 .. TimerCap]
  BY ConstantsAssumption DEF TypeOK, Tick, Older, TimerCap
<1> QED BY <1>2, <1>3 DEF TypeOK, Tick

\* Type correctness: every variable of the lock protocol keeps its type, for
\* any commands, names, clocks and faults (lock.go: Lock, New, Refresh, Unlock).
THEOREM TypeCorrect == Spec => []TypeOK
<1>1. Init => TypeOK
  BY ConstantsAssumption
     DEF Init, TypeOK, Phases, Attempts, TimerCap
<1>2. TypeOK /\ [Next]_vars => TypeOK'
  <2> SUFFICES ASSUME TypeOK, [Next]_vars PROVE TypeOK'
    OBVIOUS
  <2>1. CASE \E p \in Proc : Step(p)
    BY <2>1, StepType
  <2>2. ASSUME NEW k \in OperatorKeys, RemoveStale(k) PROVE TypeOK'
    BY <2>2 DEF RemoveStale, TypeOK, Stored
  <2>3. CASE Tick
    BY <2>3, TickType
  <2>4. CASE UNCHANGED vars
    BY <2>4 DEF vars, TypeOK
  <2> QED BY <2>1, <2>2, <2>3, <2>4, NextCases
<1> QED BY <1>1, <1>2, PTL DEF Spec

-----------------------------------------------------------------------------
(* What one command's step can do to the others and to the lock files.     *)

Untouched(p) ==
    \A q \in Proc : q # p =>
        /\ pc'[q] = pc[q] /\ req'[q] = req[q] /\ handle'[q] = handle[q]
        /\ handles'[q] = handles[q] /\ todo'[q] = todo[q] /\ old'[q] = old[q]
        /\ timer'[q] = timer[q]

\* A name is stored for p, or removed by its owner or as a stale reader.
FilesStep(p) ==
    \A n \in Name :
        \/ files'[n] = files[n]
        \/ Fresh(n) /\ files'[n] # NoFile /\ files'[n].excl = req[p]
        \/ files'[n] = NoFile /\ (n \in handles[p] \/ ~files[n].excl)

HandlesStep(p) ==
    /\ \A n \in handles'[p] : n \in handles[p] \/ Fresh(n)
    /\ pc'[p] \in {"scan2", "held", "swap"} =>
          \A n \in handles[p] : n \in handles'[p] \/ files'[n] = NoFile

LEMMA StepFrame ==
    ASSUME TypeOK, NEW p \in Proc, Step(p)
    PROVE  Untouched(p)
<1> USE DEF TypeOK, Untouched
<1>1. Forget(p) => Untouched(p)
  BY DEF Forget
<1>2. CheckFails(p) => Untouched(p)
  BY <1>1 DEF CheckFails
<1>3. Retry(p) => Untouched(p)
  BY <1>2 DEF Retry
<1>4. ASSUME NEW x \in BOOLEAN, Begin(p, x) PROVE Untouched(p)
  BY <1>4 DEF Begin
<1>5. Acquire(p) => Untouched(p)
  <2>1. List(p) \/ PassReader(p) \/ DropStale(p) \/ CheckPasses(p) => Untouched(p)
    BY DEF List, PassReader, DropStale, CheckPasses
  <2>2. ListFails(p) \/ LoadFails(p) \/ DropFails(p) \/ Conflict(p) => Untouched(p)
    BY <1>2, <1>3 DEF ListFails, LoadFails, DropFails, Conflict
  <2>3. Create(p) => Untouched(p)
    BY DEF Create
  <2>4. CreateFails(p) \/ BackOut(p) => Untouched(p)
    BY <1>1 DEF CreateFails, BackOut
  <2> QED BY <2>1, <2>2, <2>3, <2>4 DEF Acquire
<1>6. Hold(p) => Untouched(p)
  <2>1. Refresh(p) \/ RefreshFails(p) => Untouched(p)
    BY DEF Refresh, RefreshFails
  <2>2. Swap(p) \/ Release(p) => Untouched(p)
    BY DEF Swap, Release
  <2>3. Unlock(p) => Untouched(p)
    BY <1>1 DEF Unlock
  <2> QED BY <2>1, <2>2, <2>3 DEF Hold
<1>7. Crash(p) => Untouched(p)
  BY <1>1 DEF Crash
<1> QED BY <1>4, <1>5, <1>6, <1>7 DEF Step

LEMMA CreatesFile ==
    ASSUME TypeOK, NEW p \in Proc, NEW n \in Name, NEW d \in Int, Fresh(n),
           \/ files' = files
           \/ files' = [files EXCEPT ![n] = NewFile(p, d)]
    PROVE  FilesStep(p)
<1>1. NewFile(p, d) # NoFile /\ NewFile(p, d).excl = req[p]
  BY ConstantsAssumption DEF NewFile, NoFile
<1> QED BY <1>1 DEF FilesStep, TypeOK

LEMMA RemovesFile ==
    ASSUME TypeOK, NEW p \in Proc, NEW n \in Name,
           n \in handles[p] \/ ~files[n].excl,
           \/ files' = files
           \/ files' = [files EXCEPT ![n] = NoFile]
    PROVE  FilesStep(p)
BY DEF FilesStep, TypeOK

LEMMA StepFiles ==
    ASSUME IInv, NEW p \in Proc, Step(p)
    PROVE  FilesStep(p)
<1> USE DEF IInv
<1>t. timer[p] \in Int /\ 0 \in Int
  BY ConstantsAssumption DEF TypeOK, TimerCap
<1>0. files' = files => FilesStep(p)
  BY DEF FilesStep
<1>1. ASSUME NEW x \in BOOLEAN, Begin(p, x) PROVE FilesStep(p)
  BY <1>0, <1>1 DEF Begin
<1>2. List(p) \/ ListFails(p) \/ LoadFails(p) \/ PassReader(p) \/ DropFails(p)
        \/ Conflict(p) \/ CheckPasses(p) \/ Release(p) \/ Crash(p) => FilesStep(p)
  BY <1>0 DEF List, ListFails, LoadFails, PassReader, DropFails, Conflict,
              CheckPasses, Release, Crash
<1>3. DropStale(p) => FilesStep(p)
  BY RemovesFile DEF DropStale, InTheWay, Stored
<1>4. Create(p) => FilesStep(p)
  BY <1>t, CreatesFile DEF Create
<1>5. CreateFails(p) => FilesStep(p)
  BY <1>t, CreatesFile DEF CreateFails, AfterFailedSave
<1>6. Refresh(p) => FilesStep(p)
  BY <1>t, CreatesFile DEF Refresh
<1>7. RefreshFails(p) => FilesStep(p)
  BY <1>t, CreatesFile DEF RefreshFails, AfterFailedSave
<1>8. BackOut(p) => FilesStep(p)
  <2> SUFFICES ASSUME BackOut(p) PROVE FilesStep(p)
    OBVIOUS
  <2>1. handle[p] \in handles[p] /\ handle[p] \in Name
    BY DEF BackOut, OwnFiles, TypeOK
  <2> QED BY <2>1, RemovesFile DEF BackOut
<1>9. Swap(p) => FilesStep(p)
  <2> SUFFICES ASSUME Swap(p) PROVE FilesStep(p)
    OBVIOUS
  <2>1. old[p] \in handles[p] /\ old[p] \in Name
    BY DEF Swap, WriterOnRecord, TypeOK
  <2> QED BY <2>1, RemovesFile DEF Swap
<1>10. Unlock(p) => FilesStep(p)
  <2> SUFFICES ASSUME NEW n \in handles[p],
                      files' \in {[files EXCEPT ![n] = NoFile], files}
               PROVE  FilesStep(p)
    BY DEF Unlock
  <2>1. n \in Name
    BY DEF TypeOK
  <2> QED BY <2>1, RemovesFile
<1> QED
  BY <1>1, <1>2, <1>3, <1>4, <1>5, <1>6, <1>7, <1>8, <1>9, <1>10
     DEF Step, Acquire, Hold

LEMMA StepHandles ==
    ASSUME TypeOK, NEW p \in Proc, Step(p)
    PROVE  HandlesStep(p)
<1> USE DEF TypeOK, HandlesStep
<1>1. Forget(p) => HandlesStep(p)
  BY DEF Forget
<1>2. CheckFails(p) => HandlesStep(p)
  BY <1>1 DEF CheckFails
<1>3. Retry(p) => HandlesStep(p)
  BY <1>2 DEF Retry
<1>4. ASSUME NEW x \in BOOLEAN, Begin(p, x) PROVE HandlesStep(p)
  BY <1>4 DEF Begin
<1>5. List(p) \/ PassReader(p) \/ DropStale(p) \/ CheckPasses(p) \/ Release(p)
        => HandlesStep(p)
  BY DEF List, PassReader, DropStale, CheckPasses, Release
<1>6. ListFails(p) \/ LoadFails(p) \/ DropFails(p) \/ Conflict(p) => HandlesStep(p)
  BY <1>2, <1>3 DEF ListFails, LoadFails, DropFails, Conflict
<1>7. Create(p) => HandlesStep(p)
  BY DEF Create
<1>8. CreateFails(p) \/ BackOut(p) \/ Crash(p) => HandlesStep(p)
  BY <1>1 DEF CreateFails, BackOut, Crash
<1>9. Refresh(p) \/ RefreshFails(p) => HandlesStep(p)
  BY DEF Refresh, RefreshFails
<1>10. Swap(p) => HandlesStep(p)
  <2> SUFFICES ASSUME Swap(p) PROVE HandlesStep(p)
    OBVIOUS
  <2>1. CASE UNCHANGED <<files, handles>>
    BY <2>1 DEF Swap
  <2>2. CASE /\ files' = [files EXCEPT ![old[p]] = NoFile]
             /\ handles' = [handles EXCEPT ![p] = @ \ {old[p]}]
    BY <2>2 DEF Swap
  <2> QED BY <2>1, <2>2 DEF Swap
<1>11. Unlock(p) => HandlesStep(p)
  BY <1>1 DEF Unlock
<1> QED
  BY <1>4, <1>5, <1>6, <1>7, <1>8, <1>9, <1>10, <1>11 DEF Step, Acquire, Hold

-----------------------------------------------------------------------------
(* A command's own lock files.                                             *)

OwnFilesOf(p) ==
    /\ pc[p] \in {"idle", "list1", "scan1", "create"} =>
          handles[p] = {} /\ handle[p] = NoName
    /\ Created(p) \/ pc[p] = "backout" => handle[p] \in handles[p]
    /\ \A n \in handles[p] : files[n] # NoFile => files[n].excl = req[p]

OnRecord(p) ==
    /\ Created(p) /\ req[p] => \E n \in handles[p] : files[n] # NoFile
    /\ Created(p) /\ ~req[p] => handles[p] = {handle[p]}
    /\ pc[p] = "swap" => /\ req[p] /\ files[handle[p]] # NoFile
                         /\ old[p] \in handles[p] /\ old[p] # handle[p]

LEMMA OwnFilesStep ==
    ASSUME IInv, NEW p \in Proc, Step(p)
    PROVE  OwnFilesOf(p)'
<1> USE DEF IInv, TypeOK, OwnFilesOf, Created
<1>o. OwnFilesOf(p)
  BY DEF OwnFiles
<1>1. Forget(p) => OwnFilesOf(p)'
  BY DEF Forget
<1>2. CheckFails(p) /\ UNCHANGED files /\ Created(p) => OwnFilesOf(p)'
  BY <1>1, <1>o DEF CheckFails
<1>3. CheckFails(p) /\ UNCHANGED files /\ pc[p] = "scan1" => OwnFilesOf(p)'
  BY <1>1 DEF CheckFails
<1>3a. CheckFails(p) /\ UNCHANGED files /\ pc[p] = "list1" => OwnFilesOf(p)'
  BY <1>1 DEF CheckFails
<1>4. Retry(p) /\ UNCHANGED files
        /\ pc[p] \in {"list1", "scan1", "list2", "scan2"} => OwnFilesOf(p)'
  BY <1>2, <1>3, <1>3a, <1>o DEF Retry
<1>5. ASSUME NEW x \in BOOLEAN, Begin(p, x) PROVE OwnFilesOf(p)'
  BY <1>5, <1>o DEF Begin
<1>6. List(p) \/ PassReader(p) \/ CheckPasses(p) \/ Release(p) => OwnFilesOf(p)'
  BY <1>o DEF List, PassReader, CheckPasses, Release, Scanning
<1>7. DropStale(p) => OwnFilesOf(p)'
  BY <1>o DEF DropStale, Scanning
<1>8. ListFails(p) \/ LoadFails(p) \/ DropFails(p) => OwnFilesOf(p)'
  BY <1>4 DEF ListFails, LoadFails, DropFails, Scanning
<1>9. Conflict(p) => OwnFilesOf(p)'
  BY <1>2, <1>3 DEF Conflict, Scanning
<1>10. Create(p) => OwnFilesOf(p)'
  BY DEF Create, NewFile
<1>11. CreateFails(p) \/ BackOut(p) \/ Crash(p) => OwnFilesOf(p)'
  BY <1>1 DEF CreateFails, BackOut, Crash
<1>12. Refresh(p) => OwnFilesOf(p)'
  <2> SUFFICES ASSUME NEW n \in Name,
                      Fresh(n),
                      files' = [files EXCEPT ![n] = NewFile(p, 0)],
                      handle' = [handle EXCEPT ![p] = n],
                      handles' = [handles EXCEPT ![p] = @ \cup {n}],
                      pc' = [pc EXCEPT ![p] = "swap"], UNCHANGED req
               PROVE  OwnFilesOf(p)'
    BY DEF Refresh, RefreshDue
  <2>1. NewFile(p, 0).excl = req[p]
    BY DEF NewFile
  <2>2. \A m \in handles[p] : m # n /\ files'[m] = files[m]
    BY DEF Fresh
  <2> QED BY <2>1, <2>2, <1>o
<1>13. RefreshFails(p) => OwnFilesOf(p)'
  <2> SUFFICES ASSUME NEW n \in Name,
                      Fresh(n),
                      files' \in AfterFailedSave(n, NewFile(p, 0)),
                      handle' = [handle EXCEPT ![p] = n],
                      handles' = [handles EXCEPT ![p] = @ \cup {n}],
                      pc[p] = "held", UNCHANGED <<pc, req>>
               PROVE  OwnFilesOf(p)'
    BY DEF RefreshFails, RefreshDue
  <2>1. CASE files' = files
    BY <2>1, <1>o DEF Fresh, Stored
  <2>2. CASE files' = [files EXCEPT ![n] = NewFile(p, 0)]
    BY <2>2, <1>o DEF NewFile, Fresh
  <2> QED BY <2>1, <2>2 DEF AfterFailedSave
<1>14. Swap(p) => OwnFilesOf(p)'
  BY <1>o DEF Swap, WriterOnRecord
<1>15. Unlock(p) => OwnFilesOf(p)'
  BY <1>1, <1>o DEF Unlock
<1> QED
  BY <1>5, <1>6, <1>7, <1>8, <1>9, <1>10, <1>11, <1>12, <1>13, <1>14, <1>15
     DEF Step, Acquire, Hold

LEMMA OwnFilesInductive ==
    ASSUME IInv, NEW p \in Proc, Step(p)
    PROVE  OwnFiles'
<1>1. Untouched(p) /\ FilesStep(p) /\ HandlesStep(p) /\ OwnFilesOf(p)'
  BY StepFrame, StepFiles, StepHandles, OwnFilesStep DEF IInv
<1>2. ASSUME NEW r \in Proc PROVE OwnFilesOf(r)'
  <2>1. CASE r = p
    BY <2>1, <1>1
  <2>2. CASE r # p
    <3>1. ASSUME NEW n \in handles[r], files'[n] # NoFile
          PROVE  files'[n].excl = req[r]
      BY <3>1, <1>1 DEF FilesStep, Fresh, OwnFiles, IInv, TypeOK
    <3> QED BY <2>2, <3>1, <1>1
            DEF Untouched, OwnFilesOf, OwnFiles, Created, IInv
  <2> QED BY <2>1, <2>2
<1>3. ASSUME NEW q \in Proc, NEW r \in Proc, q # r
      PROVE  (handles[q] \cap handles[r] = {})'
  <2>1. CASE q # p /\ r # p
    BY <1>1, <1>3, <2>1 DEF Untouched, OwnFiles, IInv
  <2>2. CASE q = p
    BY <1>1, <1>3, <2>2 DEF Untouched, HandlesStep, Fresh, OwnFiles, IInv
  <2>3. CASE r = p
    BY <1>1, <1>3, <2>3 DEF Untouched, HandlesStep, Fresh, OwnFiles, IInv
  <2> QED BY <2>1, <2>2, <2>3
<1> QED BY <1>2, <1>3 DEF OwnFiles, OwnFilesOf

LEMMA OnRecordStep ==
    ASSUME IInv, NEW p \in Proc, Step(p)
    PROVE  OnRecord(p)'
<1> USE DEF IInv, TypeOK, OnRecord, Created
<1>o. OnRecord(p) /\ OwnFilesOf(p)
  BY DEF WriterOnRecord, OwnFiles, OwnFilesOf
<1>1. Forget(p) => OnRecord(p)'
  BY DEF Forget
<1>2. CheckFails(p) => OnRecord(p)'
  BY <1>1 DEF CheckFails
<1>4. Retry(p) /\ UNCHANGED files
        /\ pc[p] \in {"list1", "scan1", "list2", "scan2"} => OnRecord(p)'
  BY <1>2, <1>o DEF Retry
<1>5. ASSUME NEW x \in BOOLEAN, Begin(p, x) PROVE OnRecord(p)'
  BY <1>5, <1>o DEF Begin
<1>6. List(p) \/ PassReader(p) \/ CheckPasses(p) \/ Release(p) => OnRecord(p)'
  BY <1>o DEF List, PassReader, CheckPasses, Release, Scanning
<1>7. DropStale(p) => OnRecord(p)'
  BY <1>o DEF DropStale, Scanning, InTheWay, OwnFilesOf, Stored
<1>8. ListFails(p) \/ LoadFails(p) \/ DropFails(p) => OnRecord(p)'
  BY <1>4 DEF ListFails, LoadFails, DropFails, Scanning
<1>9. Conflict(p) => OnRecord(p)'
  BY <1>2 DEF Conflict
<1>n. ASSUME NEW d PROVE NewFile(p, d) # NoFile
  BY ConstantsAssumption DEF NewFile, NoFile
<1>10. Create(p) => OnRecord(p)'
  BY <1>n DEF Create
<1>11. CreateFails(p) \/ BackOut(p) \/ Crash(p) => OnRecord(p)'
  BY <1>1 DEF CreateFails, BackOut, Crash
<1>12. Refresh(p) => OnRecord(p)'
  BY <1>o, <1>n DEF Refresh, RefreshDue, Fresh, OwnFilesOf
<1>13. RefreshFails(p) => OnRecord(p)'
  BY <1>o, <1>n DEF RefreshFails, RefreshDue, Fresh, AfterFailedSave
<1>14. Swap(p) => OnRecord(p)'
  BY <1>o DEF Swap, OwnFilesOf
<1>15. Unlock(p) => OnRecord(p)'
  BY <1>1, <1>o DEF Unlock
<1> QED
  BY <1>5, <1>6, <1>7, <1>8, <1>9, <1>10, <1>11, <1>12, <1>13, <1>14, <1>15
     DEF Step, Acquire, Hold

LEMMA OnRecordInductive ==
    ASSUME IInv, NEW p \in Proc, Step(p)
    PROVE  WriterOnRecord'
<1>1. Untouched(p) /\ FilesStep(p) /\ OnRecord(p)'
  BY StepFrame, StepFiles, OnRecordStep DEF IInv
<1>2. ASSUME NEW r \in Proc, r # p PROVE OnRecord(r)'
  <2>1. ASSUME NEW n \in handles[r], req[r], files[n] # NoFile
        PROVE  files'[n] # NoFile
    BY <1>1, <1>2, <2>1 DEF FilesStep, OwnFiles, IInv, TypeOK
  <2>2. pc[r] = "swap" => handle[r] \in handles[r]
    BY DEF OwnFiles, IInv, Created
  <2> QED BY <1>1, <1>2, <2>1, <2>2
          DEF Untouched, OnRecord, WriterOnRecord, Created, IInv
<1> QED BY <1>1, <1>2 DEF WriterOnRecord, OnRecord

-----------------------------------------------------------------------------
(* Of two commands that must not meet, at most one overlooks the other.    *)

MustNotMeet(p, q) == p # q /\ (req[p] \/ req[q]) /\ Alive(p) /\ Alive(q)

\* What another command overlooks after p's step, it overlooked before.
LEMMA OthersOverlook ==
    ASSUME IInv, NEW p \in Proc, Step(p),
           NEW q \in Proc, NEW r \in Proc, q # p, q # r,
           r # p \/ pc'[p] \in {"scan2", "held", "swap"},
           Clear(q, r)'
    PROVE  Clear(q, r)
<1>1. Untouched(p) /\ FilesStep(p) /\ HandlesStep(p)
  BY StepFrame, StepFiles, StepHandles DEF IInv
<1>2. ASSUME NEW n \in todo[q], n \notin Stored \/ n \in handles[r]
      PROVE  n \notin Stored' \/ n \in handles'[r]
  <2>1. n \in Name /\ ~Fresh(n)
    BY DEF IInv, TypeOK, Fresh
  <2>2. n \notin Stored => n \notin Stored'
    BY <1>1, <2>1 DEF FilesStep, Stored
  <2>3. n \in handles[r] => n \notin Stored' \/ n \in handles'[r]
    BY <1>1 DEF HandlesStep, Untouched, Stored
  <2> QED BY <1>2, <2>2, <2>3
<1>3. Blocked(q, r) => Blocked(q, r)'
  BY <1>1, <1>2 DEF Blocked, Untouched
<1> QED BY <1>1, <1>3 DEF Clear, Holds, Untouched

LEMMA ClearIsCreated ==
    ASSUME IInv, NEW p \in Proc, NEW q \in Proc, Clear(p, q)
    PROVE  /\ Created(p)
           /\ handle[p] \in handles[p] /\ handle[p] \in Name
BY DEF Clear, Holds, Created, IInv, OwnFiles, TypeOK

\* A lock that counts after a step counted before, once it was created.
LEMMA StaysAlive ==
    ASSUME IInv, NEW p \in Proc, Step(p), NEW q \in Proc, q # p,
           Created(q), Alive(q)'
    PROVE  Alive(q)
<1>1. Untouched(p) /\ FilesStep(p)
  BY StepFrame, StepFiles DEF IInv
<1>2. handle[q] \in handles[q] /\ handle[q] \in Name
  BY DEF IInv, OwnFiles, TypeOK
<1> QED BY <1>1, <1>2 DEF Alive, Untouched, FilesStep, Fresh, Stored

\* The step of p itself: only a new listing can make it overlook q.
LEMMA OwnStepOverlooks ==
    ASSUME IInv, NEW p \in Proc, Step(p), NEW q \in Proc, p # q,
           MustNotMeet(p, q)', Clear(p, q)', Clear(q, p)
    PROVE  Clear(p, q) /\ MustNotMeet(p, q)
<1> USE DEF IInv, TypeOK, Clear, Holds
<1>q. Created(q) /\ handle[q] \in handles[q] /\ handle[q] \in Name
  BY ClearIsCreated
<1>u. Untouched(p) /\ FilesStep(p)
  BY StepFrame, StepFiles
<1>a. Alive(q) /\ Alive(q)'
  BY <1>q, StaysAlive DEF MustNotMeet
<1>s. \/ req[q] /\ \E n \in handles[q] : n \in Stored
      \/ ~req[q] /\ handles[q] = {handle[q]} /\ handle[q] \in Stored
  BY <1>q, <1>a DEF WriterOnRecord, Alive, Stored
<1>d. handles[p] \cap handles[q] = {}
  BY DEF OwnFiles
<1>n. pc'[p] \in {"scan2", "held", "swap"}
  OBVIOUS
<1>1. ASSUME List(p) PROVE FALSE
  <2>1. pc[p] = "list2" /\ handle[p] \in handles[p]
    BY <1>1, <1>n DEF List, OwnFiles, Created
  <2>2. PICK n \in handles[q] : n \in Stored
    BY <1>s, <1>q
  <2>3. n \in todo'[p] /\ handles'[q] = handles[q]
    BY <1>1, <2>1, <2>2, <1>d DEF List
  <2>4. Blocked(p, q)'
    BY <2>2, <2>3 DEF Blocked
  <2> QED BY <2>4, <1>1 DEF List
<1>2. PassReader(p) => Clear(p, q) /\ MustNotMeet(p, q)
  <2> SUFFICES ASSUME NEW n \in todo[p] \cap Stored,
                      BothReaders(p, n),
                      todo' = [todo EXCEPT ![p] = @ \ {n}],
                      UNCHANGED <<files, pc, req, handle, handles>>,
                      pc[p] \in {"scan1", "scan2"}
               PROVE  Clear(p, q) /\ MustNotMeet(p, q)
    BY DEF PassReader, Scanning
  <2>1. MustNotMeet(p, q)
    BY DEF MustNotMeet, Alive, Stored
  <2>2. n \notin handles[q]
    BY <2>1 DEF BothReaders, MustNotMeet, OwnFiles, Stored
  <2>3. Blocked(p, q) => Blocked(p, q)'
    BY <2>2 DEF Blocked, Stored
  <2> QED BY <2>1, <2>3
<1>3. DropStale(p) => Clear(p, q) /\ MustNotMeet(p, q)
  <2> SUFFICES ASSUME NEW n \in todo[p] \cap Stored,
                      InTheWay(p, n),
                      files' = [files EXCEPT ![n] = NoFile],
                      todo' = [todo EXCEPT ![p] = @ \ {n}],
                      UNCHANGED <<pc, req, handle, handles>>,
                      pc[p] \in {"scan1", "scan2"}
               PROVE  Clear(p, q) /\ MustNotMeet(p, q)
    BY DEF DropStale, Scanning
  <2>1. req[p] /\ ~files[n].excl /\ n \in Name
    BY DEF InTheWay, Stored
  <2>2. MustNotMeet(p, q)
    BY <2>1, <1>a DEF MustNotMeet, Alive
  <2>3. n \notin Stored'
    BY <2>1 DEF Stored
  <2>4. n \notin handles[q]
    BY <2>1, <2>3, <1>a, <1>s DEF OwnFiles, Alive, Stored
  <2>5. Stored' \subseteq Stored
    BY <2>1 DEF Stored
  <2>6. Blocked(p, q) => Blocked(p, q)'
    BY <2>4, <2>5 DEF Blocked
  <2> QED BY <2>2, <2>6
<1>4. CheckPasses(p) => Clear(p, q) /\ MustNotMeet(p, q)
  <2> SUFFICES ASSUME CheckPasses(p) PROVE Clear(p, q) /\ MustNotMeet(p, q)
    OBVIOUS
  <2>1. pc[p] = "scan2" /\ todo[p] = {}
    BY <1>n DEF CheckPasses, Scanning
  <2>2. MustNotMeet(p, q)
    BY DEF CheckPasses, MustNotMeet, Alive, Stored
  <2> QED BY <2>1, <2>2 DEF Blocked
<1>5. Refresh(p) \/ RefreshFails(p) \/ Swap(p) => Clear(p, q) /\ MustNotMeet(p, q)
  <2> SUFFICES ASSUME Refresh(p) \/ RefreshFails(p) \/ Swap(p)
               PROVE  Clear(p, q) /\ MustNotMeet(p, q)
    OBVIOUS
  <2>1. pc[p] \in {"held", "swap"} /\ req[p]
    BY DEF Refresh, RefreshDue, RefreshFails, Swap, WriterOnRecord
  <2> QED BY <2>1, <1>a DEF MustNotMeet, Alive
<1>6. ASSUME NEW x \in BOOLEAN, Begin(p, x) PROVE FALSE
  BY <1>6, <1>n DEF Begin
<1>7. Forget(p) => FALSE
  BY <1>n DEF Forget
<1>8. CheckFails(p) => FALSE
  BY <1>7, <1>n DEF CheckFails
<1>9. Retry(p) => FALSE
  BY <1>8, <1>n DEF Retry
<1>10. Create(p) \/ Release(p) => FALSE
  BY <1>n DEF Create, Release
<1>11. Unlock(p) => FALSE
  BY <1>7, <1>n DEF Unlock
<1> QED
  BY <1>1, <1>2, <1>3, <1>4, <1>5, <1>6, <1>7, <1>8, <1>9, <1>10, <1>11
     DEF Step, Acquire, Hold, ListFails, LoadFails, DropFails, Conflict,
         CreateFails, BackOut, Crash

LEMMA OneOverlooksInductive ==
    ASSUME IInv, NEW p \in Proc, Step(p)
    PROVE  OneOverlooks'
<1> SUFFICES ASSUME NEW q \in Proc, NEW r \in Proc,
                    MustNotMeet(q, r)', Clear(q, r)', Clear(r, q)'
             PROVE  FALSE
  BY DEF OneOverlooks, MustNotMeet
<1>i. \A a, b \in Proc : MustNotMeet(a, b) => ~(Clear(a, b) /\ Clear(b, a))
  BY DEF IInv, OneOverlooks, MustNotMeet
<1>u. Untouched(p)
  BY StepFrame DEF IInv
<1>n. \A a, b \in Proc : Clear(a, b)' => pc'[a] \in {"scan2", "held", "swap"}
  BY DEF Clear, Holds
<1>m. q # r
  BY DEF MustNotMeet
<1>1. CASE q # p /\ r # p
  <2>1. Clear(q, r) /\ Clear(r, q)
    BY <1>1, <1>m, OthersOverlook
  <2>2. Alive(q) /\ Alive(r)
    BY <1>1, <2>1, ClearIsCreated, StaysAlive DEF MustNotMeet
  <2>3. MustNotMeet(q, r)
    BY <1>1, <1>u, <2>2 DEF MustNotMeet, Untouched
  <2> QED BY <2>1, <2>3, <1>i
<1>2. CASE q = p
  <2>1. Clear(r, p)
    BY <1>2, <1>m, <1>n, OthersOverlook
  <2> QED BY <2>1, <1>2, <1>m, <1>i, OwnStepOverlooks
<1>3. CASE r = p
  <2>1. Clear(q, p)
    BY <1>3, <1>m, <1>n, OthersOverlook
  <2>2. MustNotMeet(p, q)'
    BY <1>3 DEF MustNotMeet
  <2> QED BY <2>1, <2>2, <1>3, <1>m, <1>i, OwnStepOverlooks
<1> QED BY <1>1, <1>2, <1>3

LEMMA TickKeeps ==
    ASSUME IInv, Tick
    PROVE  IInv'
<1>1. TypeOK'
  BY TickType DEF IInv
<1>2. \A n \in Name : /\ files[n] = NoFile <=> files'[n] = NoFile
                      /\ files'[n].excl = files[n].excl
  <2> SUFFICES ASSUME NEW n \in Name
               PROVE  /\ files[n] = NoFile <=> files'[n] = NoFile
                      /\ files'[n].excl = files[n].excl
    OBVIOUS
  <2>1. CASE files[n] = NoFile
    BY <2>1 DEF Tick
  <2>2. CASE files[n] # NoFile
    <3>1. files[n] \in LockFile /\ files'[n] = [files[n] EXCEPT !.age = Older(@, AgeCap)]
      BY <2>2 DEF Tick, IInv, TypeOK
    <3>2. files'[n].key = files[n].key /\ files[n].key \in Key
      BY <3>1 DEF LockFile
    <3> QED BY <2>2, <3>1, <3>2, ConstantsAssumption DEF LockFile, NoFile
  <2> QED BY <2>1, <2>2
<1>3. Stored' = Stored
  BY <1>2 DEF Stored
<1>4. UNCHANGED <<pc, req, handle, handles, old, todo>>
  BY DEF Tick
<1>5. OwnFiles'
  BY <1>2, <1>4 DEF IInv, TypeOK, OwnFiles, Created
<1>6. WriterOnRecord'
  <2>1. \A p \in Proc : pc[p] = "swap" => handle[p] \in Name
    BY DEF IInv, TypeOK, OwnFiles, Created
  <2> QED BY <1>2, <1>4, <2>1 DEF IInv, TypeOK, WriterOnRecord, Created
<1>7. OneOverlooks'
  BY <1>3, <1>4 DEF IInv, OneOverlooks, Alive, Clear, Blocked, Holds
<1> QED BY <1>1, <1>5, <1>6, <1>7 DEF IInv

LEMMA IInvAtFirst ==
    ASSUME Init
    PROVE  IInv
<1>1. TypeOK
  BY ConstantsAssumption DEF Init, TypeOK, Phases, Attempts, TimerCap
<1>2. OwnFiles /\ WriterOnRecord /\ OneOverlooks
  BY DEF Init, OwnFiles, WriterOnRecord, OneOverlooks, Created, Clear, Holds
<1> QED BY <1>1, <1>2 DEF IInv

\* Commands and the clock keep the invariant; the operator may not.
LEMMA IInvStep ==
    ASSUME IInv, [Next]_vars, ~\E k \in OperatorKeys : RemoveStale(k)
    PROVE  IInv'
<1>1. ASSUME NEW p \in Proc, Step(p) PROVE IInv'
  BY <1>1, StepType, OwnFilesInductive, OnRecordInductive,
     OneOverlooksInductive DEF IInv
<1>2. CASE Tick
  BY <1>2, TickKeeps
<1>3. CASE UNCHANGED vars
  BY <1>3 DEF vars, IInv, TypeOK, OwnFiles, WriterOnRecord, OneOverlooks,
              Created, Clear, Holds, Alive, Blocked, Stored
<1> QED BY <1>1, <1>2, <1>3, NextCases

\* While the operator leaves the locks alone, IInv is inductive.
THEOREM Invariance ==
    ASSUME OperatorKeys = {}
    PROVE  Spec => []IInv
<1>1. Init => IInv
  BY IInvAtFirst
<1>2. IInv /\ [Next]_vars => IInv'
  BY IInvStep
<1> QED BY <1>1, <1>2, PTL DEF Spec

-----------------------------------------------------------------------------
(* The lock files implement RWLock.                                        *)

\* Except for dropping a stale reader, p removes only its own files.
LEMMA RemovesOwn ==
    ASSUME IInv, NEW p \in Proc, Step(p), ~DropStale(p), NEW n \in Name,
           n \in Stored, n \notin Stored'
    PROVE  n \in handles[p]
<1> USE DEF IInv, TypeOK, Stored
<1>t. timer[p] \in Int /\ 0 \in Int
  BY ConstantsAssumption DEF TimerCap
<1>k. ASSUME NEW m \in Name, NEW d \in Int,
             files' = files \/ files' = [files EXCEPT ![m] = NewFile(p, d)]
      PROVE  FALSE
  BY <1>k, ConstantsAssumption DEF NewFile, NoFile
<1>1. ASSUME NEW x \in BOOLEAN, Begin(p, x) PROVE FALSE
  BY <1>1 DEF Begin
<1>2. ~UNCHANGED files
  OBVIOUS
<1>3. Create(p) => FALSE
  BY <1>k, <1>t DEF Create
<1>4. CreateFails(p) => FALSE
  BY <1>k, <1>t DEF CreateFails, AfterFailedSave
<1>5. Refresh(p) => FALSE
  BY <1>k, <1>t DEF Refresh
<1>6. RefreshFails(p) => FALSE
  BY <1>k, <1>t DEF RefreshFails, AfterFailedSave
<1>7. BackOut(p) => n \in handles[p]
  BY DEF BackOut, OwnFiles
<1>8. Swap(p) => n \in handles[p]
  BY DEF Swap, WriterOnRecord
<1>9. Unlock(p) => n \in handles[p]
  BY DEF Unlock
<1> QED
  BY <1>1, <1>2, <1>3, <1>4, <1>5, <1>6, <1>7, <1>8, <1>9
     DEF Step, Acquire, Hold, List, ListFails, LoadFails, PassReader, DropFails,
         Conflict, CheckPasses, Release, Crash

\* Without such a drop the other holders keep what they hold.
LEMMA OthersHold ==
    ASSUME IInv, NEW p \in Proc, Step(p), ~DropStale(p), NEW r \in Proc, r # p
    PROVE  /\ r \in Writing' <=> r \in Writing
           /\ r \in Reading' <=> r \in Reading
<1>1. Untouched(p) /\ FilesStep(p)
  BY StepFrame, StepFiles DEF IInv
<1>2. ASSUME Holds(r) PROVE handle[r] \in Stored' <=> handle[r] \in Stored
  <2>1. /\ handle[r] \in handles[r] /\ handle[r] \in Name
        /\ handle[r] \notin handles[p]
    BY <1>2 DEF Holds, Created, IInv, OwnFiles, TypeOK
  <2>2. handle[r] \in Stored => handle[r] \in Stored'
    BY <2>1, RemovesOwn
  <2>3. handle[r] \in Stored' => handle[r] \in Stored
    BY <1>1, <2>1 DEF FilesStep, Fresh, Stored
  <2> QED BY <2>2, <2>3
<1> QED BY <1>1, <1>2 DEF Writing, Reading, Holds, Untouched

\* p holds after its step what it held before, or it just passed its check.
LEMMA OwnHold ==
    ASSUME IInv, NEW p \in Proc, Step(p)
    PROVE  \/ pc[p] = "scan2" /\ CheckPasses(p)
           \/ /\ p \in Writing' => p \in Writing
              /\ p \in Reading' => p \in Reading
<1> USE DEF IInv, TypeOK, Writing, Reading, Holds
<1>a. (pc'[p] \notin {"held", "swap"}) => (p \notin Writing' /\ p \notin Reading')
  OBVIOUS
<1>1. ASSUME NEW x \in BOOLEAN, Begin(p, x) PROVE pc'[p] \notin {"held", "swap"}
  BY <1>1 DEF Begin
<1>2. Forget(p) => pc'[p] \notin {"held", "swap"}
  BY DEF Forget
<1>3. CheckFails(p) => pc'[p] \notin {"held", "swap"}
  BY <1>2 DEF CheckFails
<1>4. Retry(p) => pc'[p] \notin {"held", "swap"}
  BY <1>3 DEF Retry
<1>5. List(p) \/ PassReader(p) \/ DropStale(p) \/ Create(p) \/ Release(p)
        => pc'[p] \notin {"held", "swap"}
  BY DEF List, PassReader, DropStale, Create, Release, Scanning
<1>6. CheckPasses(p) => pc[p] = "scan2" \/ pc'[p] \notin {"held", "swap"}
  BY DEF CheckPasses, Scanning
<1>7. Refresh(p) \/ RefreshFails(p) \/ Swap(p)
        => p \in Writing /\ (req[p] <=> req'[p])
  BY DEF Refresh, RefreshDue, RefreshFails, Swap, WriterOnRecord
<1>8. Unlock(p) => pc'[p] \notin {"held", "swap"}
  BY <1>2 DEF Unlock
<1> QED
  BY <1>a, <1>1, <1>2, <1>3, <1>4, <1>5, <1>6, <1>7, <1>8
     DEF Step, Acquire, Hold, ListFails, LoadFails, DropFails, Conflict,
         CreateFails, BackOut, Crash

LEMMA StepRefines ==
    ASSUME IInv, IInv', NEW p \in Proc, Step(p)
    PROVE  [Promise!LockNext]_(Promise!lockVars)
<1> USE DEF Promise!lockVars
<1>w. Writing \subseteq Proc /\ Reading \subseteq Proc
      /\ Writing' \subseteq Proc /\ Reading' \subseteq Proc
  BY DEF Writing, Reading
<1>1. CASE DropStale(p)
  <2>1. PICK n \in Stored : files' = [files EXCEPT ![n] = NoFile]
    BY <1>1 DEF DropStale
  <2>2. n \in Name /\ Stored' = Stored \ {n}
    BY <2>1 DEF Stored, IInv, TypeOK
  <2>3. UNCHANGED <<pc, req, handle>>
    BY <1>1 DEF DropStale
  <2>4. Writing' = Writing
    BY <2>3 DEF Writing, Holds
  <2>5. CASE \E r \in Reading : handle[r] = n
    <3>1. PICK r \in Reading : handle[r] = n
      BY <2>5
    <3>2. ASSUME NEW q \in Proc, Holds(q), handle[q] = n PROVE q = r
      BY <3>1, <3>2 DEF Reading, Holds, IInv, OwnFiles, Created
    <3>3. Reading' = Reading \ {r}
      BY <2>2, <2>3, <3>1, <3>2 DEF Reading, Holds
    <3>4. Promise!LeaveRead(r)
      BY <2>4, <3>1, <3>3 DEF Promise!LeaveRead
    <3> QED BY <3>1, <3>4, <1>w DEF Promise!LockNext
  <2>6. CASE ~\E r \in Reading : handle[r] = n
    <3>1. Reading' = Reading
      BY <2>2, <2>3, <2>6 DEF Reading, Holds
    <3> QED BY <2>4, <3>1
  <2> QED BY <2>5, <2>6
<1>2. CASE pc[p] = "scan2" /\ CheckPasses(p)
  <2>1. /\ pc' = [pc EXCEPT ![p] = "held"]
        /\ UNCHANGED <<req, handle, files>>
    BY <1>2 DEF CheckPasses
  <2>p. pc'[p] = "held" /\ Holds(p)' /\ ~Holds(p)
    BY <1>2, <2>1 DEF IInv, TypeOK, Holds
  <2>2. Writing' = IF req[p] THEN Writing \cup {p} ELSE Writing
    BY <2>1, <2>p DEF Writing, Holds, IInv, TypeOK
  <2>3. Reading' = IF ~req[p] /\ handle[p] \in Stored
                   THEN Reading \cup {p} ELSE Reading
    BY <2>1, <2>p DEF Reading, Holds, Stored, IInv, TypeOK
  <2>4. ASSUME NEW q \in Proc, q # p, Holds(q),
               req[p] \/ req[q], req[q] \/ handle[q] \in Stored,
               req[p] \/ handle[p] \in Stored
        PROVE  FALSE
    BY <2>1, <2>p, <2>4 DEF IInv, OneOverlooks, Clear, Alive, Holds, Stored, TypeOK
  <2>5. CASE req[p]
    <3>1. Writing = {} /\ Reading = {}
      BY <2>4, <2>5, <2>p DEF Writing, Reading
    <3>2. Promise!AcquireWrite(p)
      BY <2>2, <2>3, <2>5, <3>1 DEF Promise!AcquireWrite
    <3> QED BY <3>2 DEF Promise!LockNext
  <2>6. CASE ~req[p] /\ handle[p] \in Stored
    <3>1. Writing = {} /\ p \notin Reading
      BY <2>4, <2>6, <2>p DEF Writing, Reading
    <3>2. Promise!AcquireRead(p)
      BY <2>2, <2>3, <2>6, <3>1 DEF Promise!AcquireRead
    <3> QED BY <3>2 DEF Promise!LockNext
  <2>7. CASE ~req[p] /\ handle[p] \notin Stored
    BY <2>2, <2>3, <2>7
  <2> QED BY <2>5, <2>6, <2>7
<1>3. CASE ~DropStale(p) /\ ~(pc[p] = "scan2" /\ CheckPasses(p))
  <2>1. /\ \A r \in Proc \ {p} : /\ r \in Writing' <=> r \in Writing
                                 /\ r \in Reading' <=> r \in Reading
        /\ p \in Writing' => p \in Writing
        /\ p \in Reading' => p \in Reading
    BY <1>3, OthersHold, OwnHold
  <2>2. ~(p \in Writing /\ p \in Reading)
    BY DEF Writing, Reading
  <2>3. Writing' = Writing \/ (p \in Writing /\ Writing' = Writing \ {p})
    BY <2>1, <1>w
  <2>4. Reading' = Reading \/ (p \in Reading /\ Reading' = Reading \ {p})
    BY <2>1, <1>w
  <2>5. \/ UNCHANGED <<Writing, Reading>>
        \/ Promise!LeaveWrite(p)
        \/ Promise!LeaveRead(p)
    BY <2>2, <2>3, <2>4 DEF Promise!LeaveWrite, Promise!LeaveRead
  <2> QED BY <2>5 DEF Promise!LockNext
<1> QED BY <1>1, <1>2, <1>3

\* lock.New's check-create-check protocol, the refresher, Unlock, and the
\* automatic removal of stale non-exclusive locks keep the promise of RWLock
\* for any number of commands, any faults, crashes, stalls and clock errors,
\* as long as nobody runs `backup unlock` (lock.go:115-230).
THEOREM LockFilesKeepPromise ==
    ASSUME OperatorKeys = {}
    PROVE  Spec => Implements
<1>1. Init => Promise!LockInit
  BY DEF Init, Promise!LockInit, Writing, Reading, Holds
<1>2. IInv /\ IInv' /\ [Next]_vars => [Promise!LockNext]_(Promise!lockVars)
  <2> SUFFICES ASSUME IInv, IInv', [Next]_vars
               PROVE  [Promise!LockNext]_(Promise!lockVars)
    OBVIOUS
  <2>1. ASSUME NEW p \in Proc, Step(p)
        PROVE  [Promise!LockNext]_(Promise!lockVars)
    BY <2>1, StepRefines
  <2>2. CASE Tick
    <3>1. \A n \in Name : files[n] = NoFile <=> files'[n] = NoFile
      <4> SUFFICES ASSUME NEW n \in Name, files[n] # NoFile
                   PROVE  files'[n] # NoFile
        BY <2>2 DEF Tick
      <4>1. /\ files[n] \in LockFile
            /\ files'[n] = [files[n] EXCEPT !.age = Older(@, AgeCap)]
        BY <2>2 DEF Tick, IInv, TypeOK
      <4>2. files'[n].key = files[n].key /\ files[n].key \in Key
        BY <4>1 DEF LockFile
      <4> QED BY <4>1, <4>2, ConstantsAssumption DEF NoFile
    <3>2. UNCHANGED <<Writing, Reading>>
      BY <2>2, <3>1 DEF Tick, Writing, Reading, Holds, Stored
    <3> QED BY <3>2 DEF Promise!lockVars
  <2>3. CASE UNCHANGED vars
    BY <2>3 DEF vars, Writing, Reading, Holds, Stored, Promise!lockVars
  <2> QED BY <2>1, <2>2, <2>3, NextCases
<1> QED BY <1>1, <1>2, Invariance, PTL DEF Spec, Implements, Promise!LockSpec

-----------------------------------------------------------------------------
(* In time: no clock calls the lock of a command at work stale.            *)

TimelyOf(p) ==
    Created(p) =>
        /\ handle[p] \in Stored \/ (req[p] /\ "refresh" \in Faults)
        /\ handle[p] \in Stored => /\ files[handle[p]].key = KeyOf[p]
                                   /\ files[handle[p]].age + Skew[p] <= timer[p]

LEMMA Numbers ==
    ASSUME TypeOK, NEW p \in Proc
    PROVE  /\ timer[p] \in Int /\ timer[p] <= TimerCap /\ TimerCap \in Nat
           /\ Skew[p] \in Int /\ StaleTimeout \in Int /\ AgeCap \in Int
           /\ RefreshEvery \in Nat /\ ReadLimit \in Nat
           /\ RefreshEvery <= TimerCap /\ ReadLimit <= TimerCap
BY ConstantsAssumption DEF TypeOK, TimerCap

LEMMA StoredFile ==
    ASSUME TypeOK, NEW n \in Stored
    PROVE  n \in Name /\ files[n] \in LockFile /\ files[n].age \in Int
BY DEF TypeOK, Stored, LockFile

\* A lock stamped with p's clock shows to p the age it was given.
LEMMA NewFileAge ==
    ASSUME TypeOK, NEW p \in Proc, NEW d \in Int
    PROVE  /\ NewFile(p, d) # NoFile /\ NewFile(p, d).key = KeyOf[p]
           /\ NewFile(p, d).age + Skew[p] = d
<1>1. NewFile(p, d).key \in Key /\ NoName \notin Key
  BY ConstantsAssumption DEF NewFile
<1>2. NewFile(p, d).age = d - Skew[p]
  BY DEF NewFile
<1> QED BY <1>1, <1>2, Numbers DEF NewFile, NoFile

\* A command's current lock file is stale to no command and not to the operator.
LEMMA YoungToAll ==
    ASSUME IInv, Timely, ClocksAgree, NEW r \in Proc, Created(r),
           handle[r] \in Stored
    PROVE  /\ \A q \in Proc : ~Stale(files[handle[r]], Skew[q])
           /\ OperatorInTime => ~Stale(files[handle[r]], 0)
<1>1. files[handle[r]].age \in Int /\ files[handle[r]].age + Skew[r] <= timer[r]
  BY StoredFile DEF IInv, Timely
<1>2. ASSUME NEW q \in Proc
      PROVE  ~Stale(files[handle[r]], Skew[q])
  <2>1. TimerCap + Skew[q] - Skew[r] <= StaleTimeout
    BY DEF ClocksAgree
  <2>2. Skew[q] \in Int
    BY ConstantsAssumption
  <2> QED BY <1>1, <2>1, <2>2, Numbers DEF IInv, Stale
<1>3. OperatorInTime => ~Stale(files[handle[r]], 0)
  <2> SUFFICES ASSUME OperatorInTime
               PROVE  ~Stale(files[handle[r]], 0)
    OBVIOUS
  <2>1. TimerCap - Skew[r] <= StaleTimeout
    BY DEF OperatorInTime
  <2> QED BY <1>1, <2>1, Numbers DEF IInv, Stale
<1> QED BY <1>2, <1>3

\* Other commands leave the lock file of a command at work alone.
LEMMA OthersKeepFile ==
    ASSUME IInv, Timely, ClocksAgree, NEW p \in Proc, Step(p),
           NEW r \in Proc, r # p, Created(r)
    PROVE  files'[handle[r]] = files[handle[r]]
<1>1. /\ handle[r] \in handles[r] /\ handle[r] \in Name
      /\ handle[r] \notin handles[p] /\ ~Fresh(handle[r])
  BY DEF IInv, OwnFiles, TypeOK, Fresh
<1>2. CASE DropStale(p)
  <2>1. PICK n \in todo[p] \cap Stored :
            InTheWay(p, n) /\ files' = [files EXCEPT ![n] = NoFile]
    BY <1>2 DEF DropStale
  <2>2. n # handle[r]
    BY <2>1, YoungToAll DEF InTheWay
  <2> QED BY <1>1, <2>1, <2>2, StoredFile DEF IInv, TypeOK
<1>3. CASE ~DropStale(p)
  <2>1. FilesStep(p)
    BY StepFiles
  <2>2. handle[r] \in Stored => handle[r] \in Stored'
    BY <1>1, <1>3, RemovesOwn
  <2> QED BY <1>1, <2>1, <2>2 DEF FilesStep, Stored
<1> QED BY <1>2, <1>3

LEMMA TimelyOther ==
    ASSUME IInv, Timely, ClocksAgree, NEW p \in Proc, Step(p),
           NEW r \in Proc, r # p
    PROVE  TimelyOf(r)'
<1>1. Untouched(p)
  BY StepFrame DEF IInv
<1>2. Created(r) => files'[handle[r]] = files[handle[r]] /\ handle[r] \in Name
  BY OthersKeepFile DEF IInv, OwnFiles, TypeOK
<1> QED BY <1>1, <1>2 DEF Untouched, TimelyOf, Timely, Created, Stored

LEMMA TimelyOwn ==
    ASSUME IInv, Timely, NEW p \in Proc, Step(p)
    PROVE  TimelyOf(p)'
<1> USE DEF IInv, TypeOK, TimelyOf, Created
<1>o. TimelyOf(p) /\ OwnFilesOf(p) /\ timer[p] \in Int /\ 0 \in Int
  BY Numbers DEF Timely, OwnFiles, OwnFilesOf
<1>1. Forget(p) => TimelyOf(p)'
  BY DEF Forget
<1>2. CheckFails(p) => TimelyOf(p)'
  BY <1>1 DEF CheckFails
<1>3. Retry(p) /\ UNCHANGED files
        /\ pc[p] \in {"list1", "scan1", "list2", "scan2"} => TimelyOf(p)'
  BY <1>2, <1>o DEF Retry, Stored
<1>4. ASSUME NEW x \in BOOLEAN, Begin(p, x) PROVE TimelyOf(p)'
  BY <1>4 DEF Begin
<1>5. List(p) \/ PassReader(p) \/ CheckPasses(p) \/ Release(p) => TimelyOf(p)'
  BY <1>o DEF List, PassReader, CheckPasses, Release, Scanning, Stored
<1>6. DropStale(p) => TimelyOf(p)'
  <2> SUFFICES ASSUME NEW n \in todo[p] \cap Stored,
                      InTheWay(p, n),
                      files' = [files EXCEPT ![n] = NoFile],
                      UNCHANGED <<pc, req, handle, handles, timer>>,
                      pc[p] \in {"scan1", "scan2"}
               PROVE  TimelyOf(p)'
    BY DEF DropStale, Scanning
  <2>1. pc[p] = "scan2" => handle[p] # n
    BY <1>o DEF InTheWay, OwnFilesOf, Stored
  <2> QED BY <2>1, <1>o DEF Stored
<1>7. ListFails(p) \/ LoadFails(p) \/ DropFails(p) => TimelyOf(p)'
  BY <1>3 DEF ListFails, LoadFails, DropFails, Scanning
<1>8. Conflict(p) => TimelyOf(p)'
  BY <1>2 DEF Conflict
<1>9. Create(p) => TimelyOf(p)'
  <2> SUFFICES ASSUME NEW n \in Name,
                      files' = [files EXCEPT ![n] = NewFile(p, timer[p])],
                      handle' = [handle EXCEPT ![p] = n], UNCHANGED timer
               PROVE  TimelyOf(p)'
    BY DEF Create
  <2>1. handle'[p] = n /\ files'[n] = NewFile(p, timer[p]) /\ timer' = timer
    OBVIOUS
  <2>2. n \in Stored'
    BY <2>1, <1>o, NewFileAge DEF Stored
  <2>3. files'[n].key = KeyOf[p] /\ files'[n].age + Skew[p] = timer[p]
    BY <2>1, <1>o, NewFileAge
  <2> QED BY <2>1, <2>2, <2>3, <1>o
<1>10. CreateFails(p) \/ BackOut(p) \/ Crash(p) => TimelyOf(p)'
  BY <1>1 DEF CreateFails, BackOut, Crash
<1>11. ASSUME NEW n \in Name,
              files' = [files EXCEPT ![n] = NewFile(p, 0)],
              handle' = [handle EXCEPT ![p] = n],
              timer' = [timer EXCEPT ![p] = 0]
       PROVE  TimelyOf(p)'
  <2>1. handle'[p] = n /\ files'[n] = NewFile(p, 0) /\ timer'[p] = 0
    BY <1>11
  <2>2. n \in Stored'
    BY <2>1, <1>o, NewFileAge DEF Stored
  <2>3. files'[n].key = KeyOf[p] /\ files'[n].age + Skew[p] = 0
    BY <2>1, <1>o, NewFileAge
  <2> QED BY <2>1, <2>2, <2>3
<1>12. Refresh(p) => TimelyOf(p)'
  BY <1>11 DEF Refresh
<1>13. RefreshFails(p) => TimelyOf(p)'
  <2> SUFFICES ASSUME RefreshFails(p)
               PROVE  TimelyOf(p)'
    OBVIOUS
  <2>1. PICK n \in Name :
            /\ Fresh(n)
            /\ files' \in AfterFailedSave(n, NewFile(p, 0))
            /\ handle' = [handle EXCEPT ![p] = n]
    BY DEF RefreshFails
  <2>2. CASE files' = [files EXCEPT ![n] = NewFile(p, 0)]
    BY <1>11, <2>1, <2>2 DEF RefreshFails
  <2>3. CASE files' = files
    <3>1. handle'[p] = n /\ n \notin Stored'
      BY <2>1, <2>3 DEF Fresh, Stored
    <3>2. req'[p] /\ "refresh" \in Faults
      BY DEF RefreshFails, RefreshDue, MayFail
    <3> QED BY <3>1, <3>2
  <2> QED BY <2>1, <2>2, <2>3 DEF AfterFailedSave
<1>14. Swap(p) => TimelyOf(p)'
  BY <1>o DEF Swap, WriterOnRecord, Stored
<1>15. Unlock(p) => TimelyOf(p)'
  BY <1>1 DEF Unlock
<1> QED
  BY <1>4, <1>5, <1>6, <1>7, <1>8, <1>9, <1>10, <1>12, <1>13, <1>14, <1>15
     DEF Step, Acquire, Hold

\* A tick makes files and timers older alike.
LEMMA TimelyTick ==
    ASSUME IInv, Timely, Suspendable = {}, Tick
    PROVE  Timely'
<1> SUFFICES ASSUME NEW p \in Proc, Created(p)
             PROVE  TimelyOf(p)'
  BY DEF Tick, Timely, TimelyOf, Created
<1>1. UNCHANGED <<pc, req, handle>>
  BY DEF Tick
<1>2. handle[p] \in Name
  BY DEF IInv, OwnFiles, TypeOK
<1>3. CASE handle[p] \notin Stored
  <2>1. handle[p] \notin Stored'
    BY <1>2, <1>3 DEF Tick, Stored
  <2> QED BY <1>1, <1>3, <2>1 DEF Timely, TimelyOf
<1>4. CASE handle[p] \in Stored
  <2> DEFINE f == files[handle[p]]
  <2>1. f \in LockFile /\ f.age \in Int
    BY <1>4, StoredFile DEF IInv
  <2>2. files'[handle[p]] = [f EXCEPT !.age = Older(@, AgeCap)]
    BY <1>2, <1>4 DEF Tick, Stored
  <2>3. /\ files'[handle[p]].key = f.key
        /\ files'[handle[p]].age = Older(f.age, AgeCap)
    BY <2>1, <2>2 DEF LockFile
  <2>4. Older(f.age, AgeCap) <= f.age + 1 /\ Older(f.age, AgeCap) \in Int
    BY <2>1, ConstantsAssumption DEF Older
  <2>5. handle[p] \in Stored'
    BY <2>1, <2>3, <1>2, ConstantsAssumption DEF Stored, NoFile, LockFile
  <2>6. timer'[p] = timer[p] + 1
    <3>1. pc[p] # "idle" /\ timer[p] < Deadline(p)
      BY DEF Tick, OnTime, Created
    <3>2. timer[p] < TimerCap
      BY <3>1, Numbers DEF Deadline, IInv
    <3> QED BY <3>1, <3>2 DEF Tick, Older
  <2>7. f.key = KeyOf[p] /\ f.age + Skew[p] <= timer[p]
    BY <1>4 DEF Timely
  <2>8. files'[handle[p]].age + Skew[p] <= timer'[p]
    <3> HIDE DEF f
    <3> QED BY <2>1, <2>3, <2>4, <2>6, <2>7, Numbers DEF IInv
  <2> QED BY <1>1, <2>3, <2>5, <2>7, <2>8 DEF TimelyOf
<1> QED BY <1>3, <1>4

\* In time, the operator's unlock removes no file that is some command's
\* current one.
LEMMA OperatorSpares ==
    ASSUME IInv, Timely, InTime, NEW k \in OperatorKeys, RemoveStale(k)
    PROVE  /\ \A p \in Proc : Created(p) =>
                  handle[p] \in Stored /\ files'[handle[p]] = files[handle[p]]
           /\ \A m \in Name : files'[m] = files[m] \/ files'[m] = NoFile
           /\ UNCHANGED <<pc, req, handle, handles, old, todo, attempt, timer>>
<1>1. PICK n \in Stored :
          /\ files[n].key # k \/ Stale(files[n], 0)
          /\ files' = [files EXCEPT ![n] = NoFile]
  BY DEF RemoveStale
<1>2. ClocksAgree /\ OperatorInTime
  BY DEF InTime
<1>3. ASSUME NEW p \in Proc, Created(p)
      PROVE  handle[p] \in Stored /\ handle[p] # n
  <2>1. handle[p] \in Stored
    BY <1>2, <1>3 DEF Timely, OperatorInTime
  <2>2. ~Stale(files[handle[p]], 0)
    BY <1>2, <1>3, <2>1, YoungToAll
  <2>3. files[handle[p]].key = k
    BY <1>2, <1>3, <2>1 DEF Timely, OperatorInTime
  <2> QED BY <1>1, <2>1, <2>2, <2>3
<1>4. \A p \in Proc : Created(p) => handle[p] \in Name
  BY DEF IInv, OwnFiles, TypeOK
<1> QED BY <1>1, <1>3, <1>4 DEF RemoveStale, IInv, TypeOK

LEMMA OperatorKeeps ==
    ASSUME IInv, Timely, InTime, NEW k \in OperatorKeys, RemoveStale(k)
    PROVE  IInv' /\ Timely'
<1>1. /\ \A p \in Proc : Created(p) =>
             handle[p] \in Stored /\ files'[handle[p]] = files[handle[p]]
      /\ \A m \in Name : files'[m] = files[m] \/ files'[m] = NoFile
      /\ UNCHANGED <<pc, req, handle, handles, old, todo, attempt, timer>>
  BY OperatorSpares
<1>2. TypeOK'
  BY DEF RemoveStale, IInv, TypeOK, Stored
<1>3. OwnFiles'
  BY <1>1 DEF IInv, TypeOK, OwnFiles, Created
<1>4. WriterOnRecord'
  <2>1. \A p \in Proc : Created(p) => handle[p] \in handles[p]
    BY DEF IInv, OwnFiles
  <2>2. \A p \in Proc : Created(p) => files'[handle[p]] # NoFile
    BY <1>1 DEF Stored
  <2> QED BY <1>1, <2>1, <2>2 DEF IInv, WriterOnRecord, Created
<1>5. OneOverlooks'
  <2>1. Stored' \subseteq Stored
    BY <1>1 DEF Stored
  <2>2. \A p, q \in Proc : Blocked(q, p) => Blocked(q, p)'
    BY <1>1, <2>1 DEF Blocked
  <2>3. \A p, q \in Proc : Clear(q, p)' => Clear(q, p)
    BY <1>1, <2>2 DEF Clear, Holds
  <2>4. \A p \in Proc : Alive(p)' => Alive(p)
    BY <1>1, <2>1 DEF Alive
  <2> QED BY <1>1, <2>3, <2>4 DEF IInv, OneOverlooks
<1>6. Timely'
  BY <1>1 DEF Timely, Created, Stored
<1> QED BY <1>2, <1>3, <1>4, <1>5, <1>6 DEF IInv

LEMMA TimelyStep ==
    ASSUME IInv, Timely, InTime, [Next]_vars
    PROVE  IInv' /\ Timely'
<1>1. ASSUME NEW p \in Proc, Step(p) PROVE Timely'
  <2>1. \A r \in Proc : TimelyOf(r)'
    BY <1>1, TimelyOwn, TimelyOther DEF InTime
  <2> QED BY <2>1 DEF Timely, TimelyOf
<1>2. ASSUME NEW k \in OperatorKeys, RemoveStale(k) PROVE IInv' /\ Timely'
  BY <1>2, OperatorKeeps
<1>3. Tick => Timely'
  BY TimelyTick DEF InTime
<1>4. UNCHANGED vars => Timely'
  BY DEF vars, Timely, Created, Stored
<1> QED BY <1>1, <1>2, <1>3, <1>4, NextCases, IInvStep

\* In time, the locks of commands at work stay in place and look young, also
\* with an operator who unlocks whenever he likes.
THEOREM TimelyInvariance ==
    ASSUME InTime
    PROVE  Spec => [](IInv /\ Timely)
<1>1. Init => IInv /\ Timely
  BY IInvAtFirst DEF Init, Timely, Created
<1>2. IInv /\ Timely /\ [Next]_vars => (IInv /\ Timely)'
  BY TimelyStep
<1> QED BY <1>1, <1>2, PTL DEF Spec

\* A writer is alone: no command in time works beside it, whatever other
\* commands and the operator do (lock.go: a live lock is never stale).
THEOREM WritersStayAlone ==
    ASSUME InTime
    PROVE  Spec => []WritersAreAlone
<1>1. IInv /\ Timely => WritersAreAlone
  <2> SUFFICES ASSUME IInv, Timely, NEW p \in Proc, NEW q \in Proc, p # q,
                      Holds(p), Holds(q), req[p] \/ req[q]
               PROVE  FALSE
    BY DEF WritersAreAlone
  <2>1. Created(p) /\ Created(q)
    BY DEF Holds, Created
  <2>2. Alive(p) /\ Alive(q)
    BY <2>1 DEF Timely, Alive
  <2> QED BY <2>2 DEF IInv, OneOverlooks, Clear
<1> QED BY <1>1, TimelyInvariance, PTL

\* Nobody but its holder removes the current lock file of a command at work.
THEOREM LiveLocksStay ==
    ASSUME InTime
    PROVE  Spec => LiveLockKept
<1>1. IInv /\ Timely /\ [Next]_vars =>
        [\A p \in Proc :
            (Holds(p) /\ Holds(p)' /\ handle[p] \in Stored) =>
                (handle[p] \in Stored' \/ handle'[p] # handle[p])]_vars
  <2> SUFFICES ASSUME IInv, Timely, [Next]_vars, NEW p \in Proc,
                      Holds(p), Holds(p)', handle[p] \in Stored,
                      handle'[p] = handle[p]
               PROVE  handle[p] \in Stored'
    OBVIOUS
  <2>0. Created(p) /\ Created(p)' /\ handle[p] \in Name
    BY DEF Holds, Created, Stored
  <2>1. ASSUME NEW q \in Proc, Step(q), q # p
        PROVE  handle[p] \in Stored'
    BY <2>0, <2>1, OthersKeepFile DEF InTime, Stored
  <2>2. CASE Step(p)
    <3>1. ~DropStale(p)
      BY DEF DropStale, Scanning, Holds
    <3>2. \/ Refresh(p) \/ RefreshFails(p) \/ Swap(p)
          \/ UNCHANGED files
      <4>1. ~Create(p) /\ ~CreateFails(p) /\ ~BackOut(p) /\ ~Unlock(p)
        BY DEF Create, CreateFails, BackOut, Unlock, Holds
      <4> QED BY <2>2, <3>1, <4>1
              DEF Step, Begin, Acquire, Hold, List, ListFails, LoadFails, PassReader,
                  DropFails, Conflict, CheckPasses, Release, Crash
    <3>3. ~Refresh(p) /\ ~RefreshFails(p)
      BY <2>0 DEF Refresh, RefreshFails, Fresh, IInv, TypeOK
    <3>4. Swap(p) => handle[p] \in Stored'
      BY <2>0 DEF Swap, WriterOnRecord, IInv, TypeOK, Stored
    <3> QED BY <3>2, <3>3, <3>4 DEF Stored
  <2>3. ASSUME NEW k \in OperatorKeys, RemoveStale(k)
        PROVE  handle[p] \in Stored'
    BY <2>0, <2>3, OperatorSpares DEF Stored
  <2>4. CASE Tick
    <3>1. Timely'
      BY <2>4, TimelyTick DEF InTime
    <3>2. files[handle[p]] \in LockFile
      BY StoredFile DEF IInv
    <3>3. files'[handle[p]] = [files[handle[p]] EXCEPT !.age = Older(@, AgeCap)]
      BY <2>0, <2>4 DEF Tick, Stored
    <3>4. files'[handle[p]].key = files[handle[p]].key
      BY <3>2, <3>3 DEF LockFile
    <3> QED BY <2>0, <3>2, <3>4, ConstantsAssumption DEF Stored, NoFile, LockFile
  <2>5. CASE UNCHANGED vars
    BY <2>5 DEF vars, Stored
  <2> QED BY <2>1, <2>2, <2>3, <2>4, <2>5, NextCases
<1> QED BY <1>1, TimelyInvariance, PTL DEF Spec, LiveLockKept

-----------------------------------------------------------------------------
(* What is left behind.                                                    *)

OneHandleOf(p) ==
    pc[p] \in {"list2", "scan2", "backout"} => handles[p] = {handle[p]}

LEMMA OneHandleStep ==
    ASSUME IInv, OneHandle, [Next]_vars
    PROVE  OneHandle'
<1>1. ASSUME NEW p \in Proc, Step(p) PROVE OneHandleOf(p)'
  <2> USE DEF IInv, TypeOK, OneHandleOf
  <2>o. OneHandleOf(p)
    BY DEF OneHandle
  <2>1. Forget(p) => OneHandleOf(p)'
    BY DEF Forget
  <2>2. CheckFails(p) /\ pc[p] \in {"list1", "scan1", "list2", "scan2"} => OneHandleOf(p)'
    BY <2>1, <2>o DEF CheckFails
  <2>3. Retry(p) /\ pc[p] \in {"list1", "scan1", "list2", "scan2"} => OneHandleOf(p)'
    BY <2>2, <2>o DEF Retry
  <2>4. ASSUME NEW x \in BOOLEAN, Begin(p, x) PROVE OneHandleOf(p)'
    BY <2>4 DEF Begin
  <2>5. List(p) \/ PassReader(p) \/ DropStale(p) \/ CheckPasses(p) \/ Release(p)
          => OneHandleOf(p)'
    BY <2>o DEF List, PassReader, DropStale, CheckPasses, Release, Scanning
  <2>6. ListFails(p) \/ LoadFails(p) \/ DropFails(p) \/ Conflict(p) => OneHandleOf(p)'
    BY <2>2, <2>3 DEF ListFails, LoadFails, DropFails, Conflict, Scanning
  <2>7. Create(p) => OneHandleOf(p)'
    BY DEF Create
  <2>8. CreateFails(p) \/ BackOut(p) \/ Crash(p) => OneHandleOf(p)'
    BY <2>1 DEF CreateFails, BackOut, Crash
  <2>9. Refresh(p) \/ RefreshFails(p) \/ Swap(p) => OneHandleOf(p)'
    BY DEF Refresh, RefreshFails, RefreshDue, Swap
  <2>10. Unlock(p) => OneHandleOf(p)'
    BY <2>1 DEF Unlock
  <2> QED
    BY <1>1, <2>4, <2>5, <2>6, <2>7, <2>8, <2>9, <2>10 DEF Step, Acquire, Hold
<1>2. ASSUME NEW p \in Proc, Step(p), NEW r \in Proc, r # p PROVE OneHandleOf(r)'
  BY <1>2, StepFrame DEF IInv, Untouched, OneHandle, OneHandleOf
<1>3. ASSUME \/ \E k \in OperatorKeys : RemoveStale(k)
             \/ Tick
             \/ UNCHANGED vars
      PROVE  OneHandle'
  BY <1>3 DEF RemoveStale, Tick, vars, OneHandle
<1>4. ASSUME NEW p \in Proc, Step(p) PROVE OneHandle'
  <2>1. \A r \in Proc : OneHandleOf(r)'
    BY <1>1, <1>2, <1>4
  <2> QED BY <2>1 DEF OneHandle, OneHandleOf
<1> QED BY <1>3, <1>4, NextCases

\* A command that lets go of a lock file without removing it is dying, where
\* the calls that remove and create do not fail.
LEMMA LetsGoOfNothing ==
    ASSUME IInv, OneHandle, Faults \cap {"create", "backout", "unlock"} = {},
           NEW p \in Proc, Step(p), ~Crash(p), NEW n \in Stored', n \notin handles'[p]
    PROVE  n \notin handles[p] /\ n \in Stored
<1> USE DEF IInv, TypeOK, MayFail
<1>o. OwnFilesOf(p)
  BY DEF OwnFiles, OwnFilesOf
<1>n. n \in Name /\ files'[n] # NoFile
  BY DEF Stored
<1>g. UNCHANGED <<files, handles>> => n \notin handles[p] /\ n \in Stored
  BY DEF Stored
<1>1. ASSUME Forget(p), UNCHANGED files, pc[p] \in {"list1", "scan1"}
      PROVE  n \notin handles[p] /\ n \in Stored
  BY <1>1, <1>o, <1>n DEF OwnFilesOf, Stored
<1>2. ASSUME CheckFails(p), UNCHANGED files
      PROVE  n \notin handles[p] /\ n \in Stored
  BY <1>1, <1>2, <1>g DEF CheckFails
<1>3. ASSUME Retry(p), UNCHANGED files
      PROVE  n \notin handles[p] /\ n \in Stored
  BY <1>2, <1>3, <1>g DEF Retry
<1>4. ASSUME NEW x \in BOOLEAN, Begin(p, x)
      PROVE  n \notin handles[p] /\ n \in Stored
  BY <1>4, <1>g DEF Begin
<1>5. List(p) \/ PassReader(p) \/ CheckPasses(p) \/ Release(p)
        => n \notin handles[p] /\ n \in Stored
  BY <1>g DEF List, PassReader, CheckPasses, Release
<1>6. DropStale(p) => n \notin handles[p] /\ n \in Stored
  BY <1>n DEF DropStale, Stored
<1>7. ListFails(p) \/ LoadFails(p) \/ DropFails(p) \/ Conflict(p)
        => n \notin handles[p] /\ n \in Stored
  BY <1>2, <1>3 DEF ListFails, LoadFails, DropFails, Conflict
<1>8. Create(p) => n \notin handles[p] /\ n \in Stored
  BY <1>o, <1>n DEF Create, OwnFilesOf, Stored
<1>9. ~CreateFails(p)
  BY DEF CreateFails
<1>10. BackOut(p) => n \notin handles[p] /\ n \in Stored
  <2> SUFFICES ASSUME BackOut(p)
               PROVE  n \notin handles[p] /\ n \in Stored
    OBVIOUS
  <2>1. handles[p] = {handle[p]} /\ files' = [files EXCEPT ![handle[p]] = NoFile]
    BY DEF BackOut, OneHandle
  <2> QED BY <2>1, <1>n DEF Stored
<1>11. Refresh(p) => n \notin handles[p] /\ n \in Stored
  BY <1>n DEF Refresh, Stored
<1>12. RefreshFails(p) => n \notin handles[p] /\ n \in Stored
  BY <1>n DEF RefreshFails, AfterFailedSave, Stored
<1>13. Swap(p) => n \notin handles[p] /\ n \in Stored
  BY <1>n DEF Swap, Stored
<1>14. Unlock(p) => n \notin handles[p] /\ n \in Stored
  <2> SUFFICES ASSUME NEW m \in handles[p],
                      files' = [files EXCEPT ![m] = NoFile],
                      IF handles[p] = {m} THEN Forget(p)
                      ELSE handles' = [handles EXCEPT ![p] = @ \ {m}]
               PROVE  n \notin handles[p] /\ n \in Stored
    BY DEF Unlock
  <2>1. n # m /\ n \in Stored
    BY <1>n DEF Stored
  <2> QED BY <2>1
<1> QED
  BY <1>4, <1>5, <1>6, <1>7, <1>8, <1>9, <1>10, <1>11, <1>12, <1>13, <1>14
     DEF Step, Acquire, Hold

\* Where creating and removing lock files does not fail for good, a lock file
\* without an owner is one a command died with: failing checks, failing
\* refreshes and files that could not be replaced leave none.
THEOREM NothingStaysBehind ==
    ASSUME OperatorKeys = {} \/ InTime,
           Faults \cap {"create", "backout", "unlock"} = {}
    PROVE  Spec => NothingLeftBehind
<1>1. Init => OneHandle
  BY DEF Init, OneHandle
<1>2. IInv /\ OneHandle /\ [Next]_vars => OneHandle'
  BY OneHandleStep
<1>3. IInv /\ OneHandle /\ [Next]_vars =>
        [\A n \in Orphans' : n \in Orphans \/ \E p \in Proc : Crash(p)]_vars
  <2> SUFFICES ASSUME IInv, OneHandle, [Next]_vars, NEW n \in Orphans',
                      \A p \in Proc : ~Crash(p)
               PROVE  n \in Orphans
    OBVIOUS
  <2>0. n \in Stored' /\ n \in Name /\ \A p \in Proc : n \notin handles'[p]
    BY DEF Orphans, Stored
  <2>1. ASSUME NEW p \in Proc, Step(p)
        PROVE  n \in Orphans
    <3>1. n \notin handles[p] /\ n \in Stored
      BY <2>0, <2>1, LetsGoOfNothing
    <3>2. \A r \in Proc : r # p => handles'[r] = handles[r]
      BY <2>1, StepFrame DEF IInv, Untouched
    <3> QED BY <2>0, <3>1, <3>2 DEF Orphans
  <2>2. ASSUME NEW k \in OperatorKeys, RemoveStale(k)
        PROVE  n \in Orphans
    BY <2>0, <2>2 DEF RemoveStale, Orphans, Stored, IInv, TypeOK
  <2>3. CASE Tick
    BY <2>0, <2>3 DEF Tick, Orphans, Stored
  <2>4. CASE UNCHANGED vars
    BY <2>0, <2>4 DEF vars, Orphans, Stored
  <2> QED BY <2>1, <2>2, <2>3, <2>4, NextCases
<1>4. Spec => []IInv
  <2>1. OperatorKeys = {} => (Spec => []IInv)
    BY Invariance
  <2>2. InTime => (Spec => [](IInv /\ Timely))
    BY TimelyInvariance
  <2> QED BY <2>1, <2>2, PTL
<1> QED BY <1>1, <1>2, <1>3, <1>4, PTL DEF Spec, NothingLeftBehind
=============================================================================
