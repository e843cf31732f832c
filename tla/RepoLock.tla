------------------------------ MODULE RepoLock ------------------------------
(***************************************************************************)
(* Repository locks of the incremental engine: the files in locks/, how    *)
(* lock.New decides that a request may go ahead, how the facade keeps an   *)
(* exclusive lock fresh, and how locks disappear again (release, crash,    *)
(* automatic removal, `bqckup backup unlock`).                             *)
(*                                                                         *)
(* A lock file never changes: its name is the hash of its sealed contents, *)
(* and a refresh writes a second file before it removes the first.  Time   *)
(* is counted in ticks, as the age a file shows to a machine with a        *)
(* perfect clock; ages saturate at AgeCap, where every machine already     *)
(* finds the file stale.  A process of the model is one command run: it    *)
(* takes at most one lock, then it ends, and the next command with the     *)
(* same name starts from nothing.                                          *)
(***************************************************************************)
EXTENDS Integers, FiniteSets

CONSTANTS
    Proc,           \* commands that use the repository
    Name,           \* names a lock file can get (content hashes)
    NoName,         \* the empty handle
    Key,            \* keys that seal lock files: master key, init-lock key
    KeyOf,          \* the key each command seals and opens lock files with
    Skew,           \* how far each command's clock is ahead, in ticks
    StaleTimeout,   \* the 30 minutes, in ticks
    AgeCap,         \* bound: ages are counted up to here
    RefreshEvery,   \* the refresher's 5 minutes, in ticks
    ReadLimit,      \* bound: ticks a reader works at most
    HandleCap,      \* bound: lock files a command has before it must let go
    OrphanCap,      \* bound: files of dead commands there are before another dies
    Suspendable,    \* commands that may stall for any time (SIGSTOP, sleep)
    Crashable,      \* commands that may die at any point
    Faults,         \* backend calls that may fail, by the step they occur in
    OperatorKeys    \* keys `backup unlock` may be run with ({}: never run)

FaultPoints == {"list", "load", "drop", "create", "backout",
                "refresh", "swap", "unlock"}

ASSUME ConstantsAssumption ==
    /\ NoName \notin Name \cup Key
    /\ KeyOf \in [Proc -> Key]
    /\ Skew \in [Proc -> Int]
    /\ StaleTimeout \in Nat /\ AgeCap \in Int
    /\ RefreshEvery \in Nat \ {0} /\ ReadLimit \in Nat \ {0}
    /\ HandleCap \in Nat /\ OrphanCap \in Nat
    /\ Faults \subseteq FaultPoints

\* A file every machine calls stale keeps being called stale.
ASSUME AgeCapAssumption ==
    \A p \in Proc : AgeCap + Skew[p] > StaleTimeout

Attempts == 3       \* lock.go: attempts of checkOthers

VARIABLES
    files,          \* locks/: what each name stores, NoFile when nothing
    pc,             \* where each command is
    req,            \* TRUE when it asks for the exclusive lock
    handle,         \* Lock.handle: its current lock file
    handles,        \* Lock.handles: every lock file it created
    old,            \* the file a refresh has still to remove
    todo,           \* listed lock files it has not looked at yet
    attempt,        \* listings of this check that already failed
    timer           \* ticks since Lock.Time was set

vars == <<files, pc, req, handle, handles, old, todo, attempt, timer>>

LockFile == [excl : BOOLEAN, key : Key, age : Int]
NoFile == [excl |-> FALSE, key |-> NoName, age |-> 0]

Phases == {"idle", "list1", "scan1", "create", "list2", "scan2", "backout",
           "held", "swap", "unlock"}

TimerCap == IF RefreshEvery > ReadLimit THEN RefreshEvery ELSE ReadLimit

TypeOK ==
    /\ files \in [Name -> LockFile \cup {NoFile}]
    /\ pc \in [Proc -> Phases]
    /\ req \in [Proc -> BOOLEAN]
    /\ handle \in [Proc -> Name \cup {NoName}]
    /\ handles \in [Proc -> SUBSET Name]
    /\ old \in [Proc -> Name \cup {NoName}]
    /\ todo \in [Proc -> SUBSET Name]
    /\ attempt \in [Proc -> 0 .. Attempts - 1]
    /\ timer \in [Proc -> 0 .. TimerCap]

Init ==
    /\ files = [n \in Name |-> NoFile]
    /\ pc = [p \in Proc |-> "idle"]
    /\ req = [p \in Proc |-> FALSE]
    /\ handle = [p \in Proc |-> NoName]
    /\ handles = [p \in Proc |-> {}]
    /\ old = [p \in Proc |-> NoName]
    /\ todo = [p \in Proc |-> {}]
    /\ attempt = [p \in Proc |-> 0]
    /\ timer = [p \in Proc |-> 0]

-----------------------------------------------------------------------------
(* Lock files.                                                             *)

Stored == {n \in Name : files[n] # NoFile}

\* The hash of a sealed blob with a random nonce is a name nobody has seen.
Fresh(n) ==
    /\ n \notin Stored
    /\ \A q \in Proc : n \notin handles[q] /\ n \notin todo[q]

\* A lock stamped with p's clock, d ticks ago.
NewFile(p, d) == [excl |-> req[p], key |-> KeyOf[p], age |-> d - Skew[p]]

\* (Mutant of Stale: stale one tick too early.)
StaleTooEarly(f, skew) == f.age + skew >= StaleTimeout

Stale(f, skew) == f.age + skew > StaleTimeout

\* A backend call of this step may fail.
MayFail(step) == step \in Faults

\* The stored files after a Save of f as n that returned an error: the file
\* is there, or it is not.
AfterFailedSave(n, f) == {files, [files EXCEPT ![n] = f]}

-----------------------------------------------------------------------------
(* lock.New: check, create, wait, check again.                             *)

Begin(p, exclusive) ==
    /\ pc[p] = "idle"
    /\ pc' = [pc EXCEPT ![p] = "list1"]
    /\ req' = [req EXCEPT ![p] = exclusive]
    /\ UNCHANGED <<files, handle, handles, old, todo, attempt, timer>>

\* The lock object is dropped: the command ends or gives up.
Forget(p) ==
    /\ pc' = [pc EXCEPT ![p] = "idle"]
    /\ handle' = [handle EXCEPT ![p] = NoName]
    /\ handles' = [handles EXCEPT ![p] = {}]
    /\ old' = [old EXCEPT ![p] = NoName]
    /\ todo' = [todo EXCEPT ![p] = {}]
    /\ req' = [req EXCEPT ![p] = FALSE]
    /\ attempt' = [attempt EXCEPT ![p] = 0]
    /\ timer' = [timer EXCEPT ![p] = 0]

\* checkOthers returns an error: the first check just fails, the second one
\* takes the lock file back.
CheckFails(p) ==
    IF pc[p] \in {"list1", "scan1"}
    THEN Forget(p)
    ELSE /\ pc' = [pc EXCEPT ![p] = "backout"]
         /\ todo' = [todo EXCEPT ![p] = {}]
         /\ attempt' = [attempt EXCEPT ![p] = 0]
         /\ UNCHANGED <<req, handle, handles, old, timer>>

\* (Mutant of Retry: attempts are not counted.)
RetryForever(p) ==
    /\ pc' = [pc EXCEPT ![p] =
                 IF @ \in {"list1", "scan1"} THEN "list1" ELSE "list2"]
    /\ todo' = [todo EXCEPT ![p] = {}]
    /\ UNCHANGED <<req, handle, handles, old, attempt, timer>>

\* The listing failed with an error that another attempt may not meet.
Retry(p) ==
    IF attempt[p] + 1 = Attempts
    THEN CheckFails(p)
    ELSE /\ attempt' = [attempt EXCEPT ![p] = @ + 1]
         /\ pc' = [pc EXCEPT ![p] =
                      IF @ \in {"list1", "scan1"} THEN "list1" ELSE "list2"]
         /\ todo' = [todo EXCEPT ![p] = {}]
         /\ UNCHANGED <<req, handle, handles, old, timer>>

\* The whole locks/ directory is listed at once; each file is then opened.
List(p) ==
    /\ pc[p] \in {"list1", "list2"}
    /\ todo' = [todo EXCEPT ![p] = Stored \ {handle[p]}]
    /\ pc' = [pc EXCEPT ![p] = IF @ = "list1" THEN "scan1" ELSE "scan2"]
    /\ UNCHANGED <<files, req, handle, handles, old, attempt, timer>>

ListFails(p) ==
    /\ pc[p] \in {"list1", "list2"}
    /\ MayFail("list")
    /\ Retry(p)
    /\ UNCHANGED files

Scanning(p) == pc[p] \in {"scan1", "scan2"}
Readable(p, n) == files[n].key = KeyOf[p]
BothReaders(p, n) == ~req[p] /\ ~files[n].excl

\* A listed file that is gone, or cannot be fetched, ends the attempt.
LoadFails(p) ==
    /\ Scanning(p)
    /\ \E n \in todo[p] : n \notin Stored \/ MayFail("load")
    /\ Retry(p)
    /\ UNCHANGED files

PassReader(p) ==
    /\ Scanning(p)
    /\ \E n \in todo[p] \cap Stored :
          /\ Readable(p, n)
          /\ BothReaders(p, n)
          /\ todo' = [todo EXCEPT ![p] = @ \ {n}]
    /\ UNCHANGED <<files, pc, req, handle, handles, old, attempt, timer>>

\* A stale non-exclusive lock in the way of an exclusive request.
InTheWay(p, n) ==
    /\ Readable(p, n)
    /\ req[p] /\ ~files[n].excl
    /\ Stale(files[n], Skew[p])

DropStale(p) ==
    /\ Scanning(p)
    /\ \E n \in todo[p] \cap Stored :
          /\ InTheWay(p, n)
          /\ files' = [files EXCEPT ![n] = NoFile]
          /\ todo' = [todo EXCEPT ![p] = @ \ {n}]
    /\ UNCHANGED <<pc, req, handle, handles, old, attempt, timer>>

DropFails(p) ==
    /\ Scanning(p)
    /\ MayFail("drop")
    /\ \E n \in todo[p] \cap Stored : InTheWay(p, n)
    /\ Retry(p)
    /\ UNCHANGED files

\* ErrInvalidLock, ErrStaleExclusive or ErrLocked.
Conflict(p) ==
    /\ Scanning(p)
    /\ \E n \in todo[p] \cap Stored :
          /\ ~(Readable(p, n) /\ BothReaders(p, n))
          /\ ~InTheWay(p, n)
    /\ CheckFails(p)
    /\ UNCHANGED files

CheckPasses(p) ==
    /\ Scanning(p)
    /\ todo[p] = {}
    /\ pc' = [pc EXCEPT ![p] = IF @ = "scan1" THEN "create" ELSE "held"]
    /\ attempt' = [attempt EXCEPT ![p] = 0]
    /\ UNCHANGED <<files, req, handle, handles, old, todo, timer>>

\* (Mutant of Create: the second check is left out.)
CreateUnchecked(p) ==
    /\ pc[p] = "create"
    /\ \E n \in Name :
          /\ Fresh(n)
          /\ files' = [files EXCEPT ![n] = NewFile(p, timer[p])]
          /\ handle' = [handle EXCEPT ![p] = n]
          /\ handles' = [handles EXCEPT ![p] = {n}]
    /\ pc' = [pc EXCEPT ![p] = "held"]
    /\ UNCHANGED <<req, old, todo, attempt, timer>>

\* The lock file is stamped with the time New was called.
Create(p) ==
    /\ pc[p] = "create"
    /\ \E n \in Name :
          /\ Fresh(n)
          /\ files' = [files EXCEPT ![n] = NewFile(p, timer[p])]
          /\ handle' = [handle EXCEPT ![p] = n]
          /\ handles' = [handles EXCEPT ![p] = {n}]
    /\ pc' = [pc EXCEPT ![p] = "list2"]
    /\ UNCHANGED <<req, old, todo, attempt, timer>>

\* New returns the error of a failed Save and removes nothing.
CreateFails(p) ==
    /\ pc[p] = "create"
    /\ MayFail("create")
    /\ \E n \in Name :
          /\ Fresh(n)
          /\ files' \in AfterFailedSave(n, NewFile(p, timer[p]))
    /\ Forget(p)

\* After a conflict in the second check; the result of Remove is ignored.
BackOut(p) ==
    /\ pc[p] = "backout"
    /\ files' \in {[files EXCEPT ![handle[p]] = NoFile]}
                  \cup (IF MayFail("backout") THEN {files} ELSE {})
    /\ Forget(p)

-----------------------------------------------------------------------------
(* Holding: the facade's refresher, release, death.                        *)

RefreshDue(p) ==
    /\ pc[p] = "held" /\ req[p] /\ timer[p] > 0
    /\ Cardinality(handles[p]) < HandleCap

\* Refresh writes a new file first ...
Refresh(p) ==
    /\ RefreshDue(p)
    /\ \E n \in Name :
          /\ Fresh(n)
          /\ files' = [files EXCEPT ![n] = NewFile(p, 0)]
          /\ handle' = [handle EXCEPT ![p] = n]
          /\ handles' = [handles EXCEPT ![p] = @ \cup {n}]
    /\ old' = [old EXCEPT ![p] = handle[p]]
    /\ pc' = [pc EXCEPT ![p] = "swap"]
    /\ timer' = [timer EXCEPT ![p] = 0]
    /\ UNCHANGED <<req, todo, attempt>>

\* ... and a failed Save has already moved handle and Time on.
RefreshFails(p) ==
    /\ RefreshDue(p)
    /\ MayFail("refresh")
    /\ \E n \in Name :
          /\ Fresh(n)
          /\ files' \in AfterFailedSave(n, NewFile(p, 0))
          /\ handle' = [handle EXCEPT ![p] = n]
          /\ handles' = [handles EXCEPT ![p] = @ \cup {n}]
    /\ timer' = [timer EXCEPT ![p] = 0]
    /\ UNCHANGED <<pc, req, old, todo, attempt>>

\* (Mutant of Swap: a file that could not be removed is forgotten.)
SwapForgets(p) ==
    /\ pc[p] = "swap"
    /\ files' \in {files, [files EXCEPT ![old[p]] = NoFile]}
    /\ handles' = [handles EXCEPT ![p] = @ \ {old[p]}]
    /\ old' = [old EXCEPT ![p] = NoName]
    /\ pc' = [pc EXCEPT ![p] = "held"]
    /\ UNCHANGED <<req, handle, todo, attempt, timer>>

\* ... then removes the old one; the refresher ignores an error.  The code
\* keeps a removed file's name in handles, where it makes Unlock do nothing;
\* here the name leaves handles with the file.
Swap(p) ==
    /\ pc[p] = "swap"
    /\ \/ /\ files' = [files EXCEPT ![old[p]] = NoFile]
          /\ handles' = [handles EXCEPT ![p] = @ \ {old[p]}]
       \/ /\ MayFail("swap")
          /\ UNCHANGED <<files, handles>>
    /\ old' = [old EXCEPT ![p] = NoName]
    /\ pc' = [pc EXCEPT ![p] = "held"]
    /\ UNCHANGED <<req, handle, todo, attempt, timer>>

\* The operation is over and no refresh is in flight.
Release(p) ==
    /\ pc[p] = "held"
    /\ pc' = [pc EXCEPT ![p] = "unlock"]
    /\ UNCHANGED <<files, req, handle, handles, old, todo, attempt, timer>>

\* Unlock removes every file of handles and carries on after an error.
Unlock(p) ==
    /\ pc[p] = "unlock"
    /\ \E n \in handles[p] :
          /\ files' \in {[files EXCEPT ![n] = NoFile]}
                        \cup (IF MayFail("unlock") THEN {files} ELSE {})
          /\ IF handles[p] = {n}
             THEN Forget(p)
             ELSE /\ handles' = [handles EXCEPT ![p] = @ \ {n}]
                  /\ UNCHANGED <<pc, req, handle, old, todo, attempt, timer>>

Orphans == {n \in Stored : \A p \in Proc : n \notin handles[p]}

\* Its lock files stay.
Crash(p) ==
    /\ p \in Crashable /\ pc[p] # "idle"
    /\ Cardinality(Orphans) < OrphanCap
    /\ Forget(p)
    /\ UNCHANGED files

-----------------------------------------------------------------------------
(* The operator's unlock command and the clock.                            *)

\* (Mutant of RemoveStale: every lock goes.)
RemoveAny(k) ==
    /\ \E n \in Stored : files' = [files EXCEPT ![n] = NoFile]
    /\ UNCHANGED <<pc, req, handle, handles, old, todo, attempt, timer>>

\* RemoveStale looks at every listed file on its own; a file is immutable
\* and only gets older, so looking and removing are one step.
RemoveStale(k) ==
    /\ \E n \in Stored :
          /\ files[n].key # k \/ Stale(files[n], 0)
          /\ files' = [files EXCEPT ![n] = NoFile]
    /\ UNCHANGED <<pc, req, handle, handles, old, todo, attempt, timer>>

\* How long p may go on before it moves, refreshes or stops reading.
Deadline(p) == IF req[p] \/ pc[p] # "held" THEN RefreshEvery ELSE ReadLimit

OnTime(p) ==
    pc[p] = "idle" \/ p \in Suspendable \/ timer[p] < Deadline(p)

Older(a, cap) == IF a < cap THEN a + 1 ELSE a

Tick ==
    /\ \A p \in Proc : OnTime(p)
    /\ files' = [n \in Name |->
                    IF files[n] = NoFile THEN NoFile
                    ELSE [files[n] EXCEPT !.age = Older(@, AgeCap)]]
    /\ timer' = [p \in Proc |->
                    IF pc[p] = "idle" THEN timer[p]
                    ELSE Older(timer[p], TimerCap)]
    /\ UNCHANGED <<pc, req, handle, handles, old, todo, attempt>>

Acquire(p) ==
    \/ List(p) \/ ListFails(p) \/ LoadFails(p) \/ PassReader(p)
    \/ DropStale(p) \/ DropFails(p) \/ Conflict(p) \/ CheckPasses(p)
    \/ Create(p) \/ CreateFails(p) \/ BackOut(p)

Hold(p) == Refresh(p) \/ RefreshFails(p) \/ Swap(p) \/ Release(p) \/ Unlock(p)

Next ==
    \/ \E p \in Proc :
          \/ \E exclusive \in BOOLEAN : Begin(p, exclusive)
          \/ Acquire(p) \/ Hold(p) \/ Crash(p)
    \/ \E k \in OperatorKeys : RemoveStale(k)
    \/ Tick

Spec == Init /\ [][Next]_vars

\* A command that runs keeps running; nothing promises that an operation
\* ends, that the clock ticks or that the operator acts.
FairSpec ==
    /\ Spec
    /\ \A p \in Proc : WF_vars(Acquire(p)) /\ WF_vars(Swap(p) \/ Unlock(p))

-----------------------------------------------------------------------------
(* Properties.                                                             *)

Holds(p) == pc[p] \in {"held", "swap"}
Writing == {p \in Proc : Holds(p) /\ req[p]}
Reading == {p \in Proc : Holds(p) /\ ~req[p] /\ handle[p] \in Stored}

Promise == INSTANCE RWLock WITH readers <- Reading, writers <- Writing

\* However commands interleave, die, stall, disagree about the time or lose
\* backend calls, the check-create-wait-check protocol never lets a writer in
\* beside another writer or beside a reader whose lock still exists.
Implements == Promise!LockSpec

-----------------------------------------------------------------------------
(* Why the protocol works: the inductive invariant behind Implements.      *)

Created(p) == pc[p] \in {"list2", "scan2", "held", "swap"}

\* A command knows the files it stored; they say what it asked for.
OwnFiles ==
    \A p \in Proc :
        /\ pc[p] \in {"idle", "list1", "scan1", "create"} =>
              handles[p] = {} /\ handle[p] = NoName
        /\ Created(p) \/ pc[p] = "backout" => handle[p] \in handles[p]
        /\ \A n \in handles[p] : files[n] # NoFile => files[n].excl = req[p]
        /\ \A q \in Proc : p # q => handles[p] \cap handles[q] = {}

\* From its creation to its release an exclusive request is on record, under
\* one name or another, also while a refresh swaps them.
WriterOnRecord ==
    \A p \in Proc :
        /\ Created(p) /\ req[p] => \E n \in handles[p] : files[n] # NoFile
        /\ Created(p) /\ ~req[p] => handles[p] = {handle[p]}
        /\ pc[p] = "swap" => /\ req[p] /\ files[handle[p]] # NoFile
                             /\ old[p] \in handles[p] /\ old[p] # handle[p]

\* The lock of p still counts: nothing removes a writer's files, but a stale
\* reader's file may be gone.
Alive(p) == req[p] \/ handle[p] \in Stored

\* q's second check cannot pass without noticing p or listing again.
Blocked(q, p) == \E n \in todo[q] : n \notin Stored \/ n \in handles[p]
Clear(q, p) == Holds(q) \/ (pc[q] = "scan2" /\ ~Blocked(q, p))

\* Of two commands that must not meet at most one overlooks the other.
OneOverlooks ==
    \A p, q \in Proc :
        p # q /\ (req[p] \/ req[q]) /\ Alive(p) /\ Alive(q)
            => ~(Clear(p, q) /\ Clear(q, p))

IInv == TypeOK /\ OwnFiles /\ WriterOnRecord /\ OneOverlooks

-----------------------------------------------------------------------------
(* Why time is on their side: the invariant that keeps live locks in place *)
(* where clocks agree well enough, and operations and refreshes are quick. *)

\* A lock of a command in time is young to every clock.  The operator has
\* the key the commands use, and his clock is the perfect one.
ClocksAgree ==
    \A p, q \in Proc : TimerCap + Skew[q] - Skew[p] <= StaleTimeout
OperatorInTime ==
    /\ "refresh" \notin Faults
    /\ \A p \in Proc : /\ TimerCap - Skew[p] <= StaleTimeout
                       /\ \A k \in OperatorKeys : KeyOf[p] = k
InTime ==
    Suspendable = {} /\ ClocksAgree /\ (OperatorKeys = {} \/ OperatorInTime)

\* The current lock file of a command is there, unless a refresh could not
\* store it, and it is no older than the command's timer says.
Timely ==
    \A p \in Proc : Created(p) =>
        /\ handle[p] \in Stored \/ (req[p] /\ "refresh" \in Faults)
        /\ handle[p] \in Stored => /\ files[handle[p]].key = KeyOf[p]
                                   /\ files[handle[p]].age + Skew[p] <= timer[p]

\* Before it is in, and when it backs out, a command has one lock file.
OneHandle ==
    \A p \in Proc :
        pc[p] \in {"list2", "scan2", "backout"} => handles[p] = {handle[p]}

-----------------------------------------------------------------------------
\* A writer is alone with respect to every reader still working, protected by
\* its lock file or not, and to every other writer.  Needs the operation to
\* end, or its lock to be refreshed, within the staleness window.
WritersAreAlone ==
    \A p, q \in Proc : p # q /\ Holds(p) /\ Holds(q) => ~req[p] /\ ~req[q]

\* Nobody but the holder ever removes the lock file of a command that works
\* on, as long as operations last less than the staleness window or refresh.
LiveLockKept ==
    [][\A p \in Proc :
          (Holds(p) /\ Holds(p)' /\ handle[p] \in Stored) =>
              (handle[p] \in Stored' \/ handle'[p] # handle[p])]_vars

\* Failing refreshes and failing checks leak no lock: a stored lock file
\* belongs to a command that will remove it, until that command dies.
NothingLeftBehind ==
    [][\A n \in Orphans' : n \in Orphans \/ \E p \in Proc : Crash(p)]_vars

\* A request is decided: lock.New gives up after three failing listings and
\* never waits for another command (but stops where Name is used up).
RequestsAreDecided ==
    \A p \in Proc :
        pc[p] \in {"list1", "scan1", "create", "list2", "scan2", "backout"}
            ~> \/ pc[p] = "idle" \/ Holds(p)
               \/ \A n \in Name : ~Fresh(n)
=============================================================================
