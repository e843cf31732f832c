----------------------------- MODULE BackupRun ------------------------------
(***************************************************************************)
(* One site's backup runs: backup.Runner with the site lock, the history   *)
(* database, the objects at every destination, completion markers,         *)
(* retention and the notification of the outcome.                          *)
(*                                                                         *)
(* A process takes the site lock, reads history, creates a running row,    *)
(* uploads every package to every destination, marks the set complete at   *)
(* every destination, applies retention destination by destination, writes *)
(* the outcome to history, notifies and releases the lock.  In full mode   *)
(* "files" is an archive in the flat set of the run; in incremental mode   *)
(* it is a snapshot of the repository at that destination, whose inner     *)
(* workings are the subject of RepoStore.  Runs are named by their start   *)
(* time: one per second at most, as the site lock keeps them apart.        *)
(***************************************************************************)
EXTENDS Integers, Sequences, FiniteSets, SequencesExt, FiniteSetsExt

CONSTANTS
    Proc,           \* processes that run backups of the site
    Dests,          \* its destinations, in the configured order
    Databases,      \* its enabled databases, in order
    Mode,           \* backup_mode
    KeepLast, MinInterval,
    Stamp,          \* the time a set's key is parsed back to
    Content,        \* what the sources may hold
    SizeOf,         \* the size of its package
    Unreadable,     \* TRUE when sources may be unreadable
    Faults,         \* steps that may fail
    MaxTime,        \* bound: starts of one behaviour
    MaxCrashes,     \* bound: crashes of one behaviour
    None

Time == 1 .. MaxTime
Dest == Range(Dests)
Part == {"files"} \cup Range(Databases)

ASSUME ConstantsAssumption ==
    /\ Mode \in {"full", "incremental"}
    /\ Dests \in Seq(Range(Dests)) /\ Dests # <<>>
    /\ Databases \in Seq(Range(Databases))
    /\ KeepLast \in Nat \ {0} /\ MinInterval \in Nat
    /\ MaxTime \in Nat /\ MaxCrashes \in Nat
    /\ None \notin Proc \cup Content
    /\ Unreadable \in BOOLEAN
    /\ Faults \subseteq {"create", "upload", "cancel", "mark", "retain", "finish"}
    /\ "marker" \notin Part
    /\ Stamp \in [Time -> Int] /\ IsInjective(Stamp)

VARIABLES
    siteLock,       \* the process that has the site's flock, or None
    clock,          \* starts so far
    rows,           \* backup_runs
    objects,        \* what is stored at each destination
    pc,
    run,            \* each process's row, 0 before it has one
    at,             \* its position in the list of uploads, or of destinations
    skipped,        \* TRUE when it could not read every source
    outcome,        \* what it is about to record
    told,           \* (auxiliary) what has been notified about each run
    crashes

store == <<rows, objects>>
vars == <<siteLock, clock, rows, objects, pc, run, at, skipped, outcome, told,
          crashes>>

Statuses == {"running", "success", "no_change", "partial", "failed", "cancelled"}
Row == [scope : {"full", "database_only"}, forced : BOOLEAN,
        status : Statuses, content : Content]
NoRow == [scope |-> "none", forced |-> FALSE, status |-> "none", content |-> None]

Object == [run : Time, part : Part \cup {"marker"}, whole : BOOLEAN]

Phases == {"idle", "start", "upload", "mark", "forget", "expire", "finish",
           "notify", "release"}

TypeOK ==
    /\ siteLock \in Proc \cup {None}
    /\ clock \in 0 .. MaxTime
    /\ rows \in [Time -> Row \cup {NoRow}]
    /\ objects \in [Dest -> SUBSET Object]
    /\ pc \in [Proc -> Phases]
    /\ run \in [Proc -> 0 .. MaxTime]
    /\ at \in [Proc -> Nat]
    /\ skipped \in [Proc -> BOOLEAN]
    /\ outcome \in [Proc -> Statuses \cup {"none"}]
    /\ told \in [Time -> SUBSET Statuses]
    /\ crashes \in 0 .. MaxCrashes

Init ==
    /\ siteLock = None /\ clock = 0 /\ crashes = 0
    /\ rows = [t \in Time |-> NoRow]
    /\ objects = [d \in Dest |-> {}]
    /\ pc = [p \in Proc |-> "idle"]
    /\ run = [p \in Proc |-> 0]
    /\ at = [p \in Proc |-> 0]
    /\ skipped = [p \in Proc |-> FALSE]
    /\ outcome = [p \in Proc |-> "none"]
    /\ told = [t \in Time |-> {}]

MayFail(step) == step \in Faults
Go(p, phase, i) ==
    /\ pc' = [pc EXCEPT ![p] = phase]
    /\ at' = [at EXCEPT ![p] = i]

\* The fail closure: the outcome is recorded first, then notified.
Fail(p, status) ==
    /\ Go(p, "finish", 0)
    /\ outcome' = [outcome EXCEPT ![p] = status]

FailStatus == {"failed"} \cup (IF MayFail("cancel") THEN {"cancelled"} ELSE {})

-----------------------------------------------------------------------------
(* History.                                                                *)

Succeeded(t) ==
    rows[t].status \in {"success", "no_change"} /\ rows[t].scope = "full"

\* LastSuccessful: the latest full run before t that succeeded, 0 if none.
LastSuccessful(t) == Max({0} \cup {s \in Time : s < t /\ Succeeded(s)})

-----------------------------------------------------------------------------
(* Starting.                                                               *)

\* (Mutant of TryLock: the lock is not exclusive.)
TryLockShared(p) ==
    /\ pc[p] = "idle"
    /\ siteLock' = p
    /\ Go(p, "start", 0)
    /\ UNCHANGED <<clock, store, run, skipped, outcome, told, crashes>>

\* A held lock makes the run skipped (already_running), which changes nothing.
TryLock(p) ==
    /\ pc[p] = "idle"
    /\ siteLock = None
    /\ siteLock' = p
    /\ Go(p, "start", 0)
    /\ UNCHANGED <<clock, store, run, skipped, outcome, told, crashes>>

\* The last success is too recent, or history cannot be read or written.
NotStarted(p) ==
    /\ pc[p] = "start"
    /\ clock < MaxTime
    /\ LET last == LastSuccessful(clock + 1) IN
          \/ last # 0 /\ clock + 1 - last < MinInterval
          \/ MayFail("create")
    /\ clock' = clock + 1
    /\ Go(p, "release", 0)
    /\ UNCHANGED <<siteLock, store, run, skipped, outcome, told, crashes>>

Start(p, scope, forced) ==
    /\ pc[p] = "start"
    /\ clock < MaxTime
    /\ scope = "database_only" => Databases # <<>>
    /\ LET now == clock + 1
           last == LastSuccessful(now)
       IN  /\ forced \/ last = 0 \/ now - last >= MinInterval
           /\ \E c \in Content :
                 rows' = [rows EXCEPT ![now] =
                    [scope |-> scope, forced |-> forced,
                     status |-> "running", content |-> c]]
           /\ run' = [run EXCEPT ![p] = now]
           /\ clock' = now
    /\ Go(p, "upload", 1)
    /\ UNCHANGED <<siteLock, objects, skipped, outcome, told, crashes>>

-----------------------------------------------------------------------------
(* Packages, markers.                                                      *)

Scope(p) == rows[run[p]].scope
Parts(scope) == IF scope = "full" THEN <<"files">> \o Databases ELSE Databases

\* Every package to every destination, one package after the other.
Uploads(scope) ==
    [i \in 1 .. Len(Parts(scope)) * Len(Dests) |->
        [part |-> Parts(scope)[((i - 1) \div Len(Dests)) + 1],
         dest |-> Dests[((i - 1) % Len(Dests)) + 1]]]

\* Whether a package of the files can be whole: one archive serves every
\* destination, but each snapshot reads the sources again.
Readable(p, part) ==
    IF part # "files" THEN {TRUE}
    ELSE IF Mode = "full" /\ at[p] > 1 THEN {~skipped[p]}
    ELSE {TRUE} \cup (IF Unreadable THEN {FALSE} ELSE {})

Stored(p, part, w) == [run |-> run[p], part |-> part, whole |-> w]

\* A completion marker is written where the run has a flat set.
HasSet == Mode = "full" \/ Databases # <<>>

\* (Mutant of AfterUploads: a partial run is treated like a complete one.)
AfterUploadsPartial(p, incomplete) ==
    IF Scope(p) # "full" THEN Go(p, "finish", 0)
    ELSE IF HasSet THEN Go(p, "mark", 1)
    ELSE Go(p, "forget", 1)

\* Where a run goes after its uploads: a database-only run and a partial one
\* neither mark nor prune.
AfterUploads(p, incomplete) ==
    IF Scope(p) # "full" \/ incomplete THEN Go(p, "finish", 0)
    ELSE IF HasSet THEN Go(p, "mark", 1)
    ELSE Go(p, "forget", 1)

Upload(p) ==
    /\ pc[p] = "upload"
    /\ LET u == Uploads(Scope(p)) IN
       \E w \in Readable(p, u[at[p]].part) :
          /\ objects' = [objects EXCEPT ![u[at[p]].dest] =
                            @ \cup {Stored(p, u[at[p]].part, w)}]
          /\ skipped' = [skipped EXCEPT ![p] = @ \/ ~w]
          /\ IF at[p] < Len(u) THEN Go(p, "upload", at[p] + 1)
             ELSE AfterUploads(p, skipped[p] \/ ~w)
    /\ UNCHANGED <<siteLock, clock, rows, run, outcome, told, crashes>>

\* Creating, exporting, storing or recording the package fails, or the run is
\* cancelled; the object may be there all the same.
UploadFails(p) ==
    /\ pc[p] = "upload" /\ MayFail("upload")
    /\ LET u == Uploads(Scope(p)) IN
       \E w \in Readable(p, u[at[p]].part) :
          objects' \in {objects, [objects EXCEPT ![u[at[p]].dest] =
                                     @ \cup {Stored(p, u[at[p]].part, w)}]}
    /\ \E s \in FailStatus : Fail(p, s)
    /\ UNCHANGED <<siteLock, clock, rows, run, skipped, told, crashes>>

Marked(d) == {o.run : o \in {x \in objects[d] : x.part = "marker"}}

\* (Mutant of Mark: one destination is enough to go on to retention.)
MarkFirst(p) ==
    /\ pc[p] = "mark"
    /\ objects' = [objects EXCEPT ![Dests[at[p]]] =
                      @ \cup {Stored(p, "marker", TRUE)}]
    /\ Go(p, "forget", 1)
    /\ UNCHANGED <<siteLock, clock, rows, run, skipped, outcome, told, crashes>>

Mark(p) ==
    /\ pc[p] = "mark"
    /\ objects' = [objects EXCEPT ![Dests[at[p]]] =
                      @ \cup {Stored(p, "marker", TRUE)}]
    /\ IF at[p] < Len(Dests) THEN Go(p, "mark", at[p] + 1)
       ELSE Go(p, "forget", 1)
    /\ UNCHANGED <<siteLock, clock, rows, run, skipped, outcome, told, crashes>>

MarkFails(p) ==
    /\ pc[p] = "mark" /\ MayFail("mark")
    /\ objects' \in {objects, [objects EXCEPT ![Dests[at[p]]] =
                                  @ \cup {Stored(p, "marker", TRUE)}]}
    /\ \E s \in FailStatus : Fail(p, s)
    /\ UNCHANGED <<siteLock, clock, rows, run, skipped, told, crashes>>

-----------------------------------------------------------------------------
(* Retention, destination by destination.                                  *)

Snapshots(d) ==
    {o \in objects[d] : Mode = "incremental" /\ o.part = "files"}

\* ForgetAndPrune forgets what is not among the newest KeepLast snapshots of
\* the site's tag, whatever run they are from.
Forgotten(d) ==
    {o \in Snapshots(d) :
        Cardinality({x \in Snapshots(d) : x.run > o.run}) >= KeepLast}

ForgetSnapshots(p) ==
    /\ pc[p] = "forget"
    /\ LET d == Dests[at[p]] IN
       objects' = [objects EXCEPT ![d] = @ \ Forgotten(d)]
    /\ Go(p, "expire", at[p])
    /\ UNCHANGED <<siteLock, clock, rows, run, skipped, outcome, told, crashes>>

\* Some are forgotten, then an error: a warning, or the end of a cancelled run.
ForgetFails(p) ==
    /\ pc[p] = "forget" /\ Mode = "incremental" /\ MayFail("retain")
    /\ LET d == Dests[at[p]] IN
       \E gone \in SUBSET Forgotten(d) :
          objects' = [objects EXCEPT ![d] = @ \ gone]
    /\ \/ Go(p, "expire", at[p]) /\ UNCHANGED outcome
       \/ MayFail("cancel") /\ Fail(p, "cancelled")
    /\ UNCHANGED <<siteLock, clock, rows, run, skipped, told, crashes>>

SetOf(t, d) == {o \in objects[d] : o.run = t} \ Snapshots(d)

\* retention.Apply: complete sets that KeepLast others seem to be newer than.
Expired(d) ==
    {t \in Marked(d) :
        Cardinality({s \in Marked(d) : Stamp[s] > Stamp[t]}) >= KeepLast}

\* The oldest first.
NextExpired(d) == {t \in Expired(d) : \A s \in Expired(d) : Stamp[t] <= Stamp[s]}

ExpireSet(p) ==
    /\ pc[p] = "expire"
    /\ LET d == Dests[at[p]] IN
       \E t \in NextExpired(d) :
          objects' = [objects EXCEPT ![d] = @ \ SetOf(t, d)]
    /\ UNCHANGED <<siteLock, clock, rows, pc, run, at, skipped, outcome, told,
                   crashes>>

AfterExpire(p) ==
    IF at[p] < Len(Dests) THEN Go(p, "forget", at[p] + 1)
    ELSE Go(p, "finish", 0)

\* Nothing is left to expire at this destination.
SetsExpired(p) ==
    /\ pc[p] = "expire"
    /\ Expired(Dests[at[p]]) = {}
    /\ AfterExpire(p)
    /\ UNCHANGED <<siteLock, clock, store, run, skipped, outcome, told, crashes>>

\* A set is deleted object by object, so any part of it may survive an error.
ExpireFails(p) ==
    /\ pc[p] = "expire" /\ MayFail("retain")
    /\ LET d == Dests[at[p]] IN
       \E t \in NextExpired(d) : \E gone \in SUBSET SetOf(t, d) :
          objects' = [objects EXCEPT ![d] = @ \ gone]
    /\ \/ AfterExpire(p) /\ UNCHANGED outcome
       \/ MayFail("cancel") /\ Fail(p, "cancelled")
    /\ UNCHANGED <<siteLock, clock, rows, run, skipped, told, crashes>>

-----------------------------------------------------------------------------
(* The outcome.                                                            *)

\* Full mode compares package sizes with the last successful run.
Unchanged(p) ==
    LET anchor == LastSuccessful(run[p]) IN
    /\ Mode = "full" /\ anchor # 0
    /\ SizeOf[rows[anchor].content] = SizeOf[rows[run[p]].content]

Status(p) ==
    IF outcome[p] # "none" THEN outcome[p]
    ELSE IF skipped[p] THEN "partial"
    ELSE IF Scope(p) = "full" /\ Unchanged(p) THEN "no_change"
    ELSE "success"

\* FinishRun.
Finish(p) ==
    /\ pc[p] = "finish"
    /\ rows' = [rows EXCEPT ![run[p]].status = Status(p)]
    /\ outcome' = [outcome EXCEPT ![p] = Status(p)]
    /\ Go(p, "notify", 0)
    /\ UNCHANGED <<siteLock, clock, objects, run, skipped, told, crashes>>

\* (Mutant of FinishFails: the outcome is notified although it is not known
\* to history.)
FinishFailsUnseen(p) ==
    /\ pc[p] = "finish" /\ MayFail("finish")
    /\ outcome' = [outcome EXCEPT ![p] = Status(p)]
    /\ Go(p, "notify", 0)
    /\ UNCHANGED <<siteLock, clock, store, run, skipped, told, crashes>>

\* History cannot be written: the row stays "running".  A run that did its
\* work is notified as failed, one that failed is not notified at all.
FinishFails(p) ==
    /\ pc[p] = "finish" /\ MayFail("finish")
    /\ outcome' = [outcome EXCEPT ![p] = "failed"]
    /\ IF outcome[p] = "none" THEN Go(p, "notify", 0) ELSE Go(p, "release", 0)
    /\ UNCHANGED <<siteLock, clock, store, run, skipped, told, crashes>>

\* (Mutant of Notify: the site lock is kept.)
NotifyKeepsLock(p) ==
    /\ pc[p] = "notify"
    /\ told' = [told EXCEPT ![run[p]] = @ \cup {outcome[p]}]
    /\ Go(p, "idle", 0)
    /\ UNCHANGED <<siteLock, clock, store, run, skipped, outcome, crashes>>

\* Sources that only disappeared leave a partial run unannounced.
Notify(p) ==
    /\ pc[p] = "notify"
    /\ told' \in {[told EXCEPT ![run[p]] = @ \cup {outcome[p]}]}
                 \cup (IF outcome[p] = "partial" THEN {told} ELSE {})
    /\ Go(p, "release", 0)
    /\ UNCHANGED <<siteLock, clock, store, run, skipped, outcome, crashes>>

End(p) ==
    /\ siteLock' = IF siteLock = p THEN None ELSE siteLock
    /\ Go(p, "idle", 0)
    /\ run' = [run EXCEPT ![p] = 0]
    /\ skipped' = [skipped EXCEPT ![p] = FALSE]
    /\ outcome' = [outcome EXCEPT ![p] = "none"]

Release(p) ==
    /\ pc[p] = "release"
    /\ End(p)
    /\ UNCHANGED <<clock, store, told, crashes>>

\* The kernel drops a dead process's flock; its row and objects stay.
Crash(p) ==
    /\ pc[p] # "idle"
    /\ crashes < MaxCrashes
    /\ crashes' = crashes + 1
    /\ End(p)
    /\ UNCHANGED <<clock, store, told>>

Step(p) ==
    \/ NotStarted(p)
    \/ \E scope \in {"full", "database_only"}, forced \in BOOLEAN :
          Start(p, scope, forced)
    \/ Upload(p) \/ UploadFails(p) \/ Mark(p) \/ MarkFails(p)
    \/ ForgetSnapshots(p) \/ ForgetFails(p)
    \/ ExpireSet(p) \/ SetsExpired(p) \/ ExpireFails(p)
    \/ Finish(p) \/ FinishFails(p) \/ Notify(p) \/ Release(p)

Next == \E p \in Proc : TryLock(p) \/ Step(p) \/ Crash(p)

Spec == Init /\ [][Next]_vars

\* A process that got the lock runs on; nothing makes anybody start one.
FairSpec == Spec /\ \A p \in Proc : WF_vars(Step(p))

-----------------------------------------------------------------------------
(* Properties.                                                             *)

\* The flat set of run t at d can be restored as a whole.
WholeSet(t, d) ==
    \A part \in (IF Mode = "full" THEN Part ELSE Part \ {"files"}) \cup {"marker"} :
        [run |-> t, part |-> part, whole |-> TRUE] \in objects[d]

WholeSnapshot(t, d) == [run |-> t, part |-> "files", whole |-> TRUE] \in objects[d]

\* "Only marked sets count toward keep_last; failed or partial sets cannot
\* evict a completed recovery point" (architecture.md): the set of a run that
\* history calls successful is at every destination until KeepLast newer
\* complete sets are there.
SuccessfulSetsKept ==
    HasSet => \A t \in Time, d \in Dest :
        Succeeded(t) =>
            \/ WholeSet(t, d)
            \/ Cardinality({s \in Time : s > t /\ WholeSet(s, d)}) >= KeepLast

\* The same of the snapshots of an incremental site: "partial backups never
\* prune complete recovery sets" (README).
SuccessfulSnapshotsKept ==
    Mode = "incremental" => \A t \in Time, d \in Dest :
        Succeeded(t) =>
            \/ WholeSnapshot(t, d)
            \/ Cardinality({s \in Time : s > t /\ WholeSnapshot(s, d)}) >= KeepLast

\* Nothing of another run disappears from a destination before the running
\* one is complete at every destination.
PruneAfterCommit ==
    [][\A d \in Dest : \A o \in objects[d] \ objects'[d] :
          /\ siteLock # None /\ o.run # run[siteLock]
          /\ HasSet => \A e \in Dest : WholeSet(run[siteLock], e)]_vars

\* A run that is not forced starts only MinInterval after a success, also
\* when several processes try at once.
RunsAreSpaced ==
    \A t \in Time : rows[t] # NoRow /\ ~rows[t].forced =>
        \A s \in Time : s < t /\ Succeeded(s) => t - s >= MinInterval

\* People hear of a success only when history knows of it, and of one outcome
\* per run.
ToldAsRecorded ==
    \A t \in Time : \A s \in told[t] :
        told[t] = {s} /\ (rows[t].status = s \/ (s = "failed" /\
                                                 rows[t].status = "running"))

\* Without crashes and with a history that can be written, every run gets an
\* outcome and the site is free again for the next one.
RunsConclude ==
    \A t \in Time : rows[t].status = "running" ~>
                        rows[t].status # "running" /\ siteLock = None
=============================================================================
