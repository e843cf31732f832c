----------------------------- MODULE FlatStore ------------------------------
(***************************************************************************)
(* One destination of a full-mode site, seen through the storage adapters: *)
(* a run stores its packages and then the completion marker (Store.put),   *)
(* retention lists the backup sets and deletes the oldest (Store.Delete),  *)
(* and `backup check`, which takes no lock, verifies what the history says *)
(* is stored (Store.VerifyPackage).  Behind it is a directory (local) or a *)
(* bucket (s3), whose calls fail, time out after they took effect and are  *)
(* retried by the SDK.  What `bqckup` did not do - a lifecycle rule, a     *)
(* failing disk, an operator - may damage objects.                         *)
(*                                                                         *)
(* The site lock lets one run at a time get here (BackupRun).              *)
(***************************************************************************)
EXTENDS Integers, Sequences, FiniteSets

CONSTANTS
    Kinds,          \* adapters a destination may have: "local", "s3"
    PackageSeq,     \* the packages of a run, in the order they are stored
    KeepLast,       \* keep_last of the site
    Prefixed,       \* TRUE: the s3 storage document has a prefix
    Faults,         \* what may go wrong, see MayFail
    MaxRun,         \* bound: runs ever started
    MaxAttempts,    \* bound: attempts of one upload (10 in the code)
    MaxDamage       \* bound: objects damaged from outside

Part == {PackageSeq[i] : i \in DOMAIN PackageSeq}
Run == 1 .. MaxRun

ASSUME FlatAssumption ==
    /\ Kinds \subseteq {"local", "s3"} /\ Kinds # {}
    /\ "marker" \notin Part
    /\ PackageSeq \in Seq(Part) /\ Part # {}
    /\ \A i, j \in DOMAIN PackageSeq : PackageSeq[i] = PackageSeq[j] => i = j
    /\ KeepLast \in Nat \ {0}
    /\ Prefixed \in BOOLEAN
    /\ MaxRun \in Nat /\ MaxAttempts \in Nat \ {0} /\ MaxDamage \in Nat

\* A key is a run's time and ID with a package's name: never used twice.
Key == Run \X (Part \cup {"marker"})

\* short: a size other than the recorded one; rotten: the size is right, the
\* bytes are not.
Content == {"absent", "whole", "short", "rotten"}

VARIABLES
    kind,           \* the adapter of the destination
    objects,        \* what is under each key
    damaged,        \* keys damaged from outside (and not deleted since)
    successful,     \* runs the history has as successful (or unchanged)
    recorded,       \* packages of each run recorded as stored
    started,        \* the last run that was started
    pc,             \* what the running process is doing
    at,             \* which object of the run it stores
    tries,          \* failed attempts of the upload
    expired,        \* retention: sets still to delete, oldest first
    left,           \* objects of the set being deleted, as listed
    warned,         \* retention reported an error
    check           \* the latest `backup check`

runVars == <<started, pc, at, tries>>
retainVars == <<expired, left, warned>>
history == <<successful, recorded>>
store == <<objects, damaged>>
vars == <<kind, store, history, runVars, retainVars, check>>

MayFail(what) == what \in Faults

\* The objects of a run: its packages, then the marker.
ObjectSeq == Append(PackageSeq, "marker")
Target == <<started, ObjectSeq[at]>>

Present == {k \in Key : objects[k] # "absent"}
Marked == {r \in Run : <<r, "marker">> \in Present}
Newer(r, sets) == {s \in sets : s > r}

NoCheck == [phase |-> "idle", run |-> 0, deep |-> FALSE, todo |-> {},
            bad |-> FALSE, sick |-> {}, unsure |-> FALSE]

Init ==
    /\ kind \in Kinds
    /\ objects = [k \in Key |-> "absent"] /\ damaged = {}
    /\ successful = {} /\ recorded = [r \in Run |-> {}]
    /\ started = 0 /\ pc = "idle" /\ at = 1 /\ tries = 0
    /\ expired = {} /\ left = {} /\ warned = FALSE
    /\ check = NoCheck

-----------------------------------------------------------------------------
(* A run: storePackage for each package, then storeCompletionMarker.       *)

Begin ==
    /\ pc = "idle" /\ started < MaxRun
    /\ started' = started + 1
    /\ pc' = "put" /\ at' = 1 /\ tries' = 0 /\ warned' = FALSE
    /\ UNCHANGED <<kind, store, history, expired, left, check>>

\* The run is over.
Ends ==
    /\ pc' = "idle" /\ at' = 1 /\ tries' = 0
    /\ expired' = {} /\ left' = {} /\ warned' = FALSE
    /\ UNCHANGED <<kind, started, recorded, check>>

\* With an error, or without having put its success on record.
Fails == Ends /\ UNCHANGED successful

\* put has returned the stored package.
Accepted == pc' = IF ObjectSeq[at] = "marker" THEN "list" ELSE "record"

\* inspectPackage (s3), Lstat and the staging copy (local): the package on disk
\* has the size and checksum it was created with, and the key is free.
Inspect ==
    /\ pc = "put"
    /\ (kind = "local" => Target \notin Present)
    /\ pc' = IF kind = "local" THEN "publish" ELSE "send"
    /\ tries' = 0
    /\ UNCHANGED <<kind, store, history, started, at, retainVars, check>>

InspectFails ==
    /\ pc = "put" /\ (MayFail("inspect") \/ (kind = "local" /\ Target \in Present))
    /\ Fails
    /\ UNCHANGED store

-----------------------------------------------------------------------------
(* The s3 adapter.                                                         *)

\* What a service stores of an upload; it may lose bytes and not say so.
Received == {"whole"} \cup (IF MayFail("mangle") THEN {"short"} ELSE {})

\* A conditional upload (If-None-Match) arrives and is confirmed.
Send ==
    /\ pc = "send" /\ Target \notin Present
    /\ \E c \in Received : objects' = [objects EXCEPT ![Target] = c]
    /\ pc' = "head"
    /\ UNCHANGED <<kind, damaged, history, started, at, tries, retainVars, check>>

\* The key is taken - by an earlier attempt of the same upload whose response
\* was lost: ErrObjectExists, not retried.
SendCollides ==
    /\ pc = "send" /\ Target \in Present
    /\ Fails
    /\ UNCHANGED store

\* A request or its response is lost; the SDK tries again a few times.
SendIsLost ==
    /\ pc = "send" /\ MayFail("send")
    /\ \/ UNCHANGED objects
       \/ /\ Target \notin Present
          /\ \E c \in Received : objects' = [objects EXCEPT ![Target] = c]
    /\ \/ /\ tries + 1 < MaxAttempts
          /\ tries' = tries + 1
          /\ UNCHANGED <<kind, history, started, pc, at, retainVars, check>>
       \/ tries + 1 = MaxAttempts /\ Fails
    /\ UNCHANGED damaged

\* verifyRemote compares size and metadata, not bytes.
LooksWhole(k) == objects[k] \in {"whole", "rotten"}

\* (Mutant of Verified: no verification after the upload.)
VerifiedBlindly ==
    /\ pc = "head"
    /\ Accepted
    /\ UNCHANGED <<kind, store, history, started, at, tries, retainVars, check>>

Verified ==
    /\ pc = "head" /\ LooksWhole(Target)
    /\ Accepted
    /\ UNCHANGED <<kind, store, history, started, at, tries, retainVars, check>>

\* HeadObject fails, or shows something else: the object is deleted again, if
\* that works, and the package is not stored.
Unverified ==
    /\ pc = "head"
    /\ ~LooksWhole(Target) \/ MayFail("head")
    /\ \/ /\ objects' = [objects EXCEPT ![Target] = "absent"]
          /\ damaged' = damaged \ {Target}
       \/ MayFail("cleanup") /\ UNCHANGED store
    /\ Fails

-----------------------------------------------------------------------------
(* The local adapter: rename without replacing, then sync the directory.   *)

Publish ==
    /\ pc = "publish" /\ Target \notin Present
    /\ objects' = [objects EXCEPT ![Target] = "whole"]
    /\ pc' = "sync"
    /\ UNCHANGED <<kind, damaged, history, started, at, tries, retainVars, check>>

PublishFails ==
    /\ pc = "publish" /\ (MayFail("send") \/ Target \in Present)
    /\ Fails
    /\ UNCHANGED store

Sync ==
    /\ pc = "sync"
    /\ Accepted
    /\ UNCHANGED <<kind, store, history, started, at, tries, retainVars, check>>

SyncFails ==
    /\ pc = "sync" /\ MayFail("head")
    /\ Fails
    /\ UNCHANGED store

-----------------------------------------------------------------------------
\* CreatePackage puts the stored package on record; the next one, or the
\* marker, follows.
Record ==
    /\ pc = "record"
    /\ recorded' = [recorded EXCEPT ![started] = @ \cup {ObjectSeq[at]}]
    /\ pc' = "put" /\ at' = at + 1
    /\ UNCHANGED <<kind, store, successful, started, tries, retainVars, check>>

RecordFails ==
    /\ pc = "record" /\ MayFail("record")
    /\ Fails
    /\ UNCHANGED store

-----------------------------------------------------------------------------
(* retention.Apply: list the sets, delete the oldest complete ones.        *)

\* (Mutant of Expired: one set too few is deleted.)
ExpiredLate == {r \in Marked : Cardinality(Newer(r, Marked)) > KeepLast}

\* (Mutant of Expired: KeepLast counts the set itself.)
ExpiredEarly ==
    {r \in Marked : Cardinality(Newer(r, Marked)) + 1 >= KeepLast}

\* Complete sets beyond the newest KeepLast.
Expired == {r \in Marked : Cardinality(Newer(r, Marked)) >= KeepLast}

ListSets ==
    /\ pc = "list"
    /\ expired' = Expired
    /\ pc' = "expire"
    /\ UNCHANGED <<kind, store, history, started, at, tries, left, warned, check>>

\* An error of retention is a warning in the history; the run goes on to its
\* end, and what was not deleted stays.
Warned ==
    /\ warned' = TRUE /\ expired' = {} /\ left' = {}
    /\ pc' = "finish"

ListFails ==
    /\ pc = "list" /\ MayFail("retain")
    /\ Warned
    /\ UNCHANGED <<kind, store, history, started, at, tries, check>>

\* Delete(oldest): what is listed under the set's prefix.
DeleteSet ==
    /\ pc = "expire" /\ expired # {}
    /\ \E r \in expired :
          /\ \A s \in expired : r <= s
          /\ left' = {k \in Present : k[1] = r}
          /\ expired' = expired \ {r}
    /\ pc' = "delete"
    /\ UNCHANGED <<kind, store, history, started, at, tries, warned, check>>

\* (Mutant of NextDeleted: files go in any order.)
AnyDeleted == left

\* Local files go in the order of their names, in which a marker's dot comes
\* before a package; the bucket deletes a batch in an order of its own.
NextDeleted ==
    IF kind = "local" /\ \E k \in left : k[2] = "marker"
    THEN {k \in left : k[2] = "marker"}
    ELSE left

DeleteObject ==
    /\ pc = "delete"
    /\ \E k \in NextDeleted :
          /\ (kind = "local" => k \in Present)
          /\ objects' = [objects EXCEPT ![k] = "absent"]
          /\ damaged' = damaged \ {k}
          /\ left' = left \ {k}
    /\ UNCHANGED <<kind, history, runVars, expired, warned, check>>

\* A file that is gone is an error too; a batch ignores a missing object.
DeleteFails ==
    /\ pc = "delete"
    /\ \/ MayFail("retain")
       \/ (kind = "local" /\ \E k \in NextDeleted : k \notin Present)
    /\ Warned
    /\ UNCHANGED <<kind, store, history, started, at, tries, check>>

SetDeleted ==
    /\ pc = "delete" /\ left = {}
    /\ pc' = "expire"
    /\ UNCHANGED <<kind, store, history, started, at, tries, retainVars, check>>

Retained ==
    /\ pc = "expire" /\ expired = {}
    /\ pc' = "finish"
    /\ UNCHANGED <<kind, store, history, started, at, tries, retainVars, check>>

\* FinishRun with success; if that fails the run counts as one that failed.
Finish ==
    /\ pc = "finish"
    /\ \/ successful' = successful \cup {started}
       \/ MayFail("record") /\ UNCHANGED successful
    /\ Ends
    /\ UNCHANGED store

\* The process dies, or the run is cancelled and its end is not recorded.
Crash ==
    /\ MayFail("crash") /\ pc # "idle"
    /\ Fails
    /\ UNCHANGED store

-----------------------------------------------------------------------------
(* `backup check`, beside whatever runs: Checker.checkFull.                *)

\* What VerifyPackage can see of an object: its size, or all of it.
Passes(k, deep) == objects[k] = "whole" \/ (~deep /\ LooksWhole(k))

\* The packages of the latest successful run are to be verified.
CheckBegin ==
    /\ check.phase # "verify"
    /\ \E deep \in BOOLEAN :
          check' =
            IF successful = {}
            THEN [NoCheck EXCEPT !.phase = "done", !.bad = TRUE, !.deep = deep]
            ELSE LET r == CHOOSE s \in successful : Newer(s, successful) = {}
                     keys == {r} \X recorded[r]
                 IN  [NoCheck EXCEPT !.phase = "verify", !.run = r,
                        !.deep = deep, !.todo = keys,
                        !.sick = {k \in keys : objects[k] # "whole" /\
                                       (deep \/ objects[k] # "rotten")}]
    /\ UNCHANGED <<kind, store, history, runVars, retainVars>>

\* (Mutant of FindsRecorded: as if every bucket had a prefix.)
FindsLocalOnly == kind = "local"

\* The history records the key of a local object below the storage directory,
\* but that of an s3 object in its bucket, with the prefix in front, and
\* VerifyPackage puts the prefix in front of it: another object, never there.
FindsRecorded == kind = "local" \/ ~Prefixed

VerifyPackage(k) ==
    /\ check.phase = "verify" /\ k \in check.todo
    /\ \/ check' = [check EXCEPT !.todo = @ \ {k},
                       !.bad = @ \/ ~FindsRecorded \/ ~Passes(k, check.deep)]
       \/ /\ MayFail("verify")
          /\ check' = [check EXCEPT !.todo = @ \ {k}, !.bad = TRUE,
                                   !.unsure = TRUE]
    /\ UNCHANGED <<kind, store, history, runVars, retainVars>>

CheckEnd ==
    /\ check.phase = "verify" /\ check.todo = {}
    /\ check' = [check EXCEPT !.phase = "done"]
    /\ UNCHANGED <<kind, store, history, runVars, retainVars>>

-----------------------------------------------------------------------------
\* An object that put has returned is lost, cut short or changed.
InFlight == pc \in {"send", "head", "publish", "sync"}

Damage ==
    /\ Cardinality(damaged) < MaxDamage
    /\ \E k \in Present, c \in Content \ {"whole"} :
          /\ objects[k] = "whole" /\ ~(InFlight /\ k = Target)
          /\ objects' = [objects EXCEPT ![k] = c]
          /\ damaged' = damaged \cup {k}
    /\ UNCHANGED <<kind, history, runVars, retainVars, check>>

StoreNext ==
    \/ Inspect \/ InspectFails \/ Send \/ SendCollides \/ SendIsLost
    \/ Verified \/ Unverified \/ Publish \/ PublishFails \/ Sync \/ SyncFails
    \/ Record \/ RecordFails

RetainNext ==
    \/ ListSets \/ ListFails \/ DeleteSet \/ DeleteObject \/ DeleteFails
    \/ SetDeleted \/ Retained

CheckNext ==
    \/ CheckBegin \/ (\E k \in check.todo : VerifyPackage(k)) \/ CheckEnd

Next == Begin \/ StoreNext \/ RetainNext \/ Finish \/ Crash \/ CheckNext \/ Damage

Spec == Init /\ [][Next]_vars

-----------------------------------------------------------------------------
\* What the variables hold, between the steps of every process.
TypeOK ==
    /\ kind \in Kinds
    /\ objects \in [Key -> Content] /\ damaged \subseteq Key
    /\ successful \subseteq Run
    /\ recorded \in [Run -> SUBSET Part]
    /\ started \in 0 .. MaxRun
    /\ pc \in {"idle", "put", "send", "head", "publish", "sync", "record",
               "list", "expire", "delete", "finish"}
    /\ at \in DOMAIN ObjectSeq /\ tries \in 0 .. MaxAttempts - 1
    /\ expired \subseteq Run /\ left \subseteq Key /\ warned \in BOOLEAN
    /\ check \in [phase : {"idle", "verify", "done"}, run : 0 .. MaxRun,
                  deep : BOOLEAN, todo : SUBSET Key, bad : BOOLEAN,
                  sick : SUBSET Key, unsure : BOOLEAN]

\* As far as bqckup is concerned.
Intact(k) == objects[k] = "whole" \/ k \in damaged
Complete(r) == r \in Marked \/ <<r, "marker">> \in damaged
Completed == {r \in Run : Complete(r)}

\* Whether a set is complete is decided by its marker alone (ListBackupSets),
\* so a marker must not lie: each of the newest KeepLast sets with a marker has
\* all its packages, whatever failed while it was stored or others deleted; in
\* a local destination, where the marker goes first, every set has.
MarkersNeverLie ==
    \A r \in Marked :
        (kind = "local" \/ Cardinality(Newer(r, Completed)) < KeepLast)
            => \A p \in Part : Intact(<<r, p>>)

\* What the history says is stored (CreatePackage) is there, and whole, until
\* retention may take it: uploads are verified before they are recorded.
HistoryMatchesStorage ==
    \A r \in Run : \A p \in recorded[r] :
        Intact(<<r, p>>) \/ Cardinality(Newer(r, Completed)) >= KeepLast

\* A run that reports no warning has left KeepLast complete sets at most.
FewSetsRemain ==
    pc = "finish" /\ ~warned => Cardinality(Marked) <= KeepLast

\* The sets a destination promises to keep are recovery points: once a set is
\* complete, nothing but KeepLast newer ones takes it away.  A set is one when
\* the put of its marker has returned, with an error or without.
KeptSets ==
    {r \in Completed : /\ ~(InFlight /\ Target = <<r, "marker">>)
                       /\ \A p \in Part : Intact(<<r, p>>)}

Points == INSTANCE RecoveryPoints
              WITH Tag <- {"site"},
                   points <- {[tag |-> "site", time |-> r] : r \in KeptSets}
KeepsRecoveryPoints == Points!PointsSpec

\* A check reports problems only if the destination could not be asked, a
\* package was damaged, or later sets have displaced the run it looked at.
AlarmsAreReal ==
    check.phase = "done" /\ check.bad /\ check.run # 0 =>
        \/ check.unsure
        \/ \E k \in damaged : k[1] = check.run
        \/ Cardinality(Newer(check.run, Completed)) >= KeepLast

\* A check finds what is wrong with the run it looks at when it begins: a
\* package that is missing or has another size, and with --read-data also one
\* that has other bytes.
DamageIsFound ==
    check.phase = "done" /\ check.sick # {} => check.bad

\* The verdict of `backup check` means what its exit status says, both ways.
CheckTellsTruth == AlarmsAreReal /\ DamageIsFound
=============================================================================
