-------------------------- MODULE BackupRunProofs ---------------------------
(***************************************************************************)
(* Proofs about BackupRun, for any processes, destinations, databases,     *)
(* contents, keep_last and min_interval, whichever steps fail and whenever *)
(* a process dies.                                                         *)
(*                                                                         *)
(* Whoever is not idle has the site lock, so a step of one process sees    *)
(* every other one idle, and its run is the newest there is.  What a run   *)
(* has stored so far is counted by its place in the list of uploads; once  *)
(* it is through, its set is whole at every destination, and it stays so   *)
(* while it prunes, since retention never takes the newest set.            *)
(***************************************************************************)
EXTENDS BackupRun, FiniteSetTheorems, SequenceTheorems, WellFoundedInduction, TLAPS

Working == {"upload", "mark", "forget", "expire", "finish"}

\* Whoever is not idle has the lock; who has no run yet has nothing else.
Locked ==
    /\ \A p \in Proc : pc[p] # "idle" => siteLock = p
    /\ \A p \in Proc : pc[p] \in {"idle", "start"} =>
          run[p] = 0 /\ ~skipped[p] /\ outcome[p] = "none"

\* A run at work is the newest, and history and people know nothing of it yet
\* but that it runs.
AtWork ==
    \A p \in Proc : pc[p] \in Working =>
        /\ run[p] = clock /\ clock \in Time
        /\ rows[clock] \in Row /\ rows[clock].status = "running"
        /\ told[clock] = {}
        /\ outcome[p] \in IF pc[p] = "finish" THEN {"none", "failed", "cancelled"}
                                              ELSE {"none"}

\* What a run is about to tell is what history has of it.
AtNotice ==
    \A p \in Proc : pc[p] = "notify" =>
        /\ run[p] = clock /\ clock \in Time
        /\ told[clock] = {} /\ outcome[p] \in Statuses
        /\ \/ rows[clock].status = outcome[p]
           \/ outcome[p] = "failed" /\ rows[clock].status = "running"

\* Where a run is in its list of uploads, or of destinations.
AtPlace ==
    \A p \in Proc :
        /\ pc[p] = "upload" =>
              /\ Scope(p) = "database_only" => Databases # <<>>
              /\ at[p] \in 1 .. Len(Uploads(Scope(p)))
        /\ pc[p] \in {"mark", "forget", "expire"} => at[p] \in 1 .. Len(Dests)

\* There is nothing of a run that has not been started.
NoFuture ==
    /\ \A t \in Time : t > clock => rows[t] = NoRow /\ told[t] = {}
    /\ \A d \in Dest : \A o \in objects[d] : o.run <= clock

Control ==
    /\ TypeOK
    /\ Locked
    /\ AtWork
    /\ AtNotice
    /\ AtPlace
    /\ NoFuture
    /\ RunsAreSpaced
    /\ ToldAsRecorded

-----------------------------------------------------------------------------
(* The list of uploads.                                                    *)

LEMMA TimesMonotonic ==
    ASSUME NEW n \in Nat, NEW a \in Nat, NEW b \in Nat, a <= b
    PROVE  n * a <= n * b
<1>1. b - a \in Nat
    OBVIOUS
<1>2. n * (b - a) \in Nat
    BY <1>1
<1>3. n * b = n * a + n * (b - a)
    OBVIOUS
<1>4. n * a \in Nat /\ n * b \in Nat
    OBVIOUS
<1> QED
    BY <1>2, <1>3, <1>4

\* A row and a place in it are where they are counted to be.
LEMMA OneRow ==
    ASSUME NEW n \in Nat \ {0}, NEW a \in Nat, NEW b \in 0 .. n - 1,
           NEW q \in Nat, NEW r \in 0 .. n - 1, n * a + b = n * q + r
    PROVE  a = q /\ b = r
<1>1. n * a \in Nat /\ n * q \in Nat
    OBVIOUS
<1>2. ~(q > a)
    <2> SUFFICES ASSUME q > a PROVE FALSE
        OBVIOUS
    <2>1. n * (a + 1) <= n * q
        BY TimesMonotonic
    <2>2. n * (a + 1) = n * a + n
        OBVIOUS
    <2> QED
        BY <2>1, <2>2, <1>1
<1>3. ~(q < a)
    <2> SUFFICES ASSUME q < a PROVE FALSE
        OBVIOUS
    <2>1. n * (q + 1) <= n * a
        BY TimesMonotonic
    <2>2. n * (q + 1) = n * q + n
        OBVIOUS
    <2> QED
        BY <2>1, <2>2, <1>1
<1>4. a = q
    BY <1>2, <1>3
<1> QED
    BY <1>4, <1>1

LEMMA Division ==
    ASSUME NEW n \in Nat \ {0}, NEW x \in Nat
    PROVE  x \div n \in Nat /\ x % n \in 0 .. n - 1 /\ x = n * (x \div n) + (x % n)
OBVIOUS

LEMMA Rows ==
    ASSUME NEW n \in Nat \ {0}, NEW a \in Nat, NEW b \in 0 .. n - 1
    PROVE  (n * a + b) \div n = a /\ (n * a + b) % n = b
<1>1. n * a + b \in Nat
    OBVIOUS
<1>2. PICK x \in Nat : x = n * a + b
    BY <1>1
<1> QED
    BY <1>2, Division, OneRow

LEMMA DestsAre ==
    /\ Len(Dests) \in Nat \ {0}
    /\ \A i \in 1 .. Len(Dests) : Dests[i] \in Dest
    /\ \A d \in Dest : \E i \in 1 .. Len(Dests) : d = Dests[i]
<1>1. Dests \in Seq(Dest) /\ Dests # <<>>
    BY ConstantsAssumption DEF Dest
<1>2. Len(Dests) \in Nat \ {0} /\ DOMAIN Dests = 1 .. Len(Dests)
    BY <1>1, LenProperties, EmptySeq
<1> QED
    BY <1>2 DEF Dest, Range

LEMMA PartsAre ==
    ASSUME NEW scope \in {"full", "database_only"},
           scope = "database_only" => Databases # <<>>
    PROVE  /\ Len(Parts(scope)) \in Nat \ {0}
           /\ \A i \in 1 .. Len(Parts(scope)) : Parts(scope)[i] \in Part
           /\ scope = "full" =>
                 \A part \in Part : \E i \in 1 .. Len(Parts(scope)) : part = Parts(scope)[i]
<1>1. Databases \in Seq(Range(Databases))
    BY ConstantsAssumption
<1>2. Databases \in Seq(Part) /\ <<"files">> \in Seq(Part)
    BY <1>1, SeqMonotonic DEF Part
<1>3. /\ Len(Databases) \in Nat /\ DOMAIN Databases = 1 .. Len(Databases)
      /\ \A i \in 1 .. Len(Databases) : Databases[i] \in Part
    BY <1>1, LenProperties DEF Part, Range
<1>4. CASE scope = "full"
    <2>1. Parts(scope) = <<"files">> \o Databases
        BY <1>4 DEF Parts
    <2>2. /\ Len(Parts(scope)) = 1 + Len(Databases)
          /\ \A i \in 1 .. 1 + Len(Databases) :
                Parts(scope)[i] = IF i <= 1 THEN <<"files">>[i] ELSE Databases[i - 1]
        BY <1>2, <2>1, ConcatProperties
    <2>3. \A i \in 1 .. 1 + Len(Databases) : Parts(scope)[i] \in Part
        BY <1>3, <2>2 DEF Part
    <2>4. ASSUME NEW part \in Part
          PROVE  \E i \in 1 .. 1 + Len(Databases) : part = Parts(scope)[i]
        <3>1. CASE part = "files"
            BY <3>1, <2>2, <1>3
        <3>2. CASE part \in Range(Databases)
            <4>1. PICK j \in 1 .. Len(Databases) : part = Databases[j]
                BY <3>2, <1>3 DEF Range
            <4>2. j + 1 \in 1 .. 1 + Len(Databases) /\ Parts(scope)[j + 1] = part
                BY <4>1, <2>2, <1>3
            <4> QED
                BY <4>2
        <3> QED
            BY <3>1, <3>2 DEF Part
    <2> QED
        BY <2>2, <2>3, <2>4, <1>3
<1>5. CASE scope = "database_only"
    BY <1>5, <1>1, <1>3, EmptySeq DEF Parts
<1> QED
    BY <1>4, <1>5

\* Every upload is of a part to a destination, and of a full run every part
\* goes to every destination.
LEMMA UploadsAre ==
    ASSUME NEW scope \in {"full", "database_only"},
           scope = "database_only" => Databases # <<>>
    PROVE  /\ Len(Uploads(scope)) \in Nat \ {0}
           /\ \A i \in 1 .. Len(Uploads(scope)) :
                 Uploads(scope)[i].part \in Part /\ Uploads(scope)[i].dest \in Dest
           /\ scope = "full" => \A part \in Part, d \in Dest :
                 \E i \in 1 .. Len(Uploads(scope)) :
                    Uploads(scope)[i].part = part /\ Uploads(scope)[i].dest = d
<1> DEFINE n == Len(Dests)
           m == Len(Parts(scope))
           u == Uploads(scope)
           U == [part : Part, dest : Dest]
<1>1. /\ n \in Nat \ {0}
      /\ \A i \in 1 .. n : Dests[i] \in Dest
      /\ \A d \in Dest : \E i \in 1 .. n : d = Dests[i]
    BY DestsAre
<1>2. /\ m \in Nat \ {0}
      /\ \A i \in 1 .. m : Parts(scope)[i] \in Part
      /\ scope = "full" => \A part \in Part : \E i \in 1 .. m : part = Parts(scope)[i]
    BY PartsAre
<1>3. m * n \in Nat \ {0}
    BY <1>1, <1>2
<1>4. u = [i \in 1 .. m * n |->
              [part |-> Parts(scope)[((i - 1) \div n) + 1],
               dest |-> Dests[((i - 1) % n) + 1]]]
    BY DEF Uploads
<1>5. ASSUME NEW i \in 1 .. m * n
      PROVE  ((i - 1) \div n) + 1 \in 1 .. m /\ ((i - 1) % n) + 1 \in 1 .. n
    <2> DEFINE q == (i - 1) \div n
               r == (i - 1) % n
    <2>1. q \in Nat /\ r \in 0 .. n - 1 /\ i - 1 = n * q + r
        <3>1. i - 1 \in Nat /\ n \in Nat \ {0}
            BY <1>1, <1>3
        <3> HIDE DEF n
        <3> QED
            BY <3>1, Division
    <2> HIDE DEF q, r
    <2>2. ~(q >= m)
        <3> SUFFICES ASSUME q >= m PROVE FALSE
            OBVIOUS
        <3>1. n * m <= n * q
            BY <2>1, <1>1, <1>2, TimesMonotonic
        <3>2. n * m = m * n /\ n * q \in Nat
            BY <2>1, <1>1, <1>2
        <3>3. n * q + r = i - 1 /\ i - 1 < m * n /\ m * n \in Nat
            BY <2>1, <1>3
        <3> HIDE DEF m, n
        <3> QED
            BY <3>1, <3>2, <3>3, <2>1, <1>1, <1>2
    <2>3. q + 1 \in 1 .. m /\ r + 1 \in 1 .. n
        BY <2>1, <2>2, <1>1, <1>2
    <2> QED
        BY <2>3 DEF q, r
<1>6. \A i \in 1 .. m * n : u[i] \in U
    BY <1>4, <1>5, <1>1, <1>2
<1>7. u \in Seq(U) /\ Len(u) = m * n
    <2>1. u \in [1 .. m * n -> U]
        BY <1>4, <1>6
    <2>2. u \in Seq(U)
        <3>1. PICK k \in Nat : k = m * n
            BY <1>3
        <3>2. u \in UNION {[1 .. j -> U] : j \in Nat}
            <4> HIDE DEF u, U
            <4> QED
                BY <3>1, <2>1
        <3> QED
            BY <3>2, SeqDef
    <2> QED
        BY <2>1, <2>2, <1>3, LenProperties
<1>8. ASSUME scope = "full", NEW part \in Part, NEW d \in Dest
      PROVE  \E i \in 1 .. m * n : u[i].part = part /\ u[i].dest = d
    <2>1. PICK a \in 1 .. m : part = Parts(scope)[a]
        BY <1>8, <1>2
    <2>2. PICK b \in 1 .. n : d = Dests[b]
        BY <1>1
    <2> DEFINE i == n * (a - 1) + (b - 1) + 1
    <2>3. a - 1 \in Nat /\ b - 1 \in 0 .. n - 1
        BY <1>1, <1>2
    <2>4. (i - 1) \div n = a - 1 /\ (i - 1) % n = b - 1
        <3>1. i - 1 = n * (a - 1) + (b - 1)
            BY <2>3, <1>1
        <3> QED
            BY <3>1, <2>3, <1>1, Rows
    <2>5. i \in 1 .. m * n
        <3>1. n * (a - 1) \in Nat /\ n * (a - 1) <= n * (m - 1)
            <4>1. a - 1 \in Nat /\ m - 1 \in Nat /\ a - 1 <= m - 1 /\ n \in Nat
                BY <1>1, <1>2
            <4> HIDE DEF n, m
            <4> QED
                BY <4>1, TimesMonotonic
        <3>2. n * (m - 1) = m * n - n
            BY <1>1, <1>2
        <3> QED
            BY <3>1, <3>2, <2>3, <1>1, <1>2, <1>3
    <2>6. u[i].part = Parts(scope)[(a - 1) + 1] /\ u[i].dest = Dests[(b - 1) + 1]
        BY <2>4, <2>5, <1>4
    <2>7. u[i].part = part /\ u[i].dest = d
        BY <2>1, <2>2, <2>6
    <2> QED
        BY <2>5, <2>7
<1> QED
    BY <1>3, <1>6, <1>7, <1>8

-----------------------------------------------------------------------------
(* Control: where processes are, and what history and people know.         *)

\* Whoever is at it has the lock, and everybody else is idle before and after.
LEMMA Turn ==
    ASSUME Control, NEW p \in Proc, pc[p] # "idle",
           NEW phase \in Phases, NEW i \in Nat, Go(p, phase, i)
    PROVE  /\ pc' \in [Proc -> Phases] /\ at' \in [Proc -> Nat]
           /\ pc'[p] = phase /\ at'[p] = i /\ siteLock = p
           /\ \A q \in Proc : q # p =>
                 /\ pc[q] = "idle" /\ pc'[q] = "idle" /\ at'[q] = at[q]
                 /\ run[q] = 0 /\ ~skipped[q] /\ outcome[q] = "none"
<1>1. pc \in [Proc -> Phases] /\ at \in [Proc -> Nat]
    BY DEF Control, TypeOK
<1>2. siteLock = p /\ \A q \in Proc : q # p => pc[q] = "idle"
    BY DEF Control, Locked
<1>3. \A q \in Proc : q # p => run[q] = 0 /\ ~skipped[q] /\ outcome[q] = "none"
    BY <1>2 DEF Control, Locked
<1> QED
    BY <1>1, <1>2, <1>3 DEF Go

\* What history and people know stays as it is.
LEMMA HistoryStays ==
    ASSUME RunsAreSpaced, ToldAsRecorded, rows' = rows, told' = told
    PROVE  RunsAreSpaced' /\ ToldAsRecorded'
<1>1. RunsAreSpaced'
    BY DEF RunsAreSpaced, Succeeded
<1>2. ToldAsRecorded'
    BY DEF ToldAsRecorded
<1> QED
    BY <1>1, <1>2

\* A step of a run at work: it goes on to another destination or package, or to
\* the outcome, and stores and removes objects.
WorkStep(p, phase, i, o, b) ==
    /\ pc[p] \in Working /\ phase \in Working /\ i \in Nat
    /\ Go(p, phase, i)
    /\ outcome' = [outcome EXCEPT ![p] = o]
    /\ skipped' = [skipped EXCEPT ![p] = b]
    /\ o \in IF phase = "finish" THEN {"none", "failed", "cancelled"} ELSE {"none"}
    /\ b \in BOOLEAN
    /\ phase = "upload" => pc[p] = "upload" /\ i \in 1 .. Len(Uploads(Scope(p)))
    /\ phase \in {"mark", "forget", "expire"} => i \in 1 .. Len(Dests)
    /\ objects' \in [Dest -> SUBSET Object]
    /\ \A d \in Dest : \A x \in objects'[d] : x \in objects[d] \/ x.run = run[p]
    /\ UNCHANGED <<siteLock, clock, rows, run, told, crashes>>

LEMMA WorkKeepsControl ==
    ASSUME Control, NEW p \in Proc, NEW phase, NEW i, NEW o, NEW b,
           WorkStep(p, phase, i, o, b)
    PROVE  Control'
<1>1. /\ pc[p] \in Working /\ phase \in Working /\ i \in Nat /\ b \in BOOLEAN
      /\ o \in IF phase = "finish" THEN {"none", "failed", "cancelled"} ELSE {"none"}
      /\ Go(p, phase, i)
      /\ siteLock' = siteLock /\ clock' = clock /\ rows' = rows /\ run' = run
      /\ told' = told /\ crashes' = crashes
    BY DEF WorkStep
<1>2. /\ pc' \in [Proc -> Phases] /\ at' \in [Proc -> Nat]
      /\ pc'[p] = phase /\ at'[p] = i /\ siteLock = p
      /\ \A q \in Proc : q # p =>
            /\ pc'[q] = "idle" /\ run[q] = 0 /\ ~skipped[q] /\ outcome[q] = "none"
    BY <1>1, Turn DEF Working, Phases
<1>3. /\ outcome' \in [Proc -> Statuses \cup {"none"}] /\ outcome'[p] = o
      /\ \A q \in Proc : q # p => outcome'[q] = outcome[q]
    BY <1>1 DEF WorkStep, Control, TypeOK, Statuses
<1>4. /\ skipped' \in [Proc -> BOOLEAN]
      /\ \A q \in Proc : q # p => skipped'[q] = skipped[q]
    BY <1>1 DEF WorkStep, Control, TypeOK
<1>5. TypeOK'
    BY <1>1, <1>2, <1>3, <1>4 DEF WorkStep, Control, TypeOK
<1>6. Locked'
    BY <1>1, <1>2, <1>3, <1>4 DEF Locked, Working
<1>7. AtWork'
    BY <1>1, <1>2, <1>3 DEF Control, AtWork, Working
<1>8. AtNotice'
    BY <1>1, <1>2 DEF AtNotice, Working
<1>9. AtPlace'
    BY <1>1, <1>2 DEF WorkStep, Control, AtPlace, Scope, Working
<1>10. NoFuture'
    <2>1. run[p] = clock /\ clock \in Time
        BY <1>1 DEF Control, AtWork
    <2> QED
        BY <1>1, <2>1 DEF WorkStep, Control, NoFuture, Time
<1>11. RunsAreSpaced' /\ ToldAsRecorded'
    BY <1>1, HistoryStays DEF Control
<1> QED
    BY <1>5, <1>6, <1>7, <1>8, <1>9, <1>10, <1>11 DEF Control

\* What a run stores is an object of its own.
LEMMA StoredIsObject ==
    ASSUME Control, NEW p \in Proc, pc[p] \in Working,
           NEW part \in Part \cup {"marker"}, NEW w \in BOOLEAN
    PROVE  Stored(p, part, w) \in Object /\ Stored(p, part, w).run = run[p]
BY DEF Control, AtWork, Stored, Object

LEMMA AddedIsStored ==
    ASSUME Control, NEW p \in Proc, pc[p] \in Working, NEW d \in Dest,
           NEW part \in Part \cup {"marker"}, NEW w \in BOOLEAN,
           objects' = [objects EXCEPT ![d] = @ \cup {Stored(p, part, w)}]
    PROVE  /\ objects' \in [Dest -> SUBSET Object]
           /\ \A e \in Dest : \A x \in objects'[e] : x \in objects[e] \/ x.run = run[p]
BY StoredIsObject DEF Control, TypeOK

LEMMA RemovedIsGone ==
    ASSUME Control, NEW p \in Proc, NEW d \in Dest, NEW gone,
           objects' = [objects EXCEPT ![d] = @ \ gone]
    PROVE  /\ objects' \in [Dest -> SUBSET Object]
           /\ \A e \in Dest : \A x \in objects'[e] : x \in objects[e] \/ x.run = run[p]
BY DEF Control, TypeOK

LEMMA SameObjects ==
    ASSUME Control, NEW p \in Proc, objects' = objects
    PROVE  /\ objects' \in [Dest -> SUBSET Object]
           /\ \A e \in Dest : \A x \in objects'[e] : x \in objects[e] \/ x.run = run[p]
BY DEF Control, TypeOK

\* Where a run is while it uploads, or is at a destination.
LEMMA UploadPlace ==
    ASSUME Control, NEW p \in Proc, pc[p] = "upload"
    PROVE  /\ Scope(p) \in {"full", "database_only"}
           /\ Scope(p) = "database_only" => Databases # <<>>
           /\ Len(Uploads(Scope(p))) \in Nat
           /\ at[p] \in 1 .. Len(Uploads(Scope(p)))
           /\ Uploads(Scope(p))[at[p]].part \in Part
           /\ Uploads(Scope(p))[at[p]].dest \in Dest
           /\ \A w \in Readable(p, Uploads(Scope(p))[at[p]].part) : w \in BOOLEAN
           /\ skipped[p] \in BOOLEAN /\ outcome[p] = "none"
<1>1. /\ Scope(p) \in {"full", "database_only"} /\ outcome[p] = "none"
    BY DEF Control, AtWork, Working, Scope, Row
<1>2. /\ Scope(p) = "database_only" => Databases # <<>>
      /\ at[p] \in 1 .. Len(Uploads(Scope(p)))
    BY DEF Control, AtPlace
<1>3. skipped[p] \in BOOLEAN
    BY DEF Control, TypeOK
<1>4. \A w \in Readable(p, Uploads(Scope(p))[at[p]].part) : w \in BOOLEAN
    BY DEF Readable
<1> QED
    BY <1>1, <1>2, <1>3, <1>4, UploadsAre

LEMMA DestPlace ==
    ASSUME Control, NEW p \in Proc, pc[p] \in {"mark", "forget", "expire"}
    PROVE  /\ at[p] \in 1 .. Len(Dests) /\ Len(Dests) \in Nat \ {0}
           /\ Dests[at[p]] \in Dest
           /\ skipped[p] \in BOOLEAN /\ outcome[p] = "none"
<1>1. at[p] \in 1 .. Len(Dests)
    BY DEF Control, AtPlace
<1>2. outcome[p] = "none"
    BY DEF Control, AtWork, Working
<1>3. skipped[p] \in BOOLEAN
    BY DEF Control, TypeOK
<1> QED
    BY <1>1, <1>2, <1>3, DestsAre

\* Nothing changes by writing what is there.
LEMMA SameExcept ==
    ASSUME Control, NEW p \in Proc
    PROVE  /\ outcome = [outcome EXCEPT ![p] = outcome[p]]
           /\ skipped = [skipped EXCEPT ![p] = skipped[p]]
           /\ pc = [pc EXCEPT ![p] = pc[p]]
           /\ at = [at EXCEPT ![p] = at[p]]
BY DEF Control, TypeOK

\* What a run at work does is a work step.
Works(p) == \E phase, i, o, b : WorkStep(p, phase, i, o, b)

LEMMA UploadWorks ==
    ASSUME Control, NEW p \in Proc, Upload(p)
    PROVE  Works(p)
<1> DEFINE u == Uploads(Scope(p))
<1>1. pc[p] = "upload" /\ UNCHANGED <<siteLock, clock, rows, run, outcome, told, crashes>>
    BY DEF Upload
<1>2. /\ at[p] \in 1 .. Len(u) /\ Len(u) \in Nat
      /\ u[at[p]].part \in Part /\ u[at[p]].dest \in Dest
      /\ skipped[p] \in BOOLEAN /\ outcome[p] = "none"
    BY <1>1, UploadPlace
<1>3. PICK w \in BOOLEAN :
          /\ objects' = [objects EXCEPT ![u[at[p]].dest] =
                            @ \cup {Stored(p, u[at[p]].part, w)}]
          /\ skipped' = [skipped EXCEPT ![p] = @ \/ ~w]
          /\ IF at[p] < Len(u) THEN Go(p, "upload", at[p] + 1)
             ELSE AfterUploads(p, skipped[p] \/ ~w)
    BY <1>1, UploadPlace DEF Upload
<1>4. /\ objects' \in [Dest -> SUBSET Object]
      /\ \A e \in Dest : \A x \in objects'[e] : x \in objects[e] \/ x.run = run[p]
    BY <1>1, <1>2, <1>3, AddedIsStored DEF Working
<1>5. PICK b \in BOOLEAN : skipped' = [skipped EXCEPT ![p] = b]
    BY <1>2, <1>3 DEF Control, TypeOK
<1>6. outcome' = [outcome EXCEPT ![p] = "none"]
    BY <1>1, <1>2, SameExcept
<1>7. ASSUME NEW phase \in Working, NEW i \in Nat, Go(p, phase, i),
             phase = "upload" => i \in 1 .. Len(u),
             phase \in {"mark", "forget", "expire"} => i \in 1 .. Len(Dests)
      PROVE  Works(p)
    <2>1. WorkStep(p, phase, i, "none", b)
        BY <1>1, <1>4, <1>5, <1>6, <1>7 DEF WorkStep, Working
    <2> QED
        BY <2>1 DEF Works
<1>8. CASE at[p] < Len(u)
    <2>1. Go(p, "upload", at[p] + 1) /\ at[p] + 1 \in 1 .. Len(u)
        BY <1>2, <1>3, <1>8
    <2> QED
        BY <2>1, <1>7 DEF Working
<1>9. CASE ~(at[p] < Len(u))
    <2>1. AfterUploads(p, skipped[p] \/ ~w)
        BY <1>3, <1>9
    <2>2. Go(p, "finish", 0) \/ Go(p, "mark", 1) \/ Go(p, "forget", 1)
        BY <2>1 DEF AfterUploads
    <2> QED
        BY <2>2, <1>7, DestsAre DEF Working
<1> QED
    BY <1>8, <1>9

LEMMA FailWorks ==
    ASSUME Control, NEW p \in Proc, pc[p] \in Working,
           NEW s \in {"failed", "cancelled"}, Fail(p, s),
           objects' \in [Dest -> SUBSET Object],
           \A e \in Dest : \A x \in objects'[e] : x \in objects[e] \/ x.run = run[p],
           UNCHANGED <<siteLock, clock, rows, run, skipped, told, crashes>>
    PROVE  Works(p)
<1>1. skipped' = [skipped EXCEPT ![p] = skipped[p]] /\ skipped[p] \in BOOLEAN
    BY SameExcept DEF Control, TypeOK
<1>2. WorkStep(p, "finish", 0, s, skipped[p])
    BY <1>1 DEF WorkStep, Fail, Working
<1> QED
    BY <1>2 DEF Works

\* From destination to destination.
LEMMA GoWorks ==
    ASSUME Control, NEW p \in Proc, pc[p] \in {"mark", "forget", "expire"},
           NEW phase \in {"mark", "forget", "expire", "finish"}, NEW i \in Nat,
           Go(p, phase, i), phase # "finish" => i \in 1 .. Len(Dests),
           objects' \in [Dest -> SUBSET Object],
           \A e \in Dest : \A x \in objects'[e] : x \in objects[e] \/ x.run = run[p],
           UNCHANGED <<siteLock, clock, rows, run, skipped, outcome, told, crashes>>
    PROVE  Works(p)
<1>1. /\ skipped' = [skipped EXCEPT ![p] = skipped[p]] /\ skipped[p] \in BOOLEAN
      /\ outcome' = [outcome EXCEPT ![p] = "none"]
    BY SameExcept, DestPlace
<1>2. WorkStep(p, phase, i, "none", skipped[p])
    BY <1>1 DEF WorkStep, Working
<1> QED
    BY <1>2 DEF Works

LEMMA UploadFailsWorks ==
    ASSUME Control, NEW p \in Proc, UploadFails(p)
    PROVE  Works(p)
<1> DEFINE u == Uploads(Scope(p))
<1>1. pc[p] = "upload" /\ UNCHANGED <<siteLock, clock, rows, run, skipped, told, crashes>>
    BY DEF UploadFails
<1>2. u[at[p]].part \in Part /\ u[at[p]].dest \in Dest
    BY <1>1, UploadPlace
<1>3. PICK w \in BOOLEAN :
          objects' \in {objects, [objects EXCEPT ![u[at[p]].dest] =
                                     @ \cup {Stored(p, u[at[p]].part, w)}]}
    BY <1>1, UploadPlace DEF UploadFails
<1>4. /\ objects' \in [Dest -> SUBSET Object]
      /\ \A e \in Dest : \A x \in objects'[e] : x \in objects[e] \/ x.run = run[p]
    BY <1>1, <1>2, <1>3, AddedIsStored, SameObjects DEF Working
<1>5. PICK s \in {"failed", "cancelled"} : Fail(p, s)
    BY DEF UploadFails, FailStatus
<1> QED
    BY <1>1, <1>4, <1>5, FailWorks DEF Working

LEMMA MarkWorks ==
    ASSUME Control, NEW p \in Proc, Mark(p)
    PROVE  Works(p)
<1>1. pc[p] = "mark" /\ UNCHANGED <<siteLock, clock, rows, run, skipped, outcome, told, crashes>>
    BY DEF Mark
<1>2. at[p] \in 1 .. Len(Dests) /\ Len(Dests) \in Nat \ {0} /\ Dests[at[p]] \in Dest
    BY <1>1, DestPlace
<1>3. /\ objects' \in [Dest -> SUBSET Object]
      /\ \A e \in Dest : \A x \in objects'[e] : x \in objects[e] \/ x.run = run[p]
    BY <1>1, <1>2, AddedIsStored DEF Mark, Working
<1>4. \/ Go(p, "mark", at[p] + 1) /\ at[p] + 1 \in 1 .. Len(Dests)
      \/ Go(p, "forget", 1) /\ 1 \in 1 .. Len(Dests)
    BY <1>2 DEF Mark
<1> QED
    BY <1>1, <1>3, <1>4, GoWorks

LEMMA MarkFailsWorks ==
    ASSUME Control, NEW p \in Proc, MarkFails(p)
    PROVE  Works(p)
<1>1. pc[p] = "mark" /\ UNCHANGED <<siteLock, clock, rows, run, skipped, told, crashes>>
    BY DEF MarkFails
<1>2. Dests[at[p]] \in Dest
    BY <1>1, DestPlace
<1>3. /\ objects' \in [Dest -> SUBSET Object]
      /\ \A e \in Dest : \A x \in objects'[e] : x \in objects[e] \/ x.run = run[p]
    BY <1>1, <1>2, AddedIsStored, SameObjects DEF MarkFails, Working
<1>4. PICK s \in {"failed", "cancelled"} : Fail(p, s)
    BY DEF MarkFails, FailStatus
<1> QED
    BY <1>1, <1>3, <1>4, FailWorks DEF Working

LEMMA RetentionWorks ==
    ASSUME Control, NEW p \in Proc,
           \/ ForgetSnapshots(p) \/ ForgetFails(p)
           \/ ExpireSet(p) \/ SetsExpired(p) \/ ExpireFails(p)
    PROVE  Works(p)
<1> DEFINE d == Dests[at[p]]
<1>1. /\ pc[p] \in {"forget", "expire"}
      /\ UNCHANGED <<siteLock, clock, rows, run, skipped, told, crashes>>
    BY DEF ForgetSnapshots, ForgetFails, ExpireSet, SetsExpired, ExpireFails, store
<1>2. at[p] \in 1 .. Len(Dests) /\ Len(Dests) \in Nat \ {0} /\ d \in Dest
    BY <1>1, DestPlace
<1>3. \E gone : objects' = [objects EXCEPT ![d] = @ \ gone]
    <2>1. CASE ForgetSnapshots(p)
        BY <2>1 DEF ForgetSnapshots
    <2>2. CASE ForgetFails(p)
        BY <2>2 DEF ForgetFails
    <2>3. CASE ExpireSet(p)
        BY <2>3 DEF ExpireSet
    <2>4. CASE SetsExpired(p)
        <3>1. objects' = objects /\ objects = [objects EXCEPT ![d] = @ \ {}]
            BY <2>4, <1>2 DEF SetsExpired, store, Control, TypeOK
        <3> QED
            BY <3>1
    <2>5. CASE ExpireFails(p)
        BY <2>5 DEF ExpireFails
    <2> QED
        BY <2>1, <2>2, <2>3, <2>4, <2>5
<1>4. /\ objects' \in [Dest -> SUBSET Object]
      /\ \A e \in Dest : \A x \in objects'[e] : x \in objects[e] \/ x.run = run[p]
    BY <1>2, <1>3, RemovedIsGone
<1>5. \/ Fail(p, "cancelled")
      \/ /\ UNCHANGED outcome
         /\ \/ Go(p, "forget", at[p] + 1) /\ at[p] + 1 \in 1 .. Len(Dests)
            \/ Go(p, "expire", at[p])
            \/ Go(p, "finish", 0)
    <2>1. CASE ForgetSnapshots(p)
        BY <2>1 DEF ForgetSnapshots
    <2>2. CASE ForgetFails(p)
        BY <2>2 DEF ForgetFails
    <2>3. CASE ExpireSet(p)
        BY <2>3, SameExcept DEF ExpireSet, Go
    <2>4. CASE SetsExpired(p)
        BY <2>4, <1>2 DEF SetsExpired, AfterExpire
    <2>5. CASE ExpireFails(p)
        BY <2>5, <1>2 DEF ExpireFails, AfterExpire
    <2> QED
        BY <2>1, <2>2, <2>3, <2>4, <2>5
<1>6. CASE Fail(p, "cancelled")
    BY <1>1, <1>4, <1>6, FailWorks DEF Working
<1>7. CASE ~Fail(p, "cancelled")
    BY <1>1, <1>2, <1>4, <1>5, <1>7, GoWorks
<1> QED
    BY <1>6, <1>7

\* A finite set of numbers that is not empty has a largest one.
LEMMA Largest ==
    ASSUME NEW S, S \subseteq Int, IsFiniteSet(S), S # {}
    PROVE  \E x \in S : \A y \in S : x >= y
<1> DEFINE Above(x) == {y \in S : y >= x}
           T == {Above(x) : x \in S}
<1>1. T \subseteq FiniteSubsetsOf(S)
    <2> SUFFICES ASSUME NEW x \in S PROVE Above(x) \in FiniteSubsetsOf(S)
        OBVIOUS
    <2>1. Above(x) \in SUBSET S /\ IsFiniteSet(Above(x))
        BY FS_Subset
    <2> QED
        BY <2>1 DEF FiniteSubsetsOf
<1>2. T # {}
    OBVIOUS
<1>3. PICK A \in T : \A B \in T : <<B, A>> \notin StrictSubsetOrdering(S)
    <2> HIDE DEF T
    <2>1. IsWellFoundedOn(StrictSubsetOrdering(S), FiniteSubsetsOf(S))
        BY FS_StrictSubsetOrderingWellFounded
    <2> QED
        BY <1>1, <1>2, <2>1, WFMin
<1>4. PICK x \in S : A = Above(x)
    OBVIOUS
<1>5. ASSUME NEW y \in S, ~(x >= y)
      PROVE  FALSE
    <2>1. Above(y) \subseteq A /\ x \in A /\ x \notin Above(y)
        <3>1. x \in Int /\ y \in Int /\ x < y
            BY <1>5
        <3>2. \A z \in S : z \in Int
            OBVIOUS
        <3>3. x \in Above(x) /\ x \notin Above(y)
            BY <3>1
        <3>4. ASSUME NEW z \in Above(y) PROVE z \in Above(x)
            BY <3>1, <3>2
        <3> QED
            BY <1>4, <3>3, <3>4
    <2>2. Above(y) \in T /\ Above(y) \in SUBSET S /\ A \in SUBSET S
        BY <1>4
    <2>3. <<Above(y), A>> \in StrictSubsetOrdering(S)
        BY <2>1, <2>2 DEF StrictSubsetOrdering
    <2> QED
        BY <1>3, <2>2, <2>3
<1> QED
    BY <1>5

\* No run before t succeeded after LastSuccessful(t).
LEMMA LastIsLast ==
    ASSUME NEW t \in Time
    PROVE  /\ LastSuccessful(t) \in 0 .. MaxTime
           /\ \A s \in Time : s < t /\ Succeeded(s) =>
                 s <= LastSuccessful(t) /\ LastSuccessful(t) # 0
<1> DEFINE S == {0} \cup {s \in Time : s < t /\ Succeeded(s)}
<1>1. S \subseteq 0 .. MaxTime /\ MaxTime \in Nat
    BY ConstantsAssumption DEF Time
<1>2. IsFiniteSet(S) /\ S \subseteq Int /\ S # {}
    <2>1. IsFiniteSet(0 .. MaxTime)
        BY <1>1, FS_Interval
    <2>2. IsFiniteSet(S)
        BY <1>1, <2>1, FS_Subset
    <2> QED
        BY <1>1, <2>2
<1>3. \E x \in S : \A y \in S : x >= y
    <2> HIDE DEF S
    <2> QED
        BY <1>2, Largest
<1>4. Max(S) \in S /\ \A y \in S : Max(S) >= y
    BY <1>3 DEF Max
<1>5. LastSuccessful(t) = Max(S)
    BY DEF LastSuccessful
<1> QED
    BY <1>1, <1>4, <1>5 DEF Time

LEMMA TryLockKeepsControl ==
    ASSUME Control, NEW p \in Proc, TryLock(p)
    PROVE  Control'
<1>1. /\ siteLock = None /\ siteLock' = p /\ Go(p, "start", 0)
      /\ clock' = clock /\ rows' = rows /\ objects' = objects /\ run' = run
      /\ skipped' = skipped /\ outcome' = outcome /\ told' = told /\ crashes' = crashes
    BY DEF TryLock, store
<1>2. \A q \in Proc : pc[q] = "idle"
    BY <1>1, ConstantsAssumption DEF Control, Locked
<1>3. /\ pc' \in [Proc -> Phases] /\ at' \in [Proc -> Nat] /\ pc'[p] = "start"
      /\ \A q \in Proc : q # p => pc'[q] = "idle"
    BY <1>1, <1>2 DEF Control, TypeOK, Go, Phases
<1>4. TypeOK'
    BY <1>1, <1>3 DEF Control, TypeOK
<1>5. Locked'
    BY <1>1, <1>2, <1>3 DEF Control, Locked
<1>6. AtWork' /\ AtNotice' /\ AtPlace'
    BY <1>3 DEF AtWork, AtNotice, AtPlace, Working
<1>7. NoFuture'
    BY <1>1 DEF Control, NoFuture
<1> QED
    BY <1>1, <1>4, <1>5, <1>6, <1>7, HistoryStays DEF Control

LEMMA NotStartedKeepsControl ==
    ASSUME Control, NEW p \in Proc, NotStarted(p)
    PROVE  Control'
<1>1. /\ pc[p] = "start" /\ clock < MaxTime /\ clock' = clock + 1 /\ Go(p, "release", 0)
      /\ siteLock' = siteLock /\ rows' = rows /\ objects' = objects /\ run' = run
      /\ skipped' = skipped /\ outcome' = outcome /\ told' = told /\ crashes' = crashes
    BY DEF NotStarted, store
<1>2. /\ pc' \in [Proc -> Phases] /\ at' \in [Proc -> Nat] /\ pc'[p] = "release"
      /\ siteLock = p /\ \A q \in Proc : q # p => pc[q] = "idle" /\ pc'[q] = "idle"
    BY <1>1, Turn DEF Phases
<1>3. clock \in 0 .. MaxTime /\ clock' \in 0 .. MaxTime
    BY <1>1, ConstantsAssumption DEF Control, TypeOK
<1>4. TypeOK'
    BY <1>1, <1>2, <1>3 DEF Control, TypeOK
<1>5. Locked'
    BY <1>1, <1>2 DEF Control, Locked
<1>6. AtWork' /\ AtNotice' /\ AtPlace'
    BY <1>2 DEF AtWork, AtNotice, AtPlace, Working
<1>7. NoFuture'
    <2>1. \A d \in Dest : \A o \in objects[d] : o.run \in Time
        BY DEF Control, TypeOK, Object
    <2> QED
        BY <1>1, <1>3, <2>1, ConstantsAssumption DEF Control, NoFuture, Time
<1> QED
    BY <1>1, <1>4, <1>5, <1>6, <1>7, HistoryStays DEF Control

LEMMA StartKeepsControl ==
    ASSUME Control, NEW p \in Proc, NEW scope \in {"full", "database_only"},
           NEW forced \in BOOLEAN, Start(p, scope, forced)
    PROVE  Control'
<1> DEFINE now == clock + 1
<1>1. /\ pc[p] = "start" /\ clock < MaxTime /\ clock' = now /\ Go(p, "upload", 1)
      /\ scope = "database_only" => Databases # <<>>
      /\ run' = [run EXCEPT ![p] = now]
      /\ siteLock' = siteLock /\ objects' = objects
      /\ skipped' = skipped /\ outcome' = outcome /\ told' = told /\ crashes' = crashes
    BY DEF Start
<1>2. /\ pc' \in [Proc -> Phases] /\ at' \in [Proc -> Nat] /\ pc'[p] = "upload"
      /\ at'[p] = 1 /\ siteLock = p
      /\ \A q \in Proc : q # p =>
            /\ pc'[q] = "idle" /\ run[q] = 0 /\ ~skipped[q] /\ outcome[q] = "none"
    BY <1>1, Turn DEF Phases
<1>3. clock \in 0 .. MaxTime /\ now \in 0 .. MaxTime /\ now \in Time
    BY <1>1, ConstantsAssumption DEF Control, TypeOK, Time
<1>4. /\ run' \in [Proc -> 0 .. MaxTime] /\ run'[p] = now
      /\ \A q \in Proc : q # p => run'[q] = 0
    BY <1>1, <1>2, <1>3 DEF Control, TypeOK
<1>5. PICK row \in Row :
          /\ rows' = [rows EXCEPT ![now] = row]
          /\ row.forced = forced /\ row.status = "running" /\ row.scope = scope
    <2>1. PICK c \in Content :
              rows' = [rows EXCEPT ![now] = [scope |-> scope, forced |-> forced,
                                             status |-> "running", content |-> c]]
        BY DEF Start
    <2> DEFINE row == [scope |-> scope, forced |-> forced,
                       status |-> "running", content |-> c]
    <2>2. row \in Row
        BY DEF Row, Statuses
    <2>3. row.forced = forced /\ row.status = "running" /\ row.scope = scope
        OBVIOUS
    <2> QED
        BY <2>1, <2>2, <2>3
<1>6. /\ rows' \in [Time -> Row \cup {NoRow}] /\ rows'[now] = row
      /\ \A t \in Time : t # now => rows'[t] = rows[t]
    BY <1>3, <1>5 DEF Control, TypeOK
<1>7. TypeOK'
    BY <1>1, <1>2, <1>3, <1>4, <1>6 DEF Control, TypeOK
<1>8. Locked'
    BY <1>1, <1>2, <1>4 DEF Control, Locked
<1>9. told[now] = {} /\ rows[now] = NoRow
    BY <1>3 DEF Control, NoFuture
<1>10. AtWork'
    <2>1. outcome[p] = "none"
        BY <1>1 DEF Control, Locked
    <2> QED
        BY <1>1, <1>2, <1>3, <1>4, <1>5, <1>6, <1>9, <2>1 DEF AtWork, Working
<1>11. AtNotice'
    BY <1>2 DEF AtNotice
<1>12. AtPlace'
    <2>1. Scope(p)' = scope
        BY <1>4, <1>5, <1>6 DEF Scope
    <2>2. 1 \in 1 .. Len(Uploads(scope))
        BY <1>1, UploadsAre
    <2> QED
        BY <1>1, <1>2, <2>1, <2>2 DEF AtPlace, Uploads, Parts
<1>13. NoFuture'
    <2>1. \A d \in Dest : \A o \in objects[d] : o.run \in Time
        BY DEF Control, TypeOK, Object
    <2>2. \A t \in Time : t > now => rows[t] = NoRow /\ told[t] = {}
        BY <1>3 DEF Control, NoFuture, Time
    <2>3. \A d \in Dest : \A o \in objects[d] : o.run <= now
        BY <1>3, <2>1 DEF Control, NoFuture, Time
    <2> QED
        BY <1>1, <1>3, <1>6, <2>2, <2>3 DEF NoFuture, Time
<1>14. \A s \in Time : s # now => (Succeeded(s)' <=> Succeeded(s))
    BY <1>6 DEF Succeeded
<1>15. \A s \in Time : s = now => ~Succeeded(s)'
    BY <1>5, <1>6 DEF Succeeded
<1>16. RunsAreSpaced'
    <2> SUFFICES ASSUME NEW t \in Time, rows'[t] # NoRow, ~rows'[t].forced,
                        NEW s \in Time, s < t, Succeeded(s)'
                 PROVE  t - s >= MinInterval
        BY DEF RunsAreSpaced
    <2>1. Succeeded(s) /\ s # now
        BY <1>14, <1>15
    <2>2. CASE t = now
        <3>1. forced \/ LastSuccessful(now) = 0 \/ now - LastSuccessful(now) >= MinInterval
            BY DEF Start
        <3>2. ~forced
            BY <1>5, <1>6, <2>2
        <3>3. LastSuccessful(now) \in 0 .. MaxTime /\ s <= LastSuccessful(now)
              /\ LastSuccessful(now) # 0
            BY <1>3, <2>1, <2>2, LastIsLast
        <3> QED
            BY <3>1, <3>2, <3>3, <1>3, <2>2, ConstantsAssumption DEF Time
    <2>3. CASE t # now
        BY <1>6, <2>1, <2>3 DEF Control, RunsAreSpaced
    <2> QED
        BY <2>2, <2>3
<1>17. ToldAsRecorded'
    <2> SUFFICES ASSUME NEW t \in Time, NEW s \in told[t]
                 PROVE  told[t] = {s} /\ (rows'[t].status = s \/
                            (s = "failed" /\ rows'[t].status = "running"))
        BY <1>1 DEF ToldAsRecorded
    <2>1. t # now
        BY <1>9
    <2> QED
        BY <1>6, <2>1 DEF Control, ToldAsRecorded
<1> QED
    BY <1>7, <1>8, <1>10, <1>11, <1>12, <1>13, <1>16, <1>17 DEF Control

\* The last step of a run at work: it tells, or gives the lock back.
LEMMA FinishKeepsControl ==
    ASSUME Control, NEW p \in Proc, Finish(p)
    PROVE  Control'
<1>1. /\ pc[p] = "finish" /\ Go(p, "notify", 0)
      /\ rows' = [rows EXCEPT ![run[p]].status = Status(p)]
      /\ outcome' = [outcome EXCEPT ![p] = Status(p)]
      /\ siteLock' = siteLock /\ clock' = clock /\ objects' = objects /\ run' = run
      /\ skipped' = skipped /\ told' = told /\ crashes' = crashes
    BY DEF Finish
<1>2. /\ pc' \in [Proc -> Phases] /\ at' \in [Proc -> Nat] /\ pc'[p] = "notify"
      /\ siteLock = p
      /\ \A q \in Proc : q # p =>
            /\ pc'[q] = "idle" /\ run[q] = 0 /\ ~skipped[q] /\ outcome[q] = "none"
    BY <1>1, Turn DEF Phases
<1>3. /\ run[p] = clock /\ clock \in Time /\ rows[clock] \in Row
      /\ told[clock] = {} /\ outcome[p] \in {"none", "failed", "cancelled"}
    BY <1>1 DEF Control, AtWork, Working
<1>4. PICK o \in Statuses : o = Status(p)
    BY <1>3 DEF Status, Statuses
<1>5. /\ outcome' \in [Proc -> Statuses \cup {"none"}] /\ outcome'[p] = o
      /\ \A q \in Proc : q # p => outcome'[q] = outcome[q]
    BY <1>1, <1>4 DEF Control, TypeOK
<1>6. /\ rows' \in [Time -> Row \cup {NoRow}]
      /\ rows'[clock].status = o /\ rows'[clock] # NoRow
      /\ rows'[clock].forced = rows[clock].forced
      /\ \A t \in Time : t # clock => rows'[t] = rows[t]
    <2>1. rows \in [Time -> Row \cup {NoRow}]
        BY DEF Control, TypeOK
    <2>2. rows' = [rows EXCEPT ![clock] = [rows[clock] EXCEPT !.status = o]]
        BY <1>1, <1>3, <1>4, <2>1
    <2>3. /\ [rows[clock] EXCEPT !.status = o] \in Row
          /\ [rows[clock] EXCEPT !.status = o].status = o
          /\ [rows[clock] EXCEPT !.status = o].forced = rows[clock].forced
        BY <1>3, <1>4 DEF Row
    <2>4. \A row \in Row : row # NoRow
        BY DEF Row, NoRow
    <2> QED
        BY <1>3, <2>1, <2>2, <2>3, <2>4
<1>7. TypeOK'
    BY <1>1, <1>2, <1>5, <1>6 DEF Control, TypeOK
<1>8. Locked'
    BY <1>1, <1>2, <1>5 DEF Locked
<1>9. AtWork' /\ AtPlace'
    BY <1>2 DEF AtWork, AtPlace, Working
<1>10. AtNotice'
    BY <1>1, <1>2, <1>3, <1>5, <1>6 DEF AtNotice
<1>11. NoFuture'
    BY <1>1, <1>3, <1>6 DEF Control, NoFuture, Time
<1>12. RunsAreSpaced'
    <2> SUFFICES ASSUME NEW t \in Time, rows'[t] # NoRow, ~rows'[t].forced,
                        NEW s \in Time, s < t, Succeeded(s)'
                 PROVE  t - s >= MinInterval
        BY DEF RunsAreSpaced
    <2>1. t <= clock
        BY <1>3, <1>6 DEF Control, NoFuture, Time
    <2>2. Succeeded(s)
        BY <1>3, <1>6, <2>1 DEF Succeeded, Time
    <2>3. rows[t] # NoRow /\ ~rows[t].forced
        <3>1. \A row \in Row : row # NoRow
            BY DEF Row, NoRow
        <3> QED
            BY <1>3, <1>6, <3>1
    <2> QED
        BY <2>2, <2>3 DEF Control, RunsAreSpaced
<1>13. ToldAsRecorded'
    <2> SUFFICES ASSUME NEW t \in Time, NEW s \in told[t]
                 PROVE  told[t] = {s} /\ (rows'[t].status = s \/
                            (s = "failed" /\ rows'[t].status = "running"))
        BY <1>1 DEF ToldAsRecorded
    <2>1. t # clock
        BY <1>3
    <2> QED
        BY <1>6, <2>1 DEF Control, ToldAsRecorded
<1> QED
    BY <1>7, <1>8, <1>9, <1>10, <1>11, <1>12, <1>13 DEF Control

LEMMA FinishFailsKeepsControl ==
    ASSUME Control, NEW p \in Proc, FinishFails(p)
    PROVE  Control'
<1>1. /\ pc[p] = "finish" /\ outcome' = [outcome EXCEPT ![p] = "failed"]
      /\ siteLock' = siteLock /\ clock' = clock /\ objects' = objects /\ run' = run
      /\ rows' = rows /\ skipped' = skipped /\ told' = told /\ crashes' = crashes
    BY DEF FinishFails, store
<1>2. PICK phase \in {"notify", "release"} : Go(p, phase, 0)
    BY DEF FinishFails
<1>3. /\ pc' \in [Proc -> Phases] /\ at' \in [Proc -> Nat] /\ pc'[p] = phase
      /\ siteLock = p
      /\ \A q \in Proc : q # p =>
            /\ pc'[q] = "idle" /\ run[q] = 0 /\ ~skipped[q] /\ outcome[q] = "none"
    BY <1>1, <1>2, Turn DEF Phases
<1>4. /\ run[p] = clock /\ clock \in Time /\ rows[clock].status = "running"
      /\ told[clock] = {}
    BY <1>1 DEF Control, AtWork, Working
<1>5. /\ outcome' \in [Proc -> Statuses \cup {"none"}] /\ outcome'[p] = "failed"
      /\ \A q \in Proc : q # p => outcome'[q] = outcome[q]
    BY <1>1 DEF Control, TypeOK, Statuses
<1>6. TypeOK'
    BY <1>1, <1>3, <1>5 DEF Control, TypeOK
<1>7. Locked'
    BY <1>1, <1>3, <1>5 DEF Locked
<1>8. AtWork' /\ AtPlace'
    BY <1>3 DEF AtWork, AtPlace, Working
<1>9. AtNotice'
    BY <1>1, <1>3, <1>4, <1>5 DEF AtNotice, Statuses
<1>10. NoFuture'
    BY <1>1 DEF Control, NoFuture
<1> QED
    BY <1>1, <1>6, <1>7, <1>8, <1>9, <1>10, HistoryStays DEF Control

LEMMA NotifyKeepsControl ==
    ASSUME Control, NEW p \in Proc, Notify(p)
    PROVE  Control'
<1>1. /\ pc[p] = "notify" /\ Go(p, "release", 0)
      /\ told' = [told EXCEPT ![run[p]] = @ \cup {outcome[p]}] \/ told' = told
      /\ siteLock' = siteLock /\ clock' = clock /\ rows' = rows /\ objects' = objects
      /\ run' = run /\ skipped' = skipped /\ outcome' = outcome /\ crashes' = crashes
    BY DEF Notify, store
<1>2. /\ pc' \in [Proc -> Phases] /\ at' \in [Proc -> Nat] /\ pc'[p] = "release"
      /\ siteLock = p /\ \A q \in Proc : q # p => pc[q] = "idle" /\ pc'[q] = "idle"
    BY <1>1, Turn DEF Phases
<1>3. /\ run[p] = clock /\ clock \in Time /\ told[clock] = {} /\ outcome[p] \in Statuses
      /\ \/ rows[clock].status = outcome[p]
         \/ outcome[p] = "failed" /\ rows[clock].status = "running"
    BY <1>1 DEF Control, AtNotice
<1>4. /\ told' \in [Time -> SUBSET Statuses]
      /\ told'[clock] \subseteq {outcome[p]}
      /\ \A t \in Time : t # clock => told'[t] = told[t]
    BY <1>1, <1>3 DEF Control, TypeOK
<1>5. TypeOK'
    BY <1>1, <1>2, <1>4 DEF Control, TypeOK
<1>6. Locked'
    BY <1>1, <1>2 DEF Control, Locked
<1>7. AtWork' /\ AtNotice' /\ AtPlace'
    BY <1>2 DEF AtWork, AtNotice, AtPlace, Working
<1>8. NoFuture'
    BY <1>1, <1>3, <1>4 DEF Control, NoFuture, Time
<1>9. RunsAreSpaced'
    BY <1>1 DEF Control, RunsAreSpaced, Succeeded
<1>10. ToldAsRecorded'
    <2> SUFFICES ASSUME NEW t \in Time, NEW s \in told'[t]
                 PROVE  told'[t] = {s} /\ (rows[t].status = s \/
                            (s = "failed" /\ rows[t].status = "running"))
        BY <1>1 DEF ToldAsRecorded
    <2>1. CASE t = clock
        BY <1>3, <1>4, <2>1
    <2>2. CASE t # clock
        BY <1>4, <2>2 DEF Control, ToldAsRecorded
    <2> QED
        BY <2>1, <2>2
<1> QED
    BY <1>5, <1>6, <1>7, <1>8, <1>9, <1>10 DEF Control

\* A run is over, or its process is dead.
LEMMA EndKeepsControl ==
    ASSUME Control, NEW p \in Proc, pc[p] # "idle", End(p),
           clock' = clock, rows' = rows, objects' = objects, told' = told,
           crashes' \in 0 .. MaxCrashes
    PROVE  Control'
<1>1. Go(p, "idle", 0)
    BY DEF End
<1>2. /\ pc' \in [Proc -> Phases] /\ at' \in [Proc -> Nat] /\ pc'[p] = "idle"
      /\ siteLock = p /\ \A q \in Proc : q # p => pc[q] = "idle" /\ pc'[q] = "idle"
    BY <1>1, Turn DEF Phases
<1>3. siteLock' = None /\ \A q \in Proc : pc'[q] = "idle"
    BY <1>2 DEF End
<1>4. /\ run' \in [Proc -> 0 .. MaxTime] /\ run'[p] = 0
      /\ skipped' \in [Proc -> BOOLEAN] /\ ~skipped'[p]
      /\ outcome' \in [Proc -> Statuses \cup {"none"}] /\ outcome'[p] = "none"
      /\ \A q \in Proc : q # p => run'[q] = run[q] /\ skipped'[q] = skipped[q]
                                  /\ outcome'[q] = outcome[q]
    BY ConstantsAssumption DEF End, Control, TypeOK
<1>5. TypeOK'
    BY <1>2, <1>3, <1>4 DEF Control, TypeOK
<1>6. Locked'
    BY <1>2, <1>3, <1>4 DEF Control, Locked
<1>7. AtWork' /\ AtNotice' /\ AtPlace'
    BY <1>3 DEF AtWork, AtNotice, AtPlace, Working
<1>8. NoFuture'
    BY DEF Control, NoFuture
<1> QED
    BY <1>5, <1>6, <1>7, <1>8, HistoryStays DEF Control

LEMMA InitControl == Init => Control
<1> SUFFICES ASSUME Init PROVE Control
    OBVIOUS
<1>1. TypeOK
    BY ConstantsAssumption DEF Init, TypeOK, Phases
<1>2. Locked /\ AtWork /\ AtNotice /\ AtPlace
    BY DEF Init, Locked, AtWork, AtNotice, AtPlace, Working
<1>3. NoFuture /\ RunsAreSpaced /\ ToldAsRecorded
    BY DEF Init, NoFuture, RunsAreSpaced, ToldAsRecorded
<1> QED
    BY <1>1, <1>2, <1>3 DEF Control

LEMMA StepKeepsControl ==
    ASSUME Control, NEW p \in Proc, Step(p)
    PROVE  Control'
<1>1. CASE NotStarted(p)
    BY <1>1, NotStartedKeepsControl
<1>2. CASE \E scope \in {"full", "database_only"}, forced \in BOOLEAN :
              Start(p, scope, forced)
    BY <1>2, StartKeepsControl
<1>3. CASE \/ Upload(p) \/ UploadFails(p) \/ Mark(p) \/ MarkFails(p)
           \/ ForgetSnapshots(p) \/ ForgetFails(p)
           \/ ExpireSet(p) \/ SetsExpired(p) \/ ExpireFails(p)
    <2>1. Works(p)
        BY <1>3, UploadWorks, UploadFailsWorks, MarkWorks, MarkFailsWorks, RetentionWorks
    <2> QED
        BY <2>1, WorkKeepsControl DEF Works
<1>4. CASE Finish(p)
    BY <1>4, FinishKeepsControl
<1>5. CASE FinishFails(p)
    BY <1>5, FinishFailsKeepsControl
<1>6. CASE Notify(p)
    BY <1>6, NotifyKeepsControl
<1>7. CASE Release(p)
    <2>1. crashes \in 0 .. MaxCrashes
        BY DEF Control, TypeOK
    <2> QED
        BY <1>7, <2>1, EndKeepsControl DEF Release, store
<1> QED
    BY <1>1, <1>2, <1>3, <1>4, <1>5, <1>6, <1>7 DEF Step

LEMMA NextKeepsControl == Control /\ [Next]_vars => Control'
<1> SUFFICES ASSUME Control, [Next]_vars PROVE Control'
    OBVIOUS
<1>1. ASSUME NEW p \in Proc, TryLock(p) PROVE Control'
    BY <1>1, TryLockKeepsControl
<1>2. ASSUME NEW p \in Proc, Step(p) PROVE Control'
    BY <1>2, StepKeepsControl
<1>3. ASSUME NEW p \in Proc, Crash(p) PROVE Control'
    <2>1. crashes' \in 0 .. MaxCrashes
        BY <1>3, ConstantsAssumption DEF Crash, Control, TypeOK
    <2> QED
        BY <1>3, <2>1, EndKeepsControl DEF Crash, store
<1>4. CASE UNCHANGED vars
    <2>1. /\ siteLock' = siteLock /\ clock' = clock /\ rows' = rows /\ objects' = objects
          /\ pc' = pc /\ run' = run /\ at' = at /\ skipped' = skipped
          /\ outcome' = outcome /\ told' = told /\ crashes' = crashes
        BY <1>4 DEF vars
    <2> QED
        BY <2>1, HistoryStays DEF Control, TypeOK, Locked, AtWork, AtNotice, AtPlace,
           NoFuture, Scope
<1> QED
    BY <1>1, <1>2, <1>3, <1>4 DEF Next

\* The inductive invariant of a site's runs: only who has the flock is at work,
\* on the newest run, and history and people know of it what its place says.
THEOREM ControlInvariance == Spec => []Control
<1> QED
    BY InitControl, NextKeepsControl, PTL DEF Spec

\* Every state of every behaviour is of its type.
THEOREM TypeCorrect == Spec => []TypeOK
<1>1. Control => TypeOK
    BY DEF Control
<1> QED
    BY <1>1, ControlInvariance, PTL

\* A run that is not forced starts only min_interval after a success, however
\* many processes try at once.
THEOREM RunsStaySpaced == Spec => []RunsAreSpaced
<1>1. Control => RunsAreSpaced
    BY DEF Control
<1> QED
    BY <1>1, ControlInvariance, PTL

\* People hear one outcome of a run at most, and it is what history has, but for
\* a run that could not be recorded.
THEOREM ToldIsRecorded == Spec => []ToldAsRecorded
<1>1. Control => ToldAsRecorded
    BY DEF Control
<1> QED
    BY <1>1, ControlInvariance, PTL

-----------------------------------------------------------------------------
(* Sets: what is stored of complete runs.                                  *)

\* The times that keys are parsed back to are in the order of the runs: the
\* clock that names them is not set back.
Forward == \A s, t \in Time : s < t => Stamp[s] < Stamp[t]

\* The parts of a flat set, but for its marker.
SetPart == IF Mode = "full" THEN Part ELSE Part \ {"files"}
Has(t, part, d) == [run |-> t, part |-> part, whole |-> TRUE] \in objects[d]
Everywhere(t) == HasSet => \A d \in Dest : WholeSet(t, d)

\* What a run that could read everything has stored by now.
StoredBy(p) ==
    /\ pc[p] = "upload" /\ ~skipped[p] =>
          \A i \in 1 .. at[p] - 1 :
             Has(run[p], Uploads(Scope(p))[i].part, Uploads(Scope(p))[i].dest)
    /\ pc[p] = "mark" =>
          /\ HasSet /\ Scope(p) = "full" /\ ~skipped[p]
          /\ \A d \in Dest, part \in SetPart : Has(run[p], part, d)
          /\ \A i \in 1 .. at[p] - 1 : Has(run[p], "marker", Dests[i])
    /\ pc[p] \in {"forget", "expire"} =>
          Scope(p) = "full" /\ ~skipped[p] /\ Everywhere(run[p])
    /\ pc[p] = "finish" /\ outcome[p] = "none" /\ Scope(p) = "full" /\ ~skipped[p] =>
          Everywhere(run[p])

StoredSoFar == \A p \in Proc : StoredBy(p)

Newer(t, d) == {s \in Time : s > t /\ WholeSet(s, d)}
Kept(t, d) == WholeSet(t, d) \/ Cardinality(Newer(t, d)) >= KeepLast

\* A set that is called complete, by history or by a marker, is whole or has
\* been replaced.
CompleteKept ==
    HasSet => \A t \in Time, d \in Dest :
        Succeeded(t) \/ t \in Marked(d) => Kept(t, d)

Sets == StoredSoFar /\ CompleteKept

LEMMA TimeIsFinite ==
    ASSUME NEW S, S \subseteq Time
    PROVE  IsFiniteSet(S) /\ Cardinality(S) \in Nat
<1>1. IsFiniteSet(Time)
    BY FS_Interval, ConstantsAssumption DEF Time
<1> QED
    BY <1>1, FS_Subset, FS_CardinalityType

LEMMA MoreTimes ==
    ASSUME NEW S, NEW T, S \subseteq T, T \subseteq Time, Cardinality(S) >= KeepLast
    PROVE  Cardinality(T) >= KeepLast
<1>1. IsFiniteSet(T) /\ Cardinality(T) \in Nat /\ Cardinality(S) \in Nat
    BY TimeIsFinite
<1>2. Cardinality(S) <= Cardinality(T)
    BY <1>1, FS_Subset
<1> QED
    BY <1>1, <1>2, ConstantsAssumption

\* A marker is of a run that has been started.
LEMMA MarkedAreTimes ==
    ASSUME Control, NEW d \in Dest
    PROVE  Marked(d) \subseteq Time /\ \A t \in Marked(d) : t <= clock
BY DEF Control, TypeOK, NoFuture, Marked, Object

\* A set has expired only when there is a newer one, so never the newest.
LEMMA ExpiredIsOld ==
    ASSUME Control, Forward, NEW d \in Dest, NEW t \in Expired(d)
    PROVE  /\ t \in Time /\ t < clock
           /\ Cardinality({s \in Marked(d) : s > t}) >= KeepLast
<1>1. t \in Marked(d) /\ t \in Time
    BY MarkedAreTimes DEF Expired
<1> DEFINE A == {s \in Marked(d) : Stamp[s] > Stamp[t]}
           B == {s \in Marked(d) : s > t}
<1>2. Cardinality(A) >= KeepLast
    BY DEF Expired
<1>3. A \subseteq B
    <2> SUFFICES ASSUME NEW s \in Marked(d), Stamp[s] > Stamp[t]
                 PROVE  s > t
        OBVIOUS
    <2>1. s \in Time /\ s \in Int /\ t \in Int
        BY <1>1, MarkedAreTimes DEF Time
    <2>2. Stamp[s] \in Int /\ Stamp[t] \in Int
        BY <1>1, <2>1, ConstantsAssumption
    <2>3. ~(s < t) /\ s # t
        BY <1>1, <2>1, <2>2 DEF Forward
    <2> QED
        BY <2>1, <2>3
<1>4. B \subseteq Time
    BY MarkedAreTimes
<1>5. Cardinality(B) >= KeepLast
    <2> HIDE DEF A, B
    <2> QED
        BY <1>2, <1>3, <1>4, MoreTimes
<1>6. B # {}
    <2> SUFFICES ASSUME B = {} PROVE FALSE
        OBVIOUS
    <2>1. Cardinality(B) = 0
        BY FS_EmptySet
    <2> QED
        BY <1>5, <2>1, ConstantsAssumption
<1>7. PICK s \in Marked(d) : s > t
    BY <1>6
<1>8. s \in Time /\ s <= clock /\ clock \in Int
    BY <1>7, MarkedAreTimes DEF Control, TypeOK, Time
<1> QED
    BY <1>1, <1>5, <1>7, <1>8 DEF Time

\* What is stored in addition takes nothing away.
LEMMA WholeGrows ==
    ASSUME NEW t, NEW d, objects[d] \subseteq objects'[d], WholeSet(t, d)
    PROVE  WholeSet(t, d)'
BY DEF WholeSet

LEMMA KeptOnGrowth ==
    ASSUME CompleteKept, \A d \in Dest : objects[d] \subseteq objects'[d],
           HasSet => \A t \in Time, d \in Dest :
               Succeeded(t)' \/ t \in Marked(d)' =>
                   Succeeded(t) \/ t \in Marked(d) \/ WholeSet(t, d)'
    PROVE  CompleteKept'
<1> SUFFICES ASSUME HasSet, NEW t \in Time, NEW d \in Dest,
                    Succeeded(t)' \/ t \in Marked(d)', ~WholeSet(t, d)'
             PROVE  Cardinality(Newer(t, d)') >= KeepLast
    BY DEF CompleteKept, Kept, HasSet
<1>1. objects[d] \subseteq objects'[d]
    OBVIOUS
<1>2. ~WholeSet(t, d)
    BY <1>1, WholeGrows
<1>3. Cardinality(Newer(t, d)) >= KeepLast
    BY <1>2 DEF CompleteKept, Kept
<1>4. Newer(t, d) \subseteq Newer(t, d)'
    BY <1>1, WholeGrows DEF Newer
<1>5. Newer(t, d)' \subseteq Time
    BY DEF Newer, Time
<1> QED
    BY <1>3, <1>4, <1>5, MoreTimes

\* Objects of one set that has expired at d are removed, all or some: those that
\* are complete and newer than it are enough for whatever it replaced.
LEMMA KeptOnExpiry ==
    ASSUME Control, CompleteKept, Forward, NEW d \in Dest, NEW x \in Expired(d),
           \A e \in Dest : e # d => objects'[e] = objects[e],
           objects'[d] \subseteq objects[d],
           \A o \in objects[d] \ objects'[d] : o.run = x,
           rows' = rows
    PROVE  CompleteKept'
<1> SUFFICES ASSUME HasSet, NEW t \in Time, NEW e \in Dest,
                    Succeeded(t)' \/ t \in Marked(e)'
             PROVE  Kept(t, e)'
    BY DEF CompleteKept, HasSet
<1>1. Succeeded(t) \/ t \in Marked(e)
    BY DEF Succeeded, Marked
<1>2. Kept(t, e)
    BY <1>1 DEF CompleteKept
<1>3. CASE e # d
    BY <1>2, <1>3 DEF Kept, Newer, WholeSet, Time
<1>4. CASE e = d
    <2>1. x \in Time /\ Cardinality({s \in Marked(d) : s > x}) >= KeepLast
        BY ExpiredIsOld
    <2>2. \A s \in Time : s # x /\ WholeSet(s, d) => WholeSet(s, d)'
        BY DEF WholeSet
    <2>3. Cardinality(Newer(x, d)) >= KeepLast
        <3>1. CASE \A s \in Marked(d) : s > x => WholeSet(s, d)
            <4>1. {s \in Marked(d) : s > x} \subseteq Newer(x, d)
                BY <3>1, MarkedAreTimes DEF Newer
            <4> QED
                BY <2>1, <4>1, MoreTimes DEF Newer
        <3>2. CASE \E s \in Marked(d) : s > x /\ ~WholeSet(s, d)
            <4>1. PICK s \in Marked(d) : s > x /\ ~WholeSet(s, d)
                BY <3>2
            <4>2. s \in Time
                BY <4>1, MarkedAreTimes
            <4>3. Cardinality(Newer(s, d)) >= KeepLast
                BY <4>1, <4>2 DEF CompleteKept, Kept
            <4>4. Newer(s, d) \subseteq Newer(x, d)
                BY <2>1, <4>1, <4>2 DEF Newer, Time
            <4> QED
                BY <4>3, <4>4, MoreTimes DEF Newer
        <3> QED
            BY <3>1, <3>2
    <2>4. CASE t <= x
        <3>1. Newer(x, d) \subseteq Newer(t, d)'
            BY <2>1, <2>2, <2>4 DEF Newer, Time
        <3>2. Newer(t, d)' \subseteq Time
            BY DEF Newer, Time
        <3> QED
            BY <2>3, <3>1, <3>2, <1>4, MoreTimes DEF Kept
    <2>5. CASE ~(t <= x)
        <3>1. t # x /\ \A s \in Time : s > t => s # x
            BY <2>1, <2>5 DEF Time
        <3>2. Newer(t, d) \subseteq Newer(t, d)'
            BY <2>2, <3>1 DEF Newer, Time
        <3>3. Newer(t, d)' \subseteq Time
            BY DEF Newer, Time
        <3>4. WholeSet(t, d) => WholeSet(t, d)'
            BY <2>2, <3>1
        <3> QED
            BY <1>2, <1>4, <3>2, <3>3, <3>4, MoreTimes DEF Kept
    <2> QED
        BY <2>4, <2>5
<1> QED
    BY <1>3, <1>4

\* Snapshots are no part of a flat set.
LEMMA WithoutSnapshots ==
    ASSUME NEW d \in Dest, objects'[d] \subseteq objects[d],
           \A o \in objects[d] \ objects'[d] : Mode = "incremental" /\ o.part = "files",
           \A e \in Dest : e # d => objects'[e] = objects[e]
    PROVE  \A e \in Dest, t \in Time : WholeSet(t, e) <=> WholeSet(t, e)'
<1> SUFFICES ASSUME NEW e \in Dest, NEW t \in Time
             PROVE  WholeSet(t, e) <=> WholeSet(t, e)'
    OBVIOUS
<1>1. CASE e # d
    BY <1>1 DEF WholeSet
<1>2. CASE e = d
    <2>1. ASSUME NEW part \in SetPart \cup {"marker"}
          PROVE  Has(t, part, d) <=> Has(t, part, d)'
        <3>1. part # "files" \/ Mode = "full"
            BY ConstantsAssumption DEF SetPart, Part
        <3> QED
            BY <3>1, ConstantsAssumption DEF Has
    <2> QED
        BY <1>2, <2>1 DEF WholeSet, SetPart, Has
<1> QED
    BY <1>1, <1>2


\* Who is idle stores nothing.
LEMMA OnlyOneStores ==
    ASSUME StoredSoFar, NEW p \in Proc, \A q \in Proc : q # p => pc'[q] = "idle",
           StoredBy(p)'
    PROVE  StoredSoFar'
BY DEF StoredSoFar, StoredBy

\* The same rows, markers and objects.
LEMMA SetsStay ==
    ASSUME CompleteKept, rows' = rows, objects' = objects
    PROVE  CompleteKept'
BY DEF CompleteKept, Kept, Newer, Succeeded, Marked, WholeSet, Time, HasSet

\* Where a step at a destination leads, everybody else is idle.
LEMMA WorkTurn ==
    ASSUME Control, NEW p \in Proc, pc[p] \in Working, Works(p)
    PROVE  /\ \A q \in Proc : q # p => pc'[q] = "idle"
           /\ rows' = rows /\ run' = run /\ run[p] = clock /\ clock \in Time
           /\ rows[clock].status = "running"
           /\ Scope(p) \in {"full", "database_only"}
<1>1. PICK phase \in Working, i \in Nat : Go(p, phase, i)
    BY DEF Works, WorkStep
<1>2. \A q \in Proc : q # p => pc'[q] = "idle"
    BY <1>1, Turn DEF Working, Phases
<1>3. rows' = rows /\ run' = run
    BY DEF Works, WorkStep
<1> QED
    BY <1>2, <1>3 DEF Control, AtWork, Scope, Row

LEMMA UploadKeepsSets ==
    ASSUME Control, Sets, NEW p \in Proc, Upload(p)
    PROVE  Sets'
<1> DEFINE u == Uploads(Scope(p))
<1>1. pc[p] = "upload" /\ outcome' = outcome
    BY DEF Upload
<1>2. /\ at[p] \in 1 .. Len(u) /\ Len(u) \in Nat
      /\ u[at[p]].part \in Part /\ u[at[p]].dest \in Dest
      /\ skipped[p] \in BOOLEAN
    BY <1>1, UploadPlace
<1>3. /\ \A q \in Proc : q # p => pc'[q] = "idle"
      /\ rows' = rows /\ run' = run /\ run[p] \in Time
    BY <1>1, UploadWorks, WorkTurn DEF Working
<1>4. Scope(p)' = Scope(p) /\ Uploads(Scope(p))' = u
    BY <1>3 DEF Scope, Uploads, Parts
<1>5. PICK w \in BOOLEAN :
          /\ objects' = [objects EXCEPT ![u[at[p]].dest] =
                            @ \cup {Stored(p, u[at[p]].part, w)}]
          /\ skipped' = [skipped EXCEPT ![p] = @ \/ ~w]
          /\ IF at[p] < Len(u) THEN Go(p, "upload", at[p] + 1)
             ELSE AfterUploads(p, skipped[p] \/ ~w)
    BY <1>1, UploadPlace DEF Upload
<1>6. skipped'[p] = (skipped[p] \/ ~w)
    BY <1>5 DEF Control, TypeOK
<1>7. \A d \in Dest : objects[d] \subseteq objects'[d]
    BY <1>5 DEF Control, TypeOK
<1>8. ~skipped'[p] =>
          \A i \in 1 .. at[p] : Has(run[p], u[i].part, u[i].dest)'
    <2> SUFFICES ASSUME ~skipped'[p], NEW i \in 1 .. at[p]
                 PROVE  [run |-> run[p], part |-> u[i].part, whole |-> TRUE]
                            \in objects'[u[i].dest]
        BY <1>3, <1>4 DEF Has
    <2>1. u[i].dest \in Dest
        BY <1>1, <1>2, UploadPlace, UploadsAre
    <2>2. CASE i = at[p]
        BY <1>2, <1>5, <1>6, <2>2 DEF Stored, Control, TypeOK
    <2>3. CASE i # at[p]
        <3>1. i \in 1 .. at[p] - 1
            BY <1>2, <2>3
        <3> QED
            BY <1>1, <1>6, <1>7, <2>1, <3>1 DEF Sets, StoredSoFar, StoredBy, Has
    <2> QED
        BY <2>2, <2>3
<1>9. pc \in [Proc -> Phases] /\ at \in [Proc -> Nat]
    BY DEF Control, TypeOK
<1>10. StoredBy(p)'
    <2>1. CASE at[p] < Len(u)
        <3>1. pc'[p] = "upload" /\ at'[p] = at[p] + 1
            BY <1>5, <1>9, <2>1 DEF Go
        <3>2. \A i \in 1 .. (at'[p] - 1) : i \in 1 .. at[p]
            BY <1>2, <3>1
        <3> QED
            BY <1>3, <1>4, <1>8, <3>1, <3>2 DEF StoredBy
    <2>2. CASE ~(at[p] < Len(u))
        <3>1. AfterUploads(p, skipped[p] \/ ~w) /\ at[p] = Len(u)
            BY <1>2, <1>5, <2>2
        <3>2. CASE Scope(p) # "full" \/ skipped'[p]
            <4>1. pc'[p] = "finish"
                BY <1>6, <1>9, <3>1, <3>2 DEF AfterUploads, Go
            <4> QED
                BY <1>4, <3>2, <4>1 DEF StoredBy
        <3>3. CASE Scope(p) = "full" /\ ~skipped'[p]
            <4>1. \A part \in Part, d \in Dest : Has(run[p], part, d)'
                <5> SUFFICES ASSUME NEW part \in Part, NEW d \in Dest
                             PROVE  Has(run[p], part, d)'
                    OBVIOUS
                <5>1. PICK i \in 1 .. Len(u) : u[i].part = part /\ u[i].dest = d
                    BY <3>3, UploadsAre
                <5> QED
                    BY <1>3, <1>4, <1>8, <3>1, <3>3, <5>1 DEF Has
            <4>2. \/ HasSet /\ Go(p, "mark", 1)
                  \/ ~HasSet /\ Go(p, "forget", 1)
                BY <1>6, <3>1, <3>3 DEF AfterUploads
            <4>3. CASE HasSet /\ Go(p, "mark", 1)
                <5>1. pc'[p] = "mark" /\ at'[p] = 1
                    BY <1>9, <4>3 DEF Go
                <5>2. SetPart \subseteq Part
                    BY DEF SetPart
                <5> QED
                    BY <1>4, <3>3, <4>1, <4>3, <5>1, <5>2
                    DEF StoredBy, HasSet, SetPart
            <4>4. CASE ~HasSet /\ Go(p, "forget", 1)
                <5>1. pc'[p] = "forget"
                    BY <1>9, <4>4 DEF Go
                <5> QED
                    BY <1>4, <3>3, <4>4, <5>1 DEF StoredBy, Everywhere, HasSet
            <4> QED
                BY <4>2, <4>3, <4>4
        <3> QED
            BY <3>2, <3>3
    <2> QED
        BY <2>1, <2>2
<1>11. \A d \in Dest : Marked(d)' = Marked(d)
    <2> SUFFICES ASSUME NEW d \in Dest PROVE Marked(d)' = Marked(d)
        OBVIOUS
    <2>1. Stored(p, u[at[p]].part, w).part # "marker"
        BY <1>2, ConstantsAssumption DEF Stored
    <2>2. \A o \in objects'[d] : o.part = "marker" => o \in objects[d]
        BY <1>5, <2>1 DEF Control, TypeOK
    <2>3. {o \in objects'[d] : o.part = "marker"} = {o \in objects[d] : o.part = "marker"}
        BY <1>7, <2>2
    <2> QED
        BY <2>3 DEF Marked
<1>12. CompleteKept'
    BY <1>3, <1>7, <1>11, KeptOnGrowth DEF Sets, Succeeded
<1> QED
    BY <1>3, <1>10, <1>12, OnlyOneStores DEF Sets

\* Storing an object that is no marker marks nothing.
LEMMA SameMarks ==
    ASSUME Control, NEW p \in Proc, NEW d \in Dest, NEW part \in Part, NEW w \in BOOLEAN,
           objects' = [objects EXCEPT ![d] = @ \cup {Stored(p, part, w)}]
    PROVE  \A e \in Dest : Marked(e)' = Marked(e) /\ objects[e] \subseteq objects'[e]
<1> SUFFICES ASSUME NEW e \in Dest
             PROVE  Marked(e)' = Marked(e) /\ objects[e] \subseteq objects'[e]
    OBVIOUS
<1>1. objects[e] \subseteq objects'[e]
    BY DEF Control, TypeOK
<1>2. Stored(p, part, w).part # "marker"
    BY ConstantsAssumption DEF Stored
<1>3. \A o \in objects'[e] : o.part = "marker" => o \in objects[e]
    BY <1>2 DEF Control, TypeOK
<1>4. {o \in objects'[e] : o.part = "marker"} = {o \in objects[e] : o.part = "marker"}
    BY <1>1, <1>3
<1> QED
    BY <1>1, <1>4 DEF Marked

\* A run that has failed owes nothing.
LEMMA FailStores ==
    ASSUME Control, Sets, NEW p \in Proc, NEW s \in {"failed", "cancelled"}, Fail(p, s)
    PROVE  StoredBy(p)'
<1>1. pc'[p] = "finish" /\ outcome'[p] = s
    BY DEF Control, TypeOK, Fail, Go
<1> QED
    BY <1>1 DEF StoredBy

LEMMA UploadFailsKeepsSets ==
    ASSUME Control, Sets, NEW p \in Proc, UploadFails(p)
    PROVE  Sets'
<1> DEFINE u == Uploads(Scope(p))
<1>1. pc[p] = "upload"
    BY DEF UploadFails
<1>2. u[at[p]].part \in Part /\ u[at[p]].dest \in Dest
    BY <1>1, UploadPlace
<1>3. /\ \A q \in Proc : q # p => pc'[q] = "idle"
      /\ rows' = rows /\ run' = run
    BY <1>1, UploadFailsWorks, WorkTurn DEF Working
<1>4. PICK s \in {"failed", "cancelled"} : Fail(p, s)
    BY DEF UploadFails, FailStatus
<1>5. PICK w \in BOOLEAN :
          objects' \in {objects, [objects EXCEPT ![u[at[p]].dest] =
                                     @ \cup {Stored(p, u[at[p]].part, w)}]}
    BY <1>1, UploadPlace DEF UploadFails
<1>6. CompleteKept'
    <2>1. CASE objects' = objects
        BY <1>3, <2>1, SetsStay DEF Sets
    <2>2. CASE objects' # objects
        <3>1. \A e \in Dest : Marked(e)' = Marked(e) /\ objects[e] \subseteq objects'[e]
            BY <1>2, <1>5, <2>2, SameMarks
        <3> QED
            BY <1>3, <3>1, KeptOnGrowth DEF Sets, Succeeded
    <2> QED
        BY <2>1, <2>2
<1> QED
    BY <1>3, <1>4, <1>6, FailStores, OnlyOneStores DEF Sets

\* With its marker, the set of a run that has stored every part is whole.
LEMMA MarkerMakesWhole ==
    ASSUME Control, Sets, NEW p \in Proc, pc[p] = "mark",
           objects' = [objects EXCEPT ![Dests[at[p]]] =
                          @ \cup {Stored(p, "marker", TRUE)}]
    PROVE  /\ \A e \in Dest : objects[e] \subseteq objects'[e]
           /\ Stored(p, "marker", TRUE) \in objects'[Dests[at[p]]]
           /\ \A e \in Dest : \A t \in Marked(e)' :
                 t \in Marked(e) \/ WholeSet(t, e)'
<1> DEFINE d == Dests[at[p]]
<1>1. d \in Dest
    BY DestPlace
<1>2. \A e \in Dest : objects[e] \subseteq objects'[e]
    BY DEF Control, TypeOK
<1>3. Stored(p, "marker", TRUE) \in objects'[d]
    BY <1>1 DEF Control, TypeOK
<1>4. ASSUME NEW e \in Dest, NEW t \in Marked(e)', t \notin Marked(e)
      PROVE  WholeSet(t, e)'
    <2>1. PICK o \in objects'[e] : o.part = "marker" /\ o.run = t
        BY DEF Marked
    <2>2. o \notin objects[e]
        BY <1>4, <2>1 DEF Marked
    <2>3. e = d /\ o = Stored(p, "marker", TRUE)
        BY <1>1, <2>1, <2>2 DEF Control, TypeOK
    <2>4. t = run[p]
        BY <2>1, <2>3 DEF Stored
    <2>5. \A part \in SetPart : [run |-> t, part |-> part, whole |-> TRUE] \in objects'[e]
        BY <1>2, <2>4 DEF Sets, StoredSoFar, StoredBy, Has
    <2>6. [run |-> t, part |-> "marker", whole |-> TRUE] \in objects'[e]
        BY <1>3, <2>3, <2>4 DEF Stored
    <2> QED
        BY <2>5, <2>6 DEF WholeSet, SetPart
<1> QED
    BY <1>2, <1>3, <1>4

LEMMA MarkKeepsSets ==
    ASSUME Control, Sets, NEW p \in Proc, Mark(p)
    PROVE  Sets'
<1> DEFINE d == Dests[at[p]]
<1>1. /\ pc[p] = "mark" /\ skipped' = skipped
      /\ objects' = [objects EXCEPT ![d] = @ \cup {Stored(p, "marker", TRUE)}]
    BY DEF Mark
<1>2. at[p] \in 1 .. Len(Dests) /\ Len(Dests) \in Nat \ {0} /\ d \in Dest
    BY <1>1, DestPlace
<1>3. /\ \A q \in Proc : q # p => pc'[q] = "idle"
      /\ rows' = rows /\ run' = run /\ run[p] \in Time
    BY <1>1, MarkWorks, WorkTurn DEF Working
<1>4. Scope(p)' = Scope(p)
    BY <1>3 DEF Scope
<1>5. /\ \A e \in Dest : objects[e] \subseteq objects'[e]
      /\ Stored(p, "marker", TRUE) \in objects'[d]
      /\ \A e \in Dest : \A t \in Marked(e)' : t \in Marked(e) \/ WholeSet(t, e)'
    BY <1>1, <1>3, MarkerMakesWhole
<1>6. CompleteKept'
    BY <1>3, <1>5, KeptOnGrowth DEF Sets, Succeeded
<1>7. /\ HasSet /\ Scope(p) = "full" /\ ~skipped[p]
      /\ \A e \in Dest, part \in SetPart : Has(run[p], part, e)
      /\ \A i \in 1 .. at[p] - 1 : Has(run[p], "marker", Dests[i])
    BY <1>1 DEF Sets, StoredSoFar, StoredBy
<1>8. /\ \A e \in Dest, part \in SetPart : Has(run[p], part, e)'
      /\ \A i \in 1 .. at[p] : Has(run[p], "marker", Dests[i])'
    <2>1. \A e \in Dest, part \in SetPart : Has(run[p], part, e)'
        BY <1>3, <1>5, <1>7 DEF Has
    <2>2. ASSUME NEW i \in 1 .. at[p]
          PROVE  Has(run[p], "marker", Dests[i])'
        <3>1. Dests[i] \in Dest
            BY <1>2, DestsAre
        <3>2. CASE i = at[p]
            BY <1>3, <1>5, <3>2 DEF Has, Stored
        <3>3. CASE i # at[p]
            <4>1. i \in 1 .. at[p] - 1
                BY <1>2, <3>3
            <4> QED
                BY <1>3, <1>5, <1>7, <3>1, <4>1 DEF Has
        <3> QED
            BY <3>2, <3>3
    <2> QED
        BY <2>1, <2>2
<1>9. pc \in [Proc -> Phases] /\ at \in [Proc -> Nat]
    BY DEF Control, TypeOK
<1>10. StoredBy(p)'
    <2>1. CASE at[p] < Len(Dests)
        <3>1. pc'[p] = "mark" /\ at'[p] = at[p] + 1
            BY <1>1, <1>9, <2>1 DEF Mark, Go
        <3>2. \A i \in 1 .. (at'[p] - 1) : i \in 1 .. at[p]
            BY <1>2, <3>1
        <3> QED
            BY <1>1, <1>3, <1>4, <1>7, <1>8, <3>1, <3>2 DEF StoredBy, HasSet, SetPart
    <2>2. CASE ~(at[p] < Len(Dests))
        <3>1. pc'[p] = "forget"
            BY <1>1, <1>9, <2>2 DEF Mark, Go
        <3>2. ASSUME NEW e \in Dest PROVE WholeSet(run[p], e)'
            <4>1. PICK i \in 1 .. Len(Dests) : e = Dests[i]
                BY DestsAre
            <4>2. i \in 1 .. at[p]
                BY <1>2, <2>2
            <4>3. Has(run[p], "marker", e)' /\ \A part \in SetPart : Has(run[p], part, e)'
                BY <1>8, <4>1, <4>2
            <4> QED
                BY <4>3, <1>3 DEF WholeSet, Has, SetPart
        <3> QED
            BY <1>1, <1>3, <1>4, <1>7, <3>1, <3>2 DEF StoredBy, Everywhere, HasSet
    <2> QED
        BY <2>1, <2>2
<1> QED
    BY <1>3, <1>6, <1>10, OnlyOneStores DEF Sets

LEMMA MarkFailsKeepsSets ==
    ASSUME Control, Sets, NEW p \in Proc, MarkFails(p)
    PROVE  Sets'
<1>1. pc[p] = "mark"
    BY DEF MarkFails
<1>2. /\ \A q \in Proc : q # p => pc'[q] = "idle"
      /\ rows' = rows /\ run' = run
    BY <1>1, MarkFailsWorks, WorkTurn DEF Working
<1>3. PICK s \in {"failed", "cancelled"} : Fail(p, s)
    BY DEF MarkFails, FailStatus
<1>4. CompleteKept'
    <2>1. CASE objects' = objects
        BY <1>2, <2>1, SetsStay DEF Sets
    <2>2. CASE objects' # objects
        <3>1. objects' = [objects EXCEPT ![Dests[at[p]]] =
                             @ \cup {Stored(p, "marker", TRUE)}]
            BY <2>2 DEF MarkFails
        <3>2. /\ \A e \in Dest : objects[e] \subseteq objects'[e]
              /\ \A e \in Dest : \A t \in Marked(e)' : t \in Marked(e) \/ WholeSet(t, e)'
            BY <1>1, <3>1, MarkerMakesWhole
        <3> QED
            BY <1>2, <3>2, KeptOnGrowth DEF Sets, Succeeded
    <2> QED
        BY <2>1, <2>2
<1> QED
    BY <1>2, <1>3, <1>4, FailStores, OnlyOneStores DEF Sets

\* What retention removes at a destination: snapshots, which are no part of a
\* flat set, or objects of a set that has expired.
RemovesSnapshots(d) ==
    \A o \in objects[d] \ objects'[d] : o \in Forgotten(d)
RemovesExpired(d) ==
    \E t \in Expired(d) : \A o \in objects[d] \ objects'[d] : o.run = t

LEMMA RetentionRemoves ==
    ASSUME Control, NEW p \in Proc,
           \/ ForgetSnapshots(p) \/ ForgetFails(p)
           \/ ExpireSet(p) \/ SetsExpired(p) \/ ExpireFails(p)
    PROVE  \E d \in Dest :
               /\ objects'[d] \subseteq objects[d]
               /\ \A e \in Dest : e # d => objects'[e] = objects[e]
               /\ RemovesSnapshots(d) \/ RemovesExpired(d)
<1> DEFINE d == Dests[at[p]]
<1>1. pc[p] \in {"forget", "expire"}
    BY DEF ForgetSnapshots, ForgetFails, ExpireSet, SetsExpired, ExpireFails
<1>2. d \in Dest /\ objects \in [Dest -> SUBSET Object]
    BY <1>1, DestPlace DEF Control, TypeOK
<1>3. ASSUME NEW gone, objects' = [objects EXCEPT ![d] = @ \ gone]
      PROVE  /\ objects'[d] \subseteq objects[d]
             /\ \A e \in Dest : e # d => objects'[e] = objects[e]
             /\ \A o \in objects[d] \ objects'[d] : o \in gone
    BY <1>2, <1>3
<1>4. CASE ForgetSnapshots(p)
    <2>1. objects' = [objects EXCEPT ![d] = @ \ Forgotten(d)]
        BY <1>4 DEF ForgetSnapshots
    <2> QED
        BY <1>2, <1>3, <2>1 DEF RemovesSnapshots
<1>5. CASE ForgetFails(p)
    <2>1. PICK gone \in SUBSET Forgotten(d) : objects' = [objects EXCEPT ![d] = @ \ gone]
        BY <1>5 DEF ForgetFails
    <2>2. RemovesSnapshots(d)
        BY <1>3, <2>1 DEF RemovesSnapshots
    <2> QED
        BY <1>2, <1>3, <2>1, <2>2
<1>6. CASE ExpireSet(p)
    <2>1. PICK t \in NextExpired(d) : objects' = [objects EXCEPT ![d] = @ \ SetOf(t, d)]
        BY <1>6 DEF ExpireSet
    <2>2. t \in Expired(d) /\ \A o \in SetOf(t, d) : o.run = t
        BY <2>1 DEF NextExpired, SetOf
    <2>3. RemovesExpired(d)
        BY <1>3, <2>1, <2>2 DEF RemovesExpired
    <2> QED
        BY <1>2, <1>3, <2>1, <2>3
<1>7. CASE SetsExpired(p)
    <2>1. objects' = objects
        BY <1>7 DEF SetsExpired, store
    <2> QED
        BY <1>2, <2>1 DEF RemovesSnapshots
<1>8. CASE ExpireFails(p)
    <2>0. PICK t \in NextExpired(d) :
              \E gone \in SUBSET SetOf(t, d) : objects' = [objects EXCEPT ![d] = @ \ gone]
        BY <1>8 DEF ExpireFails
    <2>1. PICK gone \in SUBSET SetOf(t, d) : objects' = [objects EXCEPT ![d] = @ \ gone]
        BY <2>0
    <2>2. t \in Expired(d) /\ \A o \in gone : o.run = t
        BY DEF NextExpired, SetOf
    <2>3. RemovesExpired(d)
        BY <1>3, <2>1, <2>2 DEF RemovesExpired
    <2> QED
        BY <1>2, <1>3, <2>1, <2>3
<1> QED
    BY <1>4, <1>5, <1>6, <1>7, <1>8

\* A run that prunes is complete, and stays so while it prunes.
LEMMA RetentionKeepsSets ==
    ASSUME Control, Sets, Forward, NEW p \in Proc,
           \/ ForgetSnapshots(p) \/ ForgetFails(p)
           \/ ExpireSet(p) \/ SetsExpired(p) \/ ExpireFails(p)
    PROVE  Sets'
<1>1. /\ pc[p] \in {"forget", "expire"} /\ skipped' = skipped
    BY DEF ForgetSnapshots, ForgetFails, ExpireSet, SetsExpired, ExpireFails
<1>2. /\ \A q \in Proc : q # p => pc'[q] = "idle"
      /\ rows' = rows /\ run' = run /\ run[p] = clock /\ clock \in Time
    BY <1>1, RetentionWorks, WorkTurn DEF Working
<1>3. Scope(p)' = Scope(p)
    BY <1>2 DEF Scope
<1>4. PICK d \in Dest :
          /\ objects'[d] \subseteq objects[d]
          /\ \A e \in Dest : e # d => objects'[e] = objects[e]
          /\ RemovesSnapshots(d) \/ RemovesExpired(d)
    BY RetentionRemoves
<1>5. /\ CompleteKept'
      /\ \A e \in Dest : WholeSet(run[p], e) => WholeSet(run[p], e)'
    <2>1. CASE RemovesSnapshots(d)
        <3>1. \A e \in Dest, t \in Time : WholeSet(t, e) <=> WholeSet(t, e)'
            BY <1>4, <2>1, WithoutSnapshots DEF RemovesSnapshots, Forgotten, Snapshots
        <3>2. \A e \in Dest : Marked(e)' \subseteq Marked(e)
            BY <1>4 DEF Marked
        <3>3. \A e \in Dest, t \in Time : Newer(t, e)' = Newer(t, e)
            BY <3>1 DEF Newer, Time
        <3>4. CompleteKept'
            BY <1>2, <3>1, <3>2, <3>3 DEF Sets, CompleteKept, Kept, Succeeded, HasSet, Time
        <3> QED
            BY <1>2, <3>1, <3>4 DEF WholeSet
    <2>2. CASE RemovesExpired(d)
        <3>1. PICK x \in Expired(d) : \A o \in objects[d] \ objects'[d] : o.run = x
            BY <2>2 DEF RemovesExpired
        <3>2. CompleteKept'
            BY <1>2, <1>4, <3>1, KeptOnExpiry DEF Sets
        <3>3. x # run[p]
            <4>1. x \in Time /\ x < clock
                BY <3>1, ExpiredIsOld
            <4> QED
                BY <1>2, <4>1 DEF Time
        <3>4. \A e \in Dest : WholeSet(run[p], e) => WholeSet(run[p], e)'
            BY <1>2, <1>4, <3>1, <3>3 DEF WholeSet
        <3> QED
            BY <3>2, <3>4
    <2> QED
        BY <1>4, <2>1, <2>2
<1>6. Everywhere(run[p])'
    BY <1>1, <1>2, <1>5 DEF Sets, StoredSoFar, StoredBy, Everywhere, HasSet
<1>7. Scope(p) = "full" /\ ~skipped[p]
    BY <1>1 DEF Sets, StoredSoFar, StoredBy
<1>8. pc'[p] \in {"forget", "expire", "finish"}
    BY <1>1 DEF Control, TypeOK, ForgetSnapshots, ForgetFails, ExpireSet, SetsExpired,
       ExpireFails, AfterExpire, Fail, Go
<1>9. StoredBy(p)'
    BY <1>1, <1>3, <1>6, <1>7, <1>8 DEF StoredBy
<1> QED
    BY <1>2, <1>5, <1>9, OnlyOneStores DEF Sets

\* A run that succeeded is complete: it could read everything, and nothing of it
\* failed.
LEMMA FinishKeepsSets ==
    ASSUME Control, Sets, NEW p \in Proc, Finish(p)
    PROVE  Sets'
<1>1. /\ pc[p] = "finish" /\ Go(p, "notify", 0) /\ objects' = objects
      /\ rows' = [rows EXCEPT ![run[p]].status = Status(p)]
    BY DEF Finish
<1>2. /\ \A q \in Proc : q # p => pc'[q] = "idle"
      /\ pc'[p] = "notify"
    BY <1>1, Turn DEF Phases
<1>3. /\ run[p] = clock /\ clock \in Time
      /\ outcome[p] \in {"none", "failed", "cancelled"}
    BY <1>1 DEF Control, AtWork, Working
<1>4. rows \in [Time -> Row \cup {NoRow}] /\ rows[clock] \in Row
    BY <1>1 DEF Control, TypeOK, AtWork, Working
<1>5. /\ \A t \in Time : t # clock => rows'[t] = rows[t]
      /\ rows'[clock].status = Status(p) /\ rows'[clock].scope = rows[clock].scope
    BY <1>1, <1>3, <1>4 DEF Row
<1>6. \A t \in Time, d \in Dest : HasSet /\ Succeeded(t)' => Succeeded(t) \/ WholeSet(t, d)'
    <2> SUFFICES ASSUME NEW t \in Time, NEW d \in Dest, HasSet, Succeeded(t)', ~Succeeded(t)
                 PROVE  WholeSet(t, d)'
        BY DEF HasSet
    <2>1. t = clock
        BY <1>5 DEF Succeeded
    <2>2. Status(p) \in {"success", "no_change"} /\ Scope(p) = "full"
        BY <1>3, <1>5, <2>1 DEF Succeeded, Scope
    <2>3. outcome[p] = "none" /\ ~skipped[p]
        BY <1>3, <2>2 DEF Status
    <2>4. WholeSet(clock, d)
        BY <1>1, <1>3, <2>2, <2>3 DEF Sets, StoredSoFar, StoredBy, Everywhere
    <2> QED
        BY <1>1, <2>1, <2>4 DEF WholeSet
<1>7. \A d \in Dest : Marked(d)' = Marked(d) /\ objects[d] \subseteq objects'[d]
    BY <1>1 DEF Marked
<1>8. CompleteKept'
    BY <1>6, <1>7, KeptOnGrowth DEF Sets
<1>9. StoredBy(p)'
    BY <1>2 DEF StoredBy
<1> QED
    BY <1>2, <1>8, <1>9, OnlyOneStores DEF Sets

\* A run that begins has stored nothing, and one before or after its work owes
\* nothing.
LEMMA OthersKeepSets ==
    ASSUME Control, Sets, NEW p \in Proc,
           \/ TryLock(p) \/ NotStarted(p) \/ FinishFails(p) \/ Notify(p)
           \/ Release(p) \/ Crash(p)
    PROVE  Sets'
<1>1. rows' = rows /\ objects' = objects
    BY DEF TryLock, NotStarted, FinishFails, Notify, Release, Crash, store
<1>2. PICK phase \in {"start", "release", "notify", "idle"} : Go(p, phase, 0)
    BY DEF TryLock, NotStarted, FinishFails, Notify, Release, Crash, End
<1>3. pc'[p] = phase /\ \A q \in Proc : q # p => pc'[q] = "idle"
    <2>1. CASE TryLock(p)
        <3>1. \A q \in Proc : pc[q] = "idle"
            BY <2>1, ConstantsAssumption DEF TryLock, Control, Locked
        <3> QED
            BY <1>2, <3>1 DEF Control, TypeOK, Go
    <2>2. CASE ~TryLock(p)
        <3>1. pc[p] # "idle"
            BY <2>2 DEF NotStarted, FinishFails, Notify, Release, Crash
        <3> QED
            BY <1>2, <3>1, Turn DEF Phases
    <2> QED
        BY <2>1, <2>2
<1>4. StoredBy(p)'
    BY <1>2, <1>3 DEF StoredBy
<1> QED
    BY <1>1, <1>3, <1>4, OnlyOneStores, SetsStay DEF Sets

LEMMA StartKeepsSets ==
    ASSUME Control, Sets, NEW p \in Proc, NEW scope \in {"full", "database_only"},
           NEW forced \in BOOLEAN, Start(p, scope, forced)
    PROVE  Sets'
<1>1. /\ pc[p] = "start" /\ Go(p, "upload", 1) /\ objects' = objects
      /\ clock \in 0 .. MaxTime
    BY DEF Start, Control, TypeOK
<1>2. /\ pc'[p] = "upload" /\ at'[p] = 1
      /\ \A q \in Proc : q # p => pc'[q] = "idle"
    BY <1>1, Turn DEF Phases
<1>3. \A t \in Time : Succeeded(t)' => Succeeded(t)
    <2>1. PICK c \in Content :
              rows' = [rows EXCEPT ![clock + 1] = [scope |-> scope, forced |-> forced,
                                                   status |-> "running", content |-> c]]
        BY DEF Start
    <2>2. rows \in [Time -> Row \cup {NoRow}]
        BY DEF Control, TypeOK
    <2> QED
        BY <2>1, <2>2 DEF Succeeded
<1>4. \A d \in Dest : Marked(d)' = Marked(d) /\ objects[d] \subseteq objects'[d]
    BY <1>1 DEF Marked
<1>5. CompleteKept'
    BY <1>3, <1>4, KeptOnGrowth DEF Sets
<1>6. StoredBy(p)'
    BY <1>2 DEF StoredBy
<1> QED
    BY <1>2, <1>5, <1>6, OnlyOneStores DEF Sets

LEMMA NextKeepsSets ==
    ASSUME Forward, Control, Sets, [Next]_vars
    PROVE  Sets'
<1>1. ASSUME NEW p \in Proc, TryLock(p) PROVE Sets'
    BY <1>1, OthersKeepSets
<1>2. ASSUME NEW p \in Proc, Crash(p) PROVE Sets'
    BY <1>2, OthersKeepSets
<1>3. ASSUME NEW p \in Proc, Step(p) PROVE Sets'
    <2>1. CASE NotStarted(p) \/ FinishFails(p) \/ Notify(p) \/ Release(p)
        BY <2>1, OthersKeepSets
    <2>2. CASE \E scope \in {"full", "database_only"}, forced \in BOOLEAN :
                  Start(p, scope, forced)
        BY <2>2, StartKeepsSets
    <2>3. CASE Upload(p)
        BY <2>3, UploadKeepsSets
    <2>4. CASE UploadFails(p)
        BY <2>4, UploadFailsKeepsSets
    <2>5. CASE Mark(p)
        BY <2>5, MarkKeepsSets
    <2>6. CASE MarkFails(p)
        BY <2>6, MarkFailsKeepsSets
    <2>7. CASE \/ ForgetSnapshots(p) \/ ForgetFails(p)
               \/ ExpireSet(p) \/ SetsExpired(p) \/ ExpireFails(p)
        BY <2>7, RetentionKeepsSets
    <2>8. CASE Finish(p)
        BY <2>8, FinishKeepsSets
    <2> QED
        BY <1>3, <2>1, <2>2, <2>3, <2>4, <2>5, <2>6, <2>7, <2>8 DEF Step
<1>4. CASE UNCHANGED vars
    <2>1. /\ rows' = rows /\ objects' = objects /\ pc' = pc /\ run' = run
          /\ at' = at /\ skipped' = skipped /\ outcome' = outcome
        BY <1>4 DEF vars
    <2>2. StoredSoFar'
        <3> SUFFICES ASSUME NEW p \in Proc PROVE StoredBy(p)'
            BY DEF StoredSoFar
        <3>1. StoredBy(p)
            BY DEF Sets, StoredSoFar
        <3>2. Scope(p)' = Scope(p) /\ Uploads(Scope(p))' = Uploads(Scope(p))
            BY <2>1 DEF Scope, Uploads, Parts
        <3>3. \A t, part, d : Has(t, part, d)' <=> Has(t, part, d)
            BY <2>1 DEF Has
        <3>4. \A t : Everywhere(t)' <=> Everywhere(t)
            BY <2>1 DEF Everywhere, WholeSet, HasSet
        <3> QED
            BY <2>1, <3>1, <3>2, <3>3, <3>4 DEF StoredBy, HasSet, SetPart
    <2> QED
        BY <2>1, <2>2, SetsStay DEF Sets
<1> QED
    BY <1>1, <1>2, <1>3, <1>4 DEF Next

LEMMA InitSets == Init => Sets
<1> SUFFICES ASSUME Init PROVE Sets
    OBVIOUS
<1>1. StoredSoFar
    BY DEF Init, StoredSoFar, StoredBy
<1>2. CompleteKept
    BY DEF Init, CompleteKept, Succeeded, Marked, NoRow
<1> QED
    BY <1>1, <1>2 DEF Sets

\* Whoever removes what another run stored has completed its own set first.
LEMMA NextPrunesAfterCommit ==
    ASSUME Forward, Control, Sets, Next, NEW d \in Dest, NEW o \in objects[d] \ objects'[d]
    PROVE  /\ siteLock # None /\ o.run # run[siteLock]
           /\ HasSet => \A e \in Dest : WholeSet(run[siteLock], e)
<1>1. PICK p \in Proc : TryLock(p) \/ Step(p) \/ Crash(p)
    BY DEF Next
<1>2. objects' # objects
    OBVIOUS
<1>3. ~(Mark(p) \/ MarkFails(p) \/ Upload(p) \/ UploadFails(p))
    <2>1. ASSUME NEW x, NEW e, objects' = [objects EXCEPT ![e] = @ \cup {x}] PROVE FALSE
        BY <2>1 DEF Control, TypeOK
    <2> QED
        BY <1>2, <2>1 DEF Mark, MarkFails, Upload, UploadFails
<1>4. \/ ForgetSnapshots(p) \/ ForgetFails(p)
      \/ ExpireSet(p) \/ SetsExpired(p) \/ ExpireFails(p)
    BY <1>1, <1>2, <1>3 DEF Step, TryLock, NotStarted, Start, Finish, FinishFails, Notify,
       Release, Crash, store
<1>5. pc[p] \in {"forget", "expire"}
    BY <1>4 DEF ForgetSnapshots, ForgetFails, ExpireSet, SetsExpired, ExpireFails
<1>6. siteLock = p /\ siteLock # None
    BY <1>5, ConstantsAssumption DEF Control, Locked
<1>7. Everywhere(run[p])
    BY <1>5 DEF Sets, StoredSoFar, StoredBy
<1>8. run[p] = clock /\ clock \in Time
    BY <1>5 DEF Control, AtWork, Working
<1>9. o.run < clock
    <2>1. PICK e \in Dest :
              /\ objects'[e] \subseteq objects[e]
              /\ \A f \in Dest : f # e => objects'[f] = objects[f]
              /\ RemovesSnapshots(e) \/ RemovesExpired(e)
        BY <1>4, RetentionRemoves
    <2>2. e = d
        BY <2>1
    <2>3. CASE RemovesExpired(d)
        BY <2>3, ExpiredIsOld DEF RemovesExpired
    <2>4. CASE RemovesSnapshots(d)
        <3> DEFINE N == {x \in Snapshots(d) : x.run > o.run}
        <3>1. o \in Forgotten(d)
            BY <2>4 DEF RemovesSnapshots
        <3>2. Cardinality(N) >= KeepLast
            BY <3>1 DEF Forgotten
        <3>3. N # {}
            <4> SUFFICES ASSUME N = {} PROVE FALSE
                OBVIOUS
            <4>1. Cardinality(N) = 0
                BY FS_EmptySet
            <4> QED
                BY <3>2, <4>1, ConstantsAssumption
        <3>4. PICK x \in Snapshots(d) : x.run > o.run
            BY <3>3
        <3>5. x \in objects[d] /\ x.run <= clock /\ x.run \in Time /\ o.run \in Time
            BY <3>4 DEF Snapshots, Control, NoFuture, TypeOK, Object
        <3> QED
            BY <3>4, <3>5, <1>8 DEF Time
    <2> QED
        BY <2>1, <2>2, <2>3, <2>4
<1> QED
    BY <1>6, <1>7, <1>8, <1>9 DEF Everywhere, Time

\* The inductive invariant of a site's sets: what a run has stored so far is
\* whole, and what is called complete is whole or has been replaced.
THEOREM SetsInvariance ==
    ASSUME Forward
    PROVE  Spec => []Sets
<1>1. Control /\ Sets /\ [Next]_vars => Sets'
    BY NextKeepsSets
<1> QED
    BY <1>1, InitSets, ControlInvariance, PTL DEF Spec

\* The set of a run that history calls successful is at every destination until
\* keep_last newer complete sets are there.
THEOREM SuccessfulSetsStay ==
    ASSUME Forward
    PROVE  Spec => []SuccessfulSetsKept
<1>1. Sets => SuccessfulSetsKept
    BY DEF Sets, CompleteKept, SuccessfulSetsKept, Kept, Newer
<1> QED
    BY <1>1, SetsInvariance, PTL

\* Nothing of another run disappears before the running one is complete at every
\* destination.
THEOREM PrunesAfterCommit ==
    ASSUME Forward
    PROVE  Spec => PruneAfterCommit
<1>1. Control /\ Sets /\ [Next]_vars =>
         [\A d \in Dest : \A o \in objects[d] \ objects'[d] :
             /\ siteLock # None /\ o.run # run[siteLock]
             /\ HasSet => \A e \in Dest : WholeSet(run[siteLock], e)]_vars
    BY NextPrunesAfterCommit
<1> QED
    BY <1>1, ControlInvariance, SetsInvariance, PTL DEF Spec, PruneAfterCommit
=============================================================================
