--------------------------- MODULE BackupControl ----------------------------
(***************************************************************************)
(* Site locks on one machine and the commands that look at them:           *)
(* `bqckup backup active` and `bqckup backup stop`.                        *)
(*                                                                         *)
(* A backup process runs its sites in two lanes, full and incremental, and *)
(* holds the flock of the site each lane works on.  In the lock file it    *)
(* writes its identity (PID and start ticks) after it got the flock and    *)
(* clears it before it gives the flock up; the kernel drops the flock of a *)
(* dead process and leaves the file.  A control process reads the running  *)
(* rows of history, inspects every lock, decides, inspects again, sends    *)
(* SIGTERM and waits.  An inspection takes a free flock for a moment.      *)
(***************************************************************************)
EXTENDS Integers, FiniteSets

CONSTANTS
    Backup,         \* backup processes: a PID with its start ticks
    Ctl,            \* control processes
    Site,
    Plan,           \* the sites each backup process is asked to back up
    LaneOf,         \* the lane of each site
    All,            \* `stop --all`
    None,
    Crashable,      \* backup processes that may be killed
    RowsFail,       \* sites whose runs' outcomes may not reach history
    MetaFails       \* sites whose lock file cannot always be written

Proc == Backup \cup Ctl

ASSUME ConstantsAssumption ==
    /\ Backup \cap Ctl = {}
    /\ Plan \in [Backup -> SUBSET Site]
    /\ None \notin Proc \cup Site /\ All \notin Site
    /\ Crashable \subseteq Backup
    /\ RowsFail \subseteq Site /\ MetaFails \subseteq Site
    /\ {"none", "free", "unknown"} \cap (Backup \cup {None}) = {}

VARIABLES
    flock,          \* who has each site's flock
    meta,           \* the identity in each lock file
    rows,           \* running rows of history
    life,           \* each backup process: live, stopping (SIGTERM), dead
    todo,           \* sites it has still to back up
    phase,          \* where it is with each site
    pc,             \* each control process
    want,           \* what it was asked to stop
    cur,            \* the site it is inspecting
    why,            \* and what for
    saw,            \* what the first inspections found
    sawRows,        \* the running rows it has read
    victims,        \* processes it has still to signal
    target,         \* the process it signals now
    waiting         \* sites it has still to wait for

locks == <<flock, meta>>
work == <<rows, life, todo, phase>>
ctl == <<pc, want, cur, why, saw, sawRows, victims, target, waiting>>
vars == <<flock, meta, rows, life, todo, phase,
          pc, want, cur, why, saw, sawRows, victims, target, waiting>>

RowOf == [site : Site, by : Backup]
Seen == Backup \cup {"none", "free", "unknown"}

TypeOK ==
    /\ flock \in [Site -> Proc \cup {None}]
    /\ meta \in [Site -> Backup \cup {None}]
    /\ rows \subseteq RowOf
    /\ life \in [Backup -> {"live", "stopping", "dead"}]
    /\ todo \in [Backup -> SUBSET Site]
    /\ phase \in [Backup -> [Site -> {"out", "locked", "named", "working",
                                      "clearing", "unlocking"}]]
    /\ pc \in [Ctl -> {"idle", "rows", "inspect", "read", "unprobe", "decide",
                       "verify", "signal", "wait", "report"}]
    /\ want \in [Ctl -> Site \cup {All, None}]
    /\ cur \in [Ctl -> Site \cup {None}]
    /\ why \in [Ctl -> {"scan", "verify", "wait"}]
    /\ saw \in [Ctl -> [Site -> Seen]]
    /\ sawRows \in [Ctl -> SUBSET RowOf]
    /\ victims \in [Ctl -> SUBSET Backup]
    /\ target \in [Ctl -> Backup \cup {None}]
    /\ waiting \in [Ctl -> SUBSET Site]

Init ==
    /\ flock = [s \in Site |-> None] /\ meta = [s \in Site |-> None]
    /\ rows = {}
    /\ life = [b \in Backup |-> "live"]
    /\ todo = Plan
    /\ phase = [b \in Backup |-> [s \in Site |-> "out"]]
    /\ pc = [c \in Ctl |-> "idle"]
    /\ want = [c \in Ctl |-> None]
    /\ cur = [c \in Ctl |-> None]
    /\ why = [c \in Ctl |-> "scan"]
    /\ saw = [c \in Ctl |-> [s \in Site |-> "none"]]
    /\ sawRows = [c \in Ctl |-> {}]
    /\ victims = [c \in Ctl |-> {}]
    /\ target = [c \in Ctl |-> None]
    /\ waiting = [c \in Ctl |-> {}]

-----------------------------------------------------------------------------
(* Backup processes.                                                       *)

Busy(b) == {s \in Site : phase[b][s] # "out"}
Enter(b, s, ph) == phase' = [phase EXCEPT ![b][s] = ph]

\* The lane of s comes to s and is free for it.
Due(b, s) ==
    /\ life[b] = "live" /\ s \in todo[b]
    /\ \A t \in Busy(b) : LaneOf[t] # LaneOf[s]

\* (Mutant of TryLock: the file decides, and an empty file means a free site.)
TryLockByFile(b, s) ==
    /\ Due(b, s)
    /\ meta[s] = None
    /\ flock' = [flock EXCEPT ![s] = b]
    /\ todo' = [todo EXCEPT ![b] = @ \ {s}]
    /\ Enter(b, s, "locked")
    /\ UNCHANGED <<meta, rows, life, ctl>>

TryLock(b, s) ==
    /\ Due(b, s)
    /\ flock[s] = None
    /\ flock' = [flock EXCEPT ![s] = b]
    /\ todo' = [todo EXCEPT ![b] = @ \ {s}]
    /\ Enter(b, s, "locked")
    /\ UNCHANGED <<meta, rows, life, ctl>>

\* already_running
Skip(b, s) ==
    /\ Due(b, s)
    /\ flock[s] # None
    /\ todo' = [todo EXCEPT ![b] = @ \ {s}]
    /\ UNCHANGED <<locks, rows, life, phase, ctl>>

WriteOwner(b, s) ==
    /\ phase[b][s] = "locked"
    /\ meta' = [meta EXCEPT ![s] = b]
    /\ Enter(b, s, "named")
    /\ UNCHANGED <<flock, rows, life, todo, ctl>>

\* The file is emptied before it is written; when the last sync fails the
\* identity is there all the same.  The flock is given up.
WriteOwnerFails(b, s) ==
    /\ s \in MetaFails /\ phase[b][s] = "locked"
    /\ \E m \in {meta[s], b, None} : meta' = [meta EXCEPT ![s] = m]
    /\ Enter(b, s, "unlocking")
    /\ UNCHANGED <<flock, rows, life, todo, ctl>>

CreateRun(b, s) ==
    /\ phase[b][s] = "named" /\ life[b] = "live"
    /\ rows' = rows \cup {[site |-> s, by |-> b]}
    /\ Enter(b, s, "working")
    /\ UNCHANGED <<locks, life, todo, ctl>>

\* (Mutant of Finish: a run does not notice that it is cancelled.)
FinishLive(b, s) ==
    /\ phase[b][s] \in {"named", "working"} /\ life[b] = "live"
    /\ rows' = rows \ {[site |-> s, by |-> b]}
    /\ Enter(b, s, "clearing")
    /\ UNCHANGED <<locks, life, todo, ctl>>

\* A run ends: too soon after the last one, done, failed or cancelled.
Finish(b, s) ==
    /\ phase[b][s] \in {"named", "working"}
    /\ rows' \in {rows \ {[site |-> s, by |-> b]}}
                 \cup (IF s \in RowsFail THEN {rows} ELSE {})
    /\ Enter(b, s, "clearing")
    /\ UNCHANGED <<locks, life, todo, ctl>>

ClearOwner(b, s) ==
    /\ phase[b][s] = "clearing"
    /\ \/ meta' = [meta EXCEPT ![s] = None]
       \/ s \in MetaFails /\ UNCHANGED meta
    /\ Enter(b, s, "unlocking")
    /\ UNCHANGED <<flock, rows, life, todo, ctl>>

Unlock(b, s) ==
    /\ phase[b][s] = "unlocking"
    /\ flock' = [flock EXCEPT ![s] = None]
    /\ Enter(b, s, "out")
    /\ UNCHANGED <<meta, rows, life, todo, ctl>>

\* The process ends: nothing is under way and its lanes have no more sites, or
\* start none because the context is cancelled.
Exit(b) ==
    /\ life[b] # "dead" /\ Busy(b) = {}
    /\ todo[b] = {} \/ life[b] = "stopping"
    /\ life' = [life EXCEPT ![b] = "dead"]
    /\ UNCHANGED <<locks, rows, todo, phase, ctl>>

\* The kernel drops its flocks; lock files and rows stay as they are.
Crash(b) ==
    /\ b \in Crashable /\ life[b] # "dead"
    /\ life' = [life EXCEPT ![b] = "dead"]
    /\ flock' = [s \in Site |-> IF flock[s] = b THEN None ELSE flock[s]]
    /\ phase' = [phase EXCEPT ![b] = [s \in Site |-> "out"]]
    /\ UNCHANGED <<meta, rows, todo, ctl>>

Run(b, s) ==
    \/ TryLock(b, s) \/ Skip(b, s)
    \/ WriteOwner(b, s) \/ WriteOwnerFails(b, s)
    \/ CreateRun(b, s) \/ Finish(b, s) \/ ClearOwner(b, s) \/ Unlock(b, s)

-----------------------------------------------------------------------------
(* Inspection: the flock is tried; one that is free is given back, of one   *)
(* that is held the file is read.                                           *)

Goto(c, label) == pc' = [pc EXCEPT ![c] = label]

\* The site c inspects next.
Subject(c, s) ==
    \/ pc[c] = "inspect" /\ saw[c][s] = "none"
    \/ pc[c] = "verify" /\ saw[c][s] \in victims[c]
    \/ pc[c] = "wait" /\ s \in waiting[c]

Purpose == [inspect |-> "scan", verify |-> "verify", wait |-> "wait"]

Probe(c, s) ==
    /\ Subject(c, s)
    /\ cur' = [cur EXCEPT ![c] = s]
    /\ why' = [why EXCEPT ![c] = Purpose[pc[c]]]
    /\ IF flock[s] = None
       THEN flock' = [flock EXCEPT ![s] = c] /\ Goto(c, "unprobe")
       ELSE UNCHANGED flock /\ Goto(c, "read")
    /\ UNCHANGED <<meta, work, want, saw, sawRows, victims, target, waiting>>

\* The inspection is over.
Inspected(c) ==
    /\ cur' = [cur EXCEPT ![c] = None]
    /\ why' = [why EXCEPT ![c] = "scan"]

\* The command ends.
Quit(c) ==
    /\ Goto(c, "idle")
    /\ Inspected(c)
    /\ want' = [want EXCEPT ![c] = None]
    /\ saw' = [saw EXCEPT ![c] = [s \in Site |-> "none"]]
    /\ sawRows' = [sawRows EXCEPT ![c] = {}]
    /\ victims' = [victims EXCEPT ![c] = {}]
    /\ target' = [target EXCEPT ![c] = None]
    /\ waiting' = [waiting EXCEPT ![c] = {}]

\* The lock was free.
Unprobe(c) ==
    /\ pc[c] = "unprobe"
    /\ flock' = [flock EXCEPT ![cur[c]] = None]
    /\ \/ /\ why[c] = "scan"
          /\ saw' = [saw EXCEPT ![c][cur[c]] = "free"]
          /\ Goto(c, "inspect") /\ Inspected(c)
          /\ UNCHANGED <<want, sawRows, victims, target, waiting>>
       \/ why[c] = "verify" /\ Quit(c)
       \/ /\ why[c] = "wait"
          /\ waiting' = [waiting EXCEPT ![c] = @ \ {cur[c]}]
          /\ Goto(c, "wait") /\ Inspected(c)
          /\ UNCHANGED <<want, saw, sawRows, victims, target>>
    /\ UNCHANGED <<meta, work>>

\* (Mutant of Owner: PID and start ticks are not compared.)
OwnerUnverified(s) == IF meta[s] # None THEN meta[s] ELSE "unknown"

\* The identity in the file, when its process is alive.
Owner(s) ==
    IF meta[s] # None /\ life[meta[s]] # "dead" THEN meta[s] ELSE "unknown"

ReadOwner(c) ==
    /\ pc[c] = "read"
    /\ \/ /\ why[c] = "scan"
          /\ saw' = [saw EXCEPT ![c][cur[c]] = Owner(cur[c])]
          /\ Goto(c, "inspect") /\ Inspected(c)
          /\ UNCHANGED <<want, sawRows, victims, target, waiting>>
       \/ why[c] = "verify" /\ Owner(cur[c]) = "unknown" /\ Quit(c)
       \/ /\ why[c] = "verify" /\ Owner(cur[c]) # "unknown"
          /\ target' = [target EXCEPT ![c] = Owner(cur[c])]
          /\ Goto(c, "signal")
          /\ UNCHANGED <<want, cur, why, saw, sawRows, victims, waiting>>
       \/ /\ why[c] = "wait"
          /\ Goto(c, "wait") /\ Inspected(c)
          /\ UNCHANGED <<want, saw, sawRows, victims, target, waiting>>
    /\ UNCHANGED <<locks, work>>

-----------------------------------------------------------------------------
(* stop.                                                                   *)

Stop(c, t) ==
    /\ pc[c] = "idle"
    /\ want' = [want EXCEPT ![c] = t]
    /\ Goto(c, "rows")
    /\ UNCHANGED <<locks, work, cur, why, saw, sawRows, victims, target, waiting>>

ListRunning(c) ==
    /\ pc[c] = "rows"
    /\ sawRows' = [sawRows EXCEPT ![c] = rows]
    /\ Goto(c, "inspect")
    /\ UNCHANGED <<locks, work, want, cur, why, saw, victims, target, waiting>>

AllSeen(c) ==
    /\ pc[c] = "inspect"
    /\ \A s \in Site : saw[c][s] # "none"
    /\ Goto(c, "decide")
    /\ UNCHANGED <<locks, work, want, cur, why, saw, sawRows,
                   victims, target, waiting>>

\* The activities: running and unknown sites, and rows no running site matches.
Running(c) == {s \in Site : saw[c][s] \in Backup}
Unknown(c) == {s \in Site : saw[c][s] = "unknown"}
Stale(c) == {r \in sawRows[c] : saw[c][r.site] # r.by}

Refuse(c) ==
    /\ pc[c] = "decide"
    /\ IF want[c] = All
       THEN Running(c) = {} \/ Unknown(c) # {} \/ Stale(c) # {}
       ELSE \/ want[c] \notin Running(c)
            \/ \E r \in Stale(c) : r.site = want[c]
            \/ \E s \in Running(c) \ {want[c]} : saw[c][s] = saw[c][want[c]]
    /\ Quit(c)
    /\ UNCHANGED <<locks, work>>

\* (Mutant of Accept: nothing is waited for.)
AcceptOnly(c) ==
    /\ pc[c] = "decide"
    /\ want[c] # All => want[c] \in Running(c)
    /\ LET chosen == IF want[c] = All THEN Running(c) ELSE {want[c]} IN
       victims' = [victims EXCEPT ![c] = {saw[c][s] : s \in chosen}]
    /\ Goto(c, "verify")
    /\ UNCHANGED <<locks, work, want, cur, why, saw, sawRows, target, waiting>>

\* A site listed both as running and as stale may be taken for either.
Accept(c) ==
    /\ pc[c] = "decide"
    /\ IF want[c] = All
       THEN Running(c) # {} /\ Unknown(c) = {} /\ Stale(c) = {}
       ELSE /\ want[c] \in Running(c)
            /\ \A s \in Running(c) \ {want[c]} : saw[c][s] # saw[c][want[c]]
    /\ LET chosen == IF want[c] = All THEN Running(c) ELSE {want[c]} IN
       /\ victims' = [victims EXCEPT ![c] = {saw[c][s] : s \in chosen}]
       /\ waiting' = [waiting EXCEPT ![c] = chosen]
    /\ sawRows' = [sawRows EXCEPT ![c] = {}]
    /\ Goto(c, "verify")
    /\ UNCHANGED <<locks, work, want, cur, why, saw, target>>

\* SIGTERM goes to whoever the file named in the second inspection, when that
\* process is still there.
SignalTerm(c) ==
    /\ pc[c] = "signal"
    /\ IF life[target[c]] = "dead" THEN Quit(c) /\ UNCHANGED life
       ELSE /\ life' = [life EXCEPT ![target[c]] = "stopping"]
            /\ victims' = [victims EXCEPT ![c] = @ \ {saw[c][cur[c]]}]
            /\ target' = [target EXCEPT ![c] = None]
            /\ Goto(c, "verify") /\ Inspected(c)
            /\ UNCHANGED <<want, saw, sawRows, waiting>>
    /\ UNCHANGED <<locks, rows, todo, phase>>

Signalled(c) ==
    /\ pc[c] = "verify" /\ victims[c] = {}
    /\ Goto(c, "wait")
    /\ UNCHANGED <<locks, work, want, cur, why, saw, sawRows,
                   victims, target, waiting>>

Released(c) ==
    /\ pc[c] = "wait" /\ waiting[c] = {}
    /\ Goto(c, "report")
    /\ UNCHANGED <<locks, work, want, cur, why, saw, sawRows,
                   victims, target, waiting>>

\* backup_stopped is reported, or the wait has timed out.
Report(c) ==
    /\ pc[c] \in {"report", "wait"}
    /\ Quit(c)
    /\ UNCHANGED <<locks, work>>

Control(c) ==
    \/ \E s \in Site : Probe(c, s)
    \/ Unprobe(c) \/ ReadOwner(c) \/ ListRunning(c) \/ AllSeen(c)
    \/ Refuse(c) \/ Accept(c) \/ SignalTerm(c) \/ Signalled(c) \/ Released(c) \/ Report(c)

Next ==
    \/ \E b \in Backup : Exit(b) \/ Crash(b) \/ \E s \in Site : Run(b, s)
    \/ \E c \in Ctl : Control(c) \/ \E t \in Site \cup {All} : Stop(c, t)

Spec == Init /\ [][Next]_vars

\* A backup process does something as long as it can; which of its lanes, and
\* whether control processes run on, is left open.
FairSpec ==
    /\ Spec
    /\ \A b \in Backup : WF_vars(Exit(b) \/ \E s \in Site : Run(b, s))

-----------------------------------------------------------------------------
(* Properties.                                                             *)

\* A site is backed up by one process at a time, whatever becomes of the lock
\* file's contents.
SiteRunsOnce ==
    \A s \in Site : \A a, b \in Backup :
        phase[a][s] # "out" /\ phase[b][s] # "out" => a = b

\* What an inspection calls the owner is the process that holds the flock:
\* identities of dead processes and of earlier owners never count, unless they
\* could not be cleared.
OwnerHoldsLock ==
    \A s \in Site \ MetaFails : Owner(s) # "unknown" => flock[s] = Owner(s)

\* When stop reports success, every process it has found running has let go
\* of the sites it was asked for.
StoppedMeansReleased ==
    \A c \in Ctl : pc[c] = "report" =>
        \A s \in Running(c) :
            want[c] \in {s, All} => flock[s] # saw[c][s]

\* Why the two hold: a process has the flock of every site it is at; a probe
\* has the flock it will give back; the file of a site names a live process
\* only between its write and its clear, where those do not fail.
AtSiteHasLock ==
    \A b \in Backup, s \in Site : phase[b][s] # "out" => flock[s] = b

ProbeHasLock ==
    \A c \in Ctl :
        /\ pc[c] \in {"unprobe", "read", "signal"} => cur[c] \in Site
        /\ pc[c] = "signal" => target[c] \in Backup
        /\ pc[c] = "unprobe" => flock[cur[c]] = c

NamedIsAtSite ==
    \A b \in Backup, s \in Site \ MetaFails :
        meta[s] = b /\ life[b] # "dead"
            => phase[b][s] \in {"named", "working", "clearing"}

LockInv == TypeOK /\ AtSiteHasLock /\ ProbeHasLock
IInv == LockInv /\ NamedIsAtSite

\* A process that was asked to stop gives up its locks and ends.
StoppedProcessEnds == \A b \in Backup : life[b] = "stopping" ~> life[b] = "dead"
=============================================================================
