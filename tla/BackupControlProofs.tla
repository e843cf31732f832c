------------------------ MODULE BackupControlProofs -------------------------
(***************************************************************************)
(* Proofs about BackupControl, for any number of backup and control        *)
(* processes and sites and any plans and lanes: a site is backed up by one *)
(* process at a time; where lock files can be written, the owner an        *)
(* inspection finds has the site's flock; and when stop reports success,   *)
(* what it found at its sites has let go of them.                          *)
(***************************************************************************)
EXTENDS BackupControl, TLAPS

-----------------------------------------------------------------------------
(* Types, and what probes hold.                                            *)

\* Quitting keeps the types of what belongs to the command.
LEMMA QuitType ==
    ASSUME TypeOK, NEW c \in Ctl, Quit(c)
    PROVE  /\ want' \in [Ctl -> Site \cup {All, None}]
           /\ cur' \in [Ctl -> Site \cup {None}]
           /\ why' \in [Ctl -> {"scan", "verify", "wait"}]
           /\ saw' \in [Ctl -> [Site -> Seen]]
           /\ sawRows' \in [Ctl -> SUBSET RowOf]
           /\ victims' \in [Ctl -> SUBSET Backup]
           /\ target' \in [Ctl -> Backup \cup {None}]
           /\ waiting' \in [Ctl -> SUBSET Site]
           /\ pc' = [pc EXCEPT ![c] = "idle"]
<1>1. [s \in Site |-> "none"] \in [Site -> Seen]
  BY DEF Seen
<1> QED BY <1>1 DEF Quit, Inspected, Goto, TypeOK

\* Going to a label changes the control process's own label.
LEMMA GotoType ==
    ASSUME TypeOK, NEW c \in Ctl,
           NEW label \in {"idle", "rows", "inspect", "read", "unprobe", "decide",
                          "verify", "signal", "wait", "report"},
           Goto(c, label)
    PROVE  /\ pc' \in [Ctl -> {"idle", "rows", "inspect", "read", "unprobe",
                               "decide", "verify", "signal", "wait", "report"}]
           /\ pc'[c] = label
           /\ \A d \in Ctl \ {c} : pc'[d] = pc[d]
BY DEF Goto, TypeOK

\* What a scan finds is something to see.
LEMMA SawType ==
    ASSUME TypeOK, NEW c \in Ctl, NEW s \in Site, NEW v \in Seen
    PROVE  [saw EXCEPT ![c][s] = v] \in [Ctl -> [Site -> Seen]]
BY DEF TypeOK

\* A step that touches no flock and no phase, and puts nobody before a probe's
\* end, keeps the locks.
LEMMA QuietStep ==
    ASSUME LockInv, UNCHANGED <<flock, phase>>,
           \A d \in Ctl : pc'[d] \in {"unprobe", "read", "signal"} =>
               pc'[d] = pc[d] /\ cur'[d] = cur[d] /\ target'[d] = target[d]
    PROVE  AtSiteHasLock' /\ ProbeHasLock'
BY DEF LockInv, AtSiteHasLock, ProbeHasLock

\* Entering a phase changes the process's own phase at one site.
LEMMA EnterType ==
    ASSUME TypeOK, NEW b \in Backup, NEW s \in Site,
           NEW ph \in {"out", "locked", "named", "working", "clearing",
                       "unlocking"},
           Enter(b, s, ph)
    PROVE  /\ phase' \in [Backup -> [Site -> {"out", "locked", "named",
                                  "working", "clearing", "unlocking"}]]
           /\ phase'[b][s] = ph
           /\ \A a \in Backup, t \in Site :
                 a # b \/ t # s => phase'[a][t] = phase[a][t]
BY DEF Enter, TypeOK

\* A step of a backup process.
LEMMA BackupStep ==
    ASSUME LockInv, NEW b \in Backup, NEW s \in Site,
           Run(b, s) \/ Exit(b) \/ Crash(b)
    PROVE  LockInv'
<1> USE DEF LockInv
<1>1. None \notin Proc /\ Backup \cap Ctl = {} /\ Proc = Backup \cup Ctl
  BY ConstantsAssumption DEF Proc
<1>2. CASE TryLock(b, s)
  <2>1. TypeOK'
    BY <1>1, <1>2, EnterType DEF TryLock, TypeOK, ctl
  <2>2. AtSiteHasLock'
    BY <1>1, <1>2, EnterType DEF TryLock, TypeOK, AtSiteHasLock
  <2>3. ProbeHasLock'
    BY <1>1, <1>2 DEF TryLock, TypeOK, ProbeHasLock, ctl
  <2> QED BY <2>1, <2>2, <2>3
<1>3. CASE Skip(b, s)
  BY <1>3 DEF Skip, locks, ctl, TypeOK, AtSiteHasLock, ProbeHasLock
<1>4. CASE WriteOwner(b, s) \/ WriteOwnerFails(b, s)
  <2>1. /\ Enter(b, s, "named") \/ Enter(b, s, "unlocking")
        /\ phase[b][s] = "locked"
        /\ UNCHANGED <<flock, rows, life, todo, ctl>>
    BY <1>4 DEF WriteOwner, WriteOwnerFails
  <2>2. meta' \in [Site -> Backup \cup {None}]
    <3>1. CASE WriteOwner(b, s)
      BY <3>1 DEF WriteOwner, TypeOK
    <3>2. CASE WriteOwnerFails(b, s)
      <4>1. PICK m \in {meta[s], b, None} : meta' = [meta EXCEPT ![s] = m]
        BY <3>2 DEF WriteOwnerFails
      <4>2. m \in Backup \cup {None}
        BY DEF TypeOK
      <4> QED BY <4>1, <4>2 DEF TypeOK
    <3> QED BY <1>4, <3>1, <3>2
  <2>3. TypeOK'
    BY <2>1, <2>2, EnterType DEF TypeOK, ctl
  <2>4. AtSiteHasLock'
    BY <2>1, EnterType DEF AtSiteHasLock
  <2>5. ProbeHasLock'
    BY <2>1 DEF ProbeHasLock, ctl
  <2> QED BY <2>3, <2>4, <2>5
<1>5. CASE CreateRun(b, s)
  BY <1>5 DEF CreateRun, Enter, locks, ctl, TypeOK, RowOf, AtSiteHasLock,
              ProbeHasLock
<1>6. CASE Finish(b, s)
  <2>1. rows' \subseteq RowOf
    BY <1>6 DEF Finish, TypeOK
  <2> QED BY <1>6, <2>1 DEF Finish, Enter, locks, ctl, TypeOK,
                            AtSiteHasLock, ProbeHasLock
<1>7. CASE ClearOwner(b, s)
  BY <1>7 DEF ClearOwner, Enter, ctl, TypeOK, AtSiteHasLock, ProbeHasLock
<1>8. CASE Unlock(b, s)
  <2>1. flock[s] = b
    BY <1>8 DEF Unlock, AtSiteHasLock
  <2> QED BY <1>1, <1>8, <2>1 DEF Unlock, Enter, ctl, TypeOK, AtSiteHasLock,
                                  ProbeHasLock
<1>9. CASE Exit(b)
  BY <1>9 DEF Exit, locks, ctl, TypeOK, AtSiteHasLock, ProbeHasLock
<1>10. CASE Crash(b)
  <2>1. TypeOK'
    BY <1>10 DEF Crash, ctl, TypeOK
  <2>2. AtSiteHasLock'
    BY <1>1, <1>10 DEF Crash, TypeOK, AtSiteHasLock
  <2>3. ProbeHasLock'
    BY <1>1, <1>10 DEF Crash, ctl, TypeOK, ProbeHasLock
  <2> QED BY <2>1, <2>2, <2>3
<1> QED BY <1>2, <1>3, <1>4, <1>5, <1>6, <1>7, <1>8, <1>9, <1>10 DEF Run

\* A step of a control process.
LEMMA ControlStep ==
    ASSUME LockInv, NEW c \in Ctl,
           Control(c) \/ \E t \in Site \cup {All} : Stop(c, t)
    PROVE  LockInv'
<1> USE DEF LockInv
<1>1. None \notin Proc /\ Backup \cap Ctl = {} /\ Ctl \subseteq Proc
  BY ConstantsAssumption DEF Proc
<1>2. CASE \E t \in Site \cup {All} : Stop(c, t)
  BY <1>2 DEF Stop, Goto, locks, work, TypeOK, AtSiteHasLock, ProbeHasLock
<1>3. ASSUME NEW s \in Site, Probe(c, s)
      PROVE  LockInv'
  <2>1. pc[c] \in {"inspect", "verify", "wait"}
    BY <1>3 DEF Probe, Subject
  <2>2. why' \in [Ctl -> {"scan", "verify", "wait"}]
    BY <1>3, <2>1 DEF Probe, Purpose, TypeOK
  <2>6. /\ pc' \in [Ctl -> {"idle", "rows", "inspect", "read", "unprobe",
                            "decide", "verify", "signal", "wait", "report"}]
        /\ flock' \in [Site -> Proc \cup {None}]
    <3>1. CASE flock[s] = None
      <4>1. flock' = [flock EXCEPT ![s] = c] /\ Goto(c, "unprobe")
        BY <1>3, <3>1 DEF Probe
      <4>2. flock' \in [Site -> Proc \cup {None}]
        BY <1>1, <4>1 DEF TypeOK
      <4> QED BY <4>1, <4>2, GotoType
    <3>2. CASE flock[s] # None
      BY <1>3, <3>2, GotoType DEF Probe, TypeOK
    <3> QED BY <3>1, <3>2
  <2>3. TypeOK'
    BY <1>3, <2>2, <2>6 DEF Probe, work, TypeOK
  <2>4. AtSiteHasLock'
    BY <1>1, <1>3 DEF Probe, work, TypeOK, AtSiteHasLock, Proc
  <2>5. ProbeHasLock'
    BY <1>1, <1>3 DEF Probe, Goto, work, TypeOK, ProbeHasLock
  <2> QED BY <2>3, <2>4, <2>5
<1>4. CASE Unprobe(c)
  <2>1. cur[c] \in Site /\ flock[cur[c]] = c
    BY <1>4 DEF Unprobe, ProbeHasLock
  <2>2. AtSiteHasLock'
    BY <1>1, <1>4, <2>1 DEF Unprobe, work, TypeOK, AtSiteHasLock
  <2>3. \A d \in Ctl \ {c} : pc[d] = "unprobe" => cur[d] # cur[c]
    BY <2>1 DEF ProbeHasLock
  <2>4. CASE why[c] = "verify"
    <3>1. Quit(c)
      BY <1>4, <2>4 DEF Unprobe
    <3>2. TypeOK'
      BY <1>4, <3>1, QuitType DEF Unprobe, TypeOK, work
    <3>3. ProbeHasLock'
      BY <1>4, <2>1, <2>3, <3>1 DEF Unprobe, Quit, Inspected, Goto, TypeOK, ProbeHasLock
    <3> QED BY <2>2, <3>2, <3>3
  <2>5. CASE why[c] # "verify"
    <3>1. /\ saw' \in [Ctl -> [Site -> Seen]]
          /\ waiting' \in [Ctl -> SUBSET Site]
      <4>1. "free" \in Seen
        BY DEF Seen
      <4>2. CASE why[c] = "scan"
        <5>1. /\ saw' = [saw EXCEPT ![c][cur[c]] = "free"]
              /\ UNCHANGED waiting
          BY <1>4, <4>2 DEF Unprobe
        <5> QED BY <2>1, <4>1, <5>1, SawType DEF TypeOK
      <4>3. CASE why[c] # "scan"
        <5>1. /\ waiting' = [waiting EXCEPT ![c] = @ \ {cur[c]}]
              /\ UNCHANGED saw
          BY <1>4, <2>5, <4>3 DEF Unprobe
        <5> QED BY <5>1 DEF TypeOK
      <4> QED BY <4>2, <4>3
    <3>4. /\ Goto(c, "inspect") \/ Goto(c, "wait")
          /\ flock' = [flock EXCEPT ![cur[c]] = None]
          /\ Inspected(c)
          /\ UNCHANGED <<want, sawRows, victims, target, meta, work>>
      BY <1>4, <2>5 DEF Unprobe
    <3>2. TypeOK'
      BY <3>1, <3>4, GotoType DEF Inspected, TypeOK, work
    <3>3. ProbeHasLock'
      BY <2>1, <2>3, <3>4, GotoType DEF Inspected, TypeOK, ProbeHasLock
    <3> QED BY <2>2, <3>2, <3>3
  <2> QED BY <2>4, <2>5
<1>5. CASE ReadOwner(c)
  <2>1. cur[c] \in Site
    BY <1>5 DEF ReadOwner, ProbeHasLock
  <2>2. Owner(cur[c]) \in Seen
    BY <2>1 DEF Owner, Seen, TypeOK
  <2>3. Owner(cur[c]) # "unknown" => Owner(cur[c]) \in Backup
    BY <2>1 DEF Owner, TypeOK
  <2>4. AtSiteHasLock'
    BY <1>5 DEF ReadOwner, locks, work, AtSiteHasLock
  <2>5. CASE Quit(c)
    <3>1. TypeOK'
      BY <1>5, <2>5, QuitType DEF ReadOwner, TypeOK, locks, work
    <3>2. ProbeHasLock'
      BY <1>5, <2>5 DEF ReadOwner, Quit, Inspected, Goto, TypeOK, locks, ProbeHasLock
    <3> QED BY <2>4, <3>1, <3>2
  <2>6. CASE why[c] = "verify" /\ Owner(cur[c]) # "unknown"
    <3>1. /\ target' = [target EXCEPT ![c] = Owner(cur[c])]
          /\ Goto(c, "signal")
          /\ UNCHANGED <<want, cur, why, saw, sawRows, victims, waiting, locks,
                         work>>
      BY <1>5, <2>6 DEF ReadOwner
    <3>2. TypeOK'
      BY <2>3, <2>6, <3>1, GotoType DEF TypeOK, locks, work
    <3>3. ProbeHasLock'
      BY <2>1, <2>3, <2>6, <3>1, GotoType DEF TypeOK, locks, ProbeHasLock
    <3> QED BY <2>4, <3>2, <3>3
  <2>7. CASE why[c] # "verify"
    <3>1. /\ saw' \in [Ctl -> [Site -> Seen]]
          /\ Goto(c, "inspect") \/ Goto(c, "wait")
          /\ Inspected(c)
          /\ UNCHANGED <<want, sawRows, victims, target, waiting, locks, work>>
      <4>1. CASE why[c] = "scan"
        <5>1. /\ saw' = [saw EXCEPT ![c][cur[c]] = Owner(cur[c])]
              /\ Goto(c, "inspect") /\ Inspected(c)
              /\ UNCHANGED <<want, sawRows, victims, target, waiting, locks,
                             work>>
          BY <1>5, <4>1 DEF ReadOwner
        <5> QED BY <2>1, <2>2, <5>1, SawType
      <4>2. CASE why[c] # "scan"
        BY <1>5, <2>7, <4>2 DEF ReadOwner, TypeOK
      <4> QED BY <4>1, <4>2
    <3>2. TypeOK'
      BY <3>1, GotoType DEF Inspected, TypeOK, locks, work
    <3>3. ProbeHasLock'
      BY <3>1, GotoType DEF Inspected, TypeOK, locks, ProbeHasLock
    <3> QED BY <2>4, <3>2, <3>3
  <2> QED BY <1>5, <2>5, <2>6, <2>7 DEF ReadOwner
<1>6. CASE ListRunning(c) \/ AllSeen(c) \/ Signalled(c) \/ Released(c)
  <2>1. /\ Goto(c, "inspect") \/ Goto(c, "decide") \/ Goto(c, "wait")
              \/ Goto(c, "report")
        /\ sawRows' \in [Ctl -> SUBSET RowOf]
        /\ UNCHANGED <<locks, work, want, cur, why, saw, victims, target,
                       waiting>>
    BY <1>6 DEF ListRunning, AllSeen, Signalled, Released, TypeOK
  <2>2. TypeOK'
    BY <2>1, GotoType DEF TypeOK, locks, work
  <2>3. AtSiteHasLock' /\ ProbeHasLock'
    BY <2>1, GotoType, QuietStep DEF locks, work
  <2> QED BY <2>2, <2>3
<1>7. CASE Refuse(c) \/ Report(c)
  <2>1. Quit(c) /\ UNCHANGED <<locks, work>>
    BY <1>7 DEF Refuse, Report
  <2>2. TypeOK'
    BY <2>1, QuitType DEF TypeOK, locks, work
  <2>3. AtSiteHasLock' /\ ProbeHasLock'
    BY <2>1, QuietStep DEF Quit, Inspected, Goto, TypeOK, locks, work
  <2> QED BY <2>2, <2>3
<1>8. CASE Accept(c)
  <2> DEFINE chosen == IF want[c] = All THEN Running(c) ELSE {want[c]}
  <2>1. chosen \subseteq Site /\ \A s \in chosen : saw[c][s] \in Backup
    BY <1>8 DEF Accept, Running
  <2>2. {saw[c][s] : s \in chosen} \subseteq Backup
    BY <2>1
  <2>3. TypeOK'
    BY <1>8, <2>1, <2>2 DEF Accept, Goto, locks, work, TypeOK
  <2>4. AtSiteHasLock' /\ ProbeHasLock'
    BY <1>8, GotoType, QuietStep DEF Accept, locks, work
  <2> QED BY <2>3, <2>4
<1>9. CASE SignalTerm(c)
  <2>1. target[c] \in Backup
    BY <1>9 DEF SignalTerm, ProbeHasLock
  <2>2. CASE life[target[c]] = "dead"
    <3>1. Quit(c) /\ UNCHANGED <<locks, work>>
      BY <1>9, <2>2 DEF SignalTerm, work
    <3>2. TypeOK'
      BY <3>1, QuitType DEF TypeOK, locks, work
    <3>3. AtSiteHasLock' /\ ProbeHasLock'
      BY <3>1, QuietStep DEF Quit, Inspected, Goto, TypeOK, locks, work
    <3> QED BY <3>2, <3>3
  <2>3. CASE life[target[c]] # "dead"
    <3>1. /\ Goto(c, "verify") /\ Inspected(c)
          /\ life' = [life EXCEPT ![target[c]] = "stopping"]
          /\ victims' = [victims EXCEPT ![c] = @ \ {saw[c][cur[c]]}]
          /\ target' = [target EXCEPT ![c] = None]
          /\ UNCHANGED <<want, saw, sawRows, waiting, locks, rows, todo, phase>>
      BY <1>9, <2>3 DEF SignalTerm
    <3>2. TypeOK'
      BY <2>1, <3>1, GotoType DEF Inspected, TypeOK, locks
    <3>3. AtSiteHasLock' /\ ProbeHasLock'
      BY <2>1, <3>1, GotoType, QuietStep DEF Inspected, locks, TypeOK
    <3> QED BY <3>2, <3>3
  <2> QED BY <2>2, <2>3
<1> QED BY <1>2, <1>3, <1>4, <1>5, <1>6, <1>7, <1>8, <1>9 DEF Control

LEMMA InitLockInv == Init => LockInv
<1>1. Init => TypeOK
  BY ConstantsAssumption DEF Init, TypeOK, Seen
<1> QED BY <1>1 DEF Init, LockInv, AtSiteHasLock, ProbeHasLock

LEMMA LockInvStep == LockInv /\ [Next]_vars => LockInv'
<1>1. CASE UNCHANGED vars
  BY <1>1 DEF vars, LockInv, TypeOK, AtSiteHasLock, ProbeHasLock
<1>2. ASSUME LockInv, NEW b \in Backup,
             Exit(b) \/ Crash(b) \/ \E s \in Site : Run(b, s)
      PROVE  LockInv'
  <2>1. CASE \E s \in Site : Run(b, s)
    BY <1>2, <2>1, BackupStep
  <2>2. CASE (Exit(b) \/ Crash(b)) /\ Site # {}
    <3>1. PICK s \in Site : TRUE
      BY <2>2
    <3> QED BY <1>2, <2>2, <3>1, BackupStep
  <2>3. CASE (Exit(b) \/ Crash(b)) /\ Site = {}
    BY <1>2, <2>3 DEF Exit, Crash, locks, ctl, LockInv, TypeOK,
                      AtSiteHasLock, ProbeHasLock
  <2> QED BY <1>2, <2>1, <2>2, <2>3
<1> QED BY <1>1, <1>2, ControlStep DEF Next

\* Whatever is killed and whatever write fails, every variable keeps its type,
\* every process has the flock of the sites it is at, and every probe the flock
\* it is about to give back.
THEOREM LocksAreHeld == Spec => []LockInv
BY InitLockInv, LockInvStep, PTL DEF Spec

\* No two processes are ever at the same site.
THEOREM OneProcessPerSite == Spec => []SiteRunsOnce
<1>1. LockInv => SiteRunsOnce
  BY DEF LockInv, AtSiteHasLock, SiteRunsOnce
<1> QED BY <1>1, LocksAreHeld, PTL

-----------------------------------------------------------------------------
(* Owners, where lock files can be written.                                *)

\* A file names a live process only while that process is at the site.
LEMMA NamedStep ==
    ASSUME IInv, [Next]_vars
    PROVE  NamedIsAtSite'
<1> USE DEF IInv, LockInv
<1>1. None \notin Backup
  BY ConstantsAssumption DEF Proc
<1>2. CASE UNCHANGED vars
  BY <1>2 DEF vars, NamedIsAtSite
<1>3. ASSUME NEW b \in Backup, Exit(b) \/ Crash(b)
      PROVE  NamedIsAtSite'
  BY <1>3 DEF Exit, Crash, locks, TypeOK, NamedIsAtSite
<1>4. ASSUME NEW b \in Backup, NEW s \in Site, Run(b, s)
      PROVE  NamedIsAtSite'
  <2>1. CASE TryLock(b, s)
    <3>1. phase[b][s] = "out"
      BY <2>1 DEF TryLock, Due, Busy
    <3> QED BY <2>1, <3>1 DEF TryLock, Enter, TypeOK, NamedIsAtSite
  <2>2. CASE Skip(b, s)
    BY <2>2 DEF Skip, locks, NamedIsAtSite
  <2>3. CASE WriteOwner(b, s) \/ WriteOwnerFails(b, s)
    <3>1. /\ s \notin MetaFails => /\ meta' = [meta EXCEPT ![s] = b]
                                 /\ Enter(b, s, "named")
          /\ \A t \in Site \ {s} : meta'[t] = meta[t]
          /\ Enter(b, s, "named") \/ Enter(b, s, "unlocking")
          /\ phase[b][s] = "locked" /\ UNCHANGED life
      BY <2>3 DEF WriteOwner, WriteOwnerFails, TypeOK
    <3> QED BY <3>1, EnterType DEF TypeOK, NamedIsAtSite
  <2>4. CASE CreateRun(b, s) \/ Finish(b, s)
    BY <2>4 DEF CreateRun, Finish, Enter, locks, TypeOK, NamedIsAtSite
  <2>5. CASE ClearOwner(b, s)
    BY <1>1, <2>5 DEF ClearOwner, Enter, TypeOK, NamedIsAtSite
  <2>6. CASE Unlock(b, s)
    BY <2>6 DEF Unlock, Enter, TypeOK, NamedIsAtSite
  <2> QED BY <1>4, <2>1, <2>2, <2>3, <2>4, <2>5, <2>6 DEF Run
<1>5. ASSUME NEW c \in Ctl, Control(c) \/ \E t \in Site \cup {All} : Stop(c, t)
      PROVE  NamedIsAtSite'
  <2>1. /\ UNCHANGED <<meta, phase>>
        /\ \A b \in Backup : life'[b] # "dead" => life[b] # "dead"
    <3>1. CASE SignalTerm(c)
      BY <3>1 DEF SignalTerm, locks, TypeOK
    <3>2. CASE ~SignalTerm(c)
      BY <1>5, <3>2 DEF Control, Stop, Probe, Unprobe, ReadOwner, ListRunning,
                AllSeen, Refuse, Accept, Signalled, Released, Report, locks,
                work
    <3> QED BY <3>1, <3>2
  <2> QED BY <2>1 DEF NamedIsAtSite
<1> QED BY <1>2, <1>3, <1>4, <1>5 DEF Next

\* The strengthening: locks are held, and files name the processes at work.
THEOREM Invariance == Spec => []IInv
<1>1. Init => IInv
  BY InitLockInv, ConstantsAssumption DEF Init, IInv, NamedIsAtSite, Proc
<1>2. IInv /\ [Next]_vars => IInv'
  BY NamedStep, LockInvStep DEF IInv
<1> QED BY <1>1, <1>2, PTL DEF Spec

\* The owner an inspection finds has the site's flock: a dead process or an
\* earlier owner is never taken for it.
THEOREM OwnersAreRight == Spec => []OwnerHoldsLock
<1>1. IInv => OwnerHoldsLock
  <2> SUFFICES ASSUME IInv, NEW s \in Site \ MetaFails, Owner(s) # "unknown"
               PROVE  flock[s] = Owner(s)
    BY DEF OwnerHoldsLock
  <2>1. Owner(s) = meta[s] /\ meta[s] \in Backup /\ life[meta[s]] # "dead"
    BY DEF Owner, IInv, LockInv, TypeOK
  <2>2. phase[meta[s]][s] # "out"
    BY <2>1 DEF IInv, NamedIsAtSite
  <2> QED BY <2>1, <2>2 DEF IInv, LockInv, AtSiteHasLock
<1> QED BY <1>1, Invariance, PTL

-----------------------------------------------------------------------------
(* What stop waits for.                                                    *)

\* A process comes to a site of its plan once: it is no longer to do when the
\* process is there, or when the lock file names it.
OnceThere ==
    \A b \in Backup, s \in Site :
        phase[b][s] # "out" \/ meta[s] = b => s \notin todo[b]

\* So it is not to do for a process an inspection has found.
OnceSeen ==
    \A c \in Ctl, s \in Site : \A b \in Backup :
        saw[c][s] = b => s \notin todo[b]

\* stop has accepted.
Accepted(c) ==
    \/ pc[c] \in {"verify", "signal", "wait", "report"}
    \/ pc[c] \in {"read", "unprobe"} /\ why[c] # "scan"

\* A site stop was asked for is waited for until its process lets go of it,
\* which then never takes it again.
WaitsOrReleased ==
    \A c \in Ctl : Accepted(c) =>
        \A s \in Site : saw[c][s] \in Backup /\ want[c] \in {s, All}
            => s \in waiting[c] \/ flock[s] # saw[c][s]

NothingToWaitFor == \A c \in Ctl : pc[c] = "report" => waiting[c] = {}

StopInv == OnceThere /\ OnceSeen /\ WaitsOrReleased /\ NothingToWaitFor

\* A step of a backup process: it takes only sites it has still to do.
LEMMA BackupShape ==
    ASSUME LockInv, OnceThere, NEW b \in Backup,
           Exit(b) \/ Crash(b) \/ \E s \in Site : Run(b, s)
    PROVE  /\ UNCHANGED ctl
           /\ OnceThere'
           /\ \A a \in Backup : todo'[a] \subseteq todo[a]
           /\ \A s \in Site : flock'[s] \in {None, flock[s]}
                              \/ (flock'[s] = b /\ s \in todo[b])
<1> USE DEF LockInv
<1>1. None \notin Backup
  BY ConstantsAssumption DEF Proc
<1>2. ASSUME UNCHANGED ctl,
             \A a \in Backup : todo'[a] \subseteq todo[a],
             \A t \in Site : flock'[t] \in {None, flock[t]}
                             \/ (flock'[t] = b /\ t \in todo[b]),
             \A a \in Backup, t \in Site :
                 phase'[a][t] = "out" \/ phase[a][t] # "out" \/ t \notin todo'[a],
             \A a \in Backup, t \in Site :
                 meta'[t] = a => meta[t] = a \/ phase[a][t] # "out"
      PROVE  /\ UNCHANGED ctl
             /\ OnceThere'
             /\ \A a \in Backup : todo'[a] \subseteq todo[a]
             /\ \A s \in Site : flock'[s] \in {None, flock[s]}
                                \/ (flock'[s] = b /\ s \in todo[b])
  <2>1. OnceThere'
    BY <1>2 DEF OnceThere
  <2> QED BY <1>2, <2>1
<1>3. CASE Exit(b)
  BY <1>2, <1>3 DEF Exit, locks, TypeOK
<1>4. CASE Crash(b)
  <2>1. /\ UNCHANGED <<meta, todo, ctl>>
        /\ flock' = [t \in Site |-> IF flock[t] = b THEN None ELSE flock[t]]
        /\ phase' = [phase EXCEPT ![b] = [t \in Site |-> "out"]]
    BY <1>4 DEF Crash
  <2>2. \A t \in Site : flock'[t] \in {None, flock[t]}
    BY <2>1
  <2>3. \A a \in Backup, t \in Site :
           phase'[a][t] = "out" \/ phase[a][t] # "out"
    BY <2>1 DEF TypeOK
  <2> QED BY <1>2, <2>1, <2>2, <2>3
<1>5. ASSUME NEW s \in Site, Run(b, s)
      PROVE  /\ UNCHANGED ctl
             /\ OnceThere'
             /\ \A a \in Backup : todo'[a] \subseteq todo[a]
             /\ \A t \in Site : flock'[t] \in {None, flock[t]}
                                \/ (flock'[t] = b /\ t \in todo[b])
  <2>1. CASE TryLock(b, s)
    <3>1. /\ s \in todo[b] /\ UNCHANGED <<meta, ctl>>
          /\ Enter(b, s, "locked")
          /\ flock' = [flock EXCEPT ![s] = b]
          /\ todo' = [todo EXCEPT ![b] = @ \ {s}]
      BY <2>1 DEF TryLock, Due
    <3>2. \A a \in Backup : todo'[a] \subseteq todo[a]
      BY <3>1 DEF TypeOK
    <3>3. \A t \in Site : flock'[t] \in {None, flock[t]}
                          \/ (flock'[t] = b /\ t \in todo[b])
      BY <3>1 DEF TypeOK
    <3>4. s \notin todo'[b]
      BY <3>1 DEF TypeOK
    <3>5. \A a \in Backup, t \in Site :
             a # b \/ t # s => phase'[a][t] = phase[a][t]
      BY <3>1, EnterType
    <3>6. \A a \in Backup, t \in Site :
             phase'[a][t] = "out" \/ phase[a][t] # "out" \/ t \notin todo'[a]
      BY <3>4, <3>5
    <3> QED BY <1>2, <3>1, <3>2, <3>3, <3>6
  <2>2. CASE Skip(b, s)
    <3>1. \A a \in Backup : todo'[a] \subseteq todo[a]
      BY <2>2 DEF Skip, TypeOK
    <3> QED BY <1>2, <2>2, <3>1 DEF Skip, locks
  <2>3. CASE ~(TryLock(b, s) \/ Skip(b, s))
    <3>1. /\ UNCHANGED <<todo, ctl>>
          /\ \A t \in Site : flock'[t] \in {None, flock[t]}
      BY <1>5, <2>3 DEF Run, WriteOwner, WriteOwnerFails, CreateRun, Finish,
                        ClearOwner, Unlock, locks, TypeOK
    <3>2. PICK ph \in {"named", "working", "clearing", "unlocking", "out"} :
             phase[b][s] # "out" /\ Enter(b, s, ph)
      BY <1>5, <2>3 DEF Run, WriteOwner, WriteOwnerFails, CreateRun, Finish,
                        ClearOwner, Unlock
    <3>3. \A a \in Backup, t \in Site :
             phase'[a][t] = "out" \/ phase[a][t] # "out"
      BY <3>2, EnterType
    <3>4. \A t \in Site : meta'[t] \in {meta[t], None} \/ (meta'[t] = b /\ t = s)
      <4>1. CASE WriteOwnerFails(b, s)
        <5>1. PICK m \in {meta[s], b, None} : meta' = [meta EXCEPT ![s] = m]
          BY <4>1 DEF WriteOwnerFails
        <5> QED BY <5>1 DEF TypeOK
      <4>2. CASE ~WriteOwnerFails(b, s)
        BY <1>5, <2>3, <4>2 DEF Run, WriteOwner, CreateRun, Finish, ClearOwner,
                                Unlock, locks, TypeOK
      <4> QED BY <4>1, <4>2
    <3>5. \A a \in Backup, t \in Site :
             meta'[t] = a => meta[t] = a \/ phase[a][t] # "out"
      BY <1>1, <3>2, <3>4
    <3> QED BY <1>2, <3>1, <3>3, <3>5
  <2> QED BY <2>1, <2>2, <2>3
<1> QED BY <1>3, <1>4, <1>5

\* What a step of a control process does to its command.
Quits(c) == pc'[c] = "idle" /\ \A s \in Site : saw'[c][s] = "none"

Scans(c) ==
    /\ why[c] = "scan" /\ pc'[c] = "inspect"
    /\ \A s \in Site :
          saw'[c][s] \in {saw[c][s], "free", "unknown"} \/ saw'[c][s] = meta[s]

Accepts(c) ==
    /\ pc'[c] = "verify" /\ saw'[c] = saw[c] /\ want'[c] = want[c]
    /\ \A s \in Site :
          saw[c][s] \in Backup /\ want[c] \in {s, All} => s \in waiting'[c]

FindsFree(c) ==
    /\ pc[c] = "unprobe" /\ why[c] = "wait" /\ pc'[c] = "wait"
    /\ saw'[c] = saw[c] /\ want'[c] = want[c]
    /\ flock'[cur[c]] = None
    /\ waiting'[c] = waiting[c] \ {cur[c]}

Moves(c) ==
    /\ saw'[c] = saw[c] /\ waiting'[c] = waiting[c]
    /\ Accepted(c)' => Accepted(c) /\ want'[c] = want[c]
    /\ pc'[c] = "report" => waiting[c] = {}

LEMMA ControlShape ==
    ASSUME LockInv, NEW c \in Ctl,
           Control(c) \/ \E t \in Site \cup {All} : Stop(c, t)
    PROVE  /\ UNCHANGED <<meta, todo, phase>>
           /\ \A s \in Site : flock'[s] \in {None, c, flock[s]}
           /\ \A d \in Ctl \ {c} :
                 /\ pc'[d] = pc[d] /\ why'[d] = why[d] /\ want'[d] = want[d]
                 /\ saw'[d] = saw[d] /\ waiting'[d] = waiting[d]
           /\ Quits(c) \/ Scans(c) \/ Accepts(c) \/ FindsFree(c) \/ Moves(c)
<1> USE DEF LockInv
<1>1. ASSUME Quit(c), UNCHANGED <<meta, todo, phase>>,
             \A s \in Site : flock'[s] \in {None, c, flock[s]}
      PROVE  /\ \A d \in Ctl \ {c} :
                   /\ pc'[d] = pc[d] /\ why'[d] = why[d] /\ want'[d] = want[d]
                   /\ saw'[d] = saw[d] /\ waiting'[d] = waiting[d]
             /\ Quits(c)
  BY <1>1 DEF Quit, Inspected, Goto, TypeOK, Quits
<1>2. CASE \E t \in Site \cup {All} : Stop(c, t)
  BY <1>2 DEF Stop, Goto, locks, work, TypeOK, Moves, Accepted
<1>3. ASSUME NEW s \in Site, Probe(c, s)
      PROVE  /\ UNCHANGED <<meta, todo, phase>>
             /\ \A t \in Site : flock'[t] \in {None, c, flock[t]}
             /\ \A d \in Ctl \ {c} :
                   /\ pc'[d] = pc[d] /\ why'[d] = why[d] /\ want'[d] = want[d]
                   /\ saw'[d] = saw[d] /\ waiting'[d] = waiting[d]
             /\ Moves(c)
  <2>1. /\ pc[c] \in {"inspect", "verify", "wait"}
        /\ pc[c] = "inspect" => Purpose[pc[c]] = "scan"
    BY <1>3 DEF Probe, Subject, Purpose
  <2>2. /\ pc' = [pc EXCEPT ![c] = "unprobe"] \/ pc' = [pc EXCEPT ![c] = "read"]
        /\ why' = [why EXCEPT ![c] = Purpose[pc[c]]]
        /\ flock' = [flock EXCEPT ![s] = c] \/ UNCHANGED flock
        /\ UNCHANGED <<meta, work, want, saw, waiting>>
    BY <1>3 DEF Probe, Goto
  <2>3. Moves(c)
    BY <2>1, <2>2 DEF TypeOK, Moves, Accepted
  <2> QED BY <2>2, <2>3 DEF TypeOK, work
<1>4. CASE Unprobe(c)
  <2>1. /\ cur[c] \in Site
        /\ flock' = [flock EXCEPT ![cur[c]] = None]
        /\ UNCHANGED <<meta, work>>
    BY <1>4 DEF Unprobe, ProbeHasLock
  <2>2. /\ \A s \in Site : flock'[s] \in {None, c, flock[s]}
        /\ UNCHANGED <<meta, todo, phase>>
    BY <2>1 DEF TypeOK, work
  <2>3. CASE why[c] = "scan"
    BY <1>4, <2>1, <2>2, <2>3 DEF Unprobe, Inspected, Goto, TypeOK, Scans
  <2>4. CASE why[c] = "verify"
    <3>1. Quit(c)
      BY <1>4, <2>4 DEF Unprobe
    <3> QED BY <1>1, <2>2, <3>1
  <2>5. CASE why[c] = "wait"
    BY <1>4, <2>1, <2>2, <2>5 DEF Unprobe, Inspected, Goto, TypeOK, FindsFree
  <2> QED BY <2>3, <2>4, <2>5 DEF TypeOK
<1>5. CASE ReadOwner(c)
  <2>1. cur[c] \in Site /\ UNCHANGED <<locks, work>>
    BY <1>5 DEF ReadOwner, ProbeHasLock
  <2>2. Owner(cur[c]) \in {meta[cur[c]], "unknown"}
    BY DEF Owner
  <2>3. CASE why[c] = "scan"
    <3>1. /\ saw' = [saw EXCEPT ![c][cur[c]] = Owner(cur[c])]
          /\ Goto(c, "inspect") /\ Inspected(c)
          /\ UNCHANGED <<want, waiting>>
      BY <1>5, <2>3 DEF ReadOwner
    <3>2. \A s \in Site : saw'[c][s] \in {saw[c][s], "unknown"}
                          \/ saw'[c][s] = meta[s]
      BY <2>1, <2>2, <3>1 DEF TypeOK
    <3>3. Scans(c)
      BY <2>3, <3>1, <3>2 DEF Goto, TypeOK, Scans
    <3> QED BY <2>1, <3>1, <3>3 DEF Inspected, Goto, TypeOK, locks, work
  <2>4. CASE why[c] = "verify" /\ Owner(cur[c]) = "unknown"
    <3>1. Quit(c)
      BY <1>5, <2>4 DEF ReadOwner
    <3> QED BY <1>1, <2>1, <3>1 DEF locks, work
  <2>5. CASE why[c] = "verify" /\ Owner(cur[c]) # "unknown"
    BY <1>5, <2>1, <2>5 DEF ReadOwner, Goto, TypeOK, locks, work, Moves,
                            Accepted
  <2>6. CASE why[c] = "wait"
    BY <1>5, <2>1, <2>6 DEF ReadOwner, Inspected, Goto, TypeOK, locks, work,
                            Moves, Accepted
  <2> QED BY <2>3, <2>4, <2>5, <2>6 DEF TypeOK
<1>6. CASE ListRunning(c) \/ AllSeen(c) \/ Signalled(c) \/ Released(c)
  <2>1. /\ UNCHANGED <<locks, work, want, why, saw, waiting>>
        /\ \/ pc[c] \in {"rows", "inspect"}
              /\ pc' = [pc EXCEPT ![c] = "inspect"]
           \/ pc' = [pc EXCEPT ![c] = "decide"]
           \/ pc[c] = "verify" /\ pc' = [pc EXCEPT ![c] = "wait"]
           \/ /\ pc[c] = "wait" /\ waiting[c] = {}
              /\ pc' = [pc EXCEPT ![c] = "report"]
    BY <1>6 DEF ListRunning, AllSeen, Signalled, Released, Goto
  <2> QED BY <2>1 DEF TypeOK, locks, work, Moves, Accepted
<1>7. CASE Refuse(c) \/ Report(c)
  <2>1. Quit(c) /\ UNCHANGED <<locks, work>>
    BY <1>7 DEF Refuse, Report
  <2> QED BY <1>1, <2>1 DEF locks, work
<1>8. CASE Accept(c)
  <2> DEFINE chosen == IF want[c] = All THEN Running(c) ELSE {want[c]}
  <2>1. /\ waiting' = [waiting EXCEPT ![c] = chosen]
        /\ pc' = [pc EXCEPT ![c] = "verify"]
        /\ UNCHANGED <<locks, work, want, why, saw>>
    BY <1>8 DEF Accept, Goto
  <2>2. \A s \in Site : saw[c][s] \in Backup /\ want[c] \in {s, All}
                            => s \in chosen
    BY DEF Running
  <2>3. Accepts(c)
    BY <2>1, <2>2 DEF Accepts, TypeOK
  <2> QED BY <2>1, <2>3 DEF TypeOK, locks, work
<1>9. CASE SignalTerm(c)
  <2>1. CASE life[target[c]] = "dead"
    <3>1. Quit(c) /\ UNCHANGED <<locks, rows, todo, phase>>
      BY <1>9, <2>1 DEF SignalTerm
    <3> QED BY <1>1, <3>1 DEF locks
  <2>2. CASE life[target[c]] # "dead"
    BY <1>9, <2>2 DEF SignalTerm, Inspected, Goto, TypeOK, locks, Moves,
                      Accepted
  <2> QED BY <2>1, <2>2
<1> QED BY <1>2, <1>3, <1>4, <1>5, <1>6, <1>7, <1>8, <1>9 DEF Control

\* No step gives a released site back to its process, or forgets one.
LEMMA StopStep ==
    ASSUME LockInv, StopInv, [Next]_vars
    PROVE  StopInv'
<1> USE DEF StopInv
<1>1. None \notin Backup /\ Backup \cap Ctl = {}
      /\ {"none", "free", "unknown"} \cap Backup = {}
  BY ConstantsAssumption DEF Proc
<1>2. CASE UNCHANGED vars
  BY <1>2 DEF vars, OnceThere, OnceSeen, WaitsOrReleased, NothingToWaitFor,
              Accepted
<1>3. ASSUME NEW b \in Backup, Exit(b) \/ Crash(b) \/ \E s \in Site : Run(b, s)
      PROVE  StopInv'
  <2>1. /\ UNCHANGED <<pc, want, why, saw, waiting>>
        /\ OnceThere'
        /\ \A a \in Backup : todo'[a] \subseteq todo[a]
        /\ \A s \in Site : flock'[s] \in {None, flock[s]}
                           \/ (flock'[s] = b /\ s \in todo[b])
    BY <1>3, BackupShape DEF ctl
  <2>2. OnceSeen' /\ NothingToWaitFor'
    BY <2>1 DEF OnceSeen, NothingToWaitFor
  <2>3. ASSUME NEW c \in Ctl, NEW s \in Site, saw[c][s] \in Backup,
               flock[s] # saw[c][s]
        PROVE  flock'[s] # saw[c][s]
    BY <1>1, <2>1, <2>3 DEF OnceSeen
  <2>4. WaitsOrReleased'
    BY <2>1, <2>3 DEF WaitsOrReleased, Accepted
  <2> QED BY <2>1, <2>2, <2>4
<1>4. ASSUME NEW c \in Ctl, Control(c) \/ \E t \in Site \cup {All} : Stop(c, t)
      PROVE  StopInv'
  <2>1. /\ UNCHANGED <<meta, todo, phase>>
        /\ \A s \in Site : flock'[s] \in {None, c, flock[s]}
        /\ \A d \in Ctl \ {c} :
              /\ pc'[d] = pc[d] /\ why'[d] = why[d] /\ want'[d] = want[d]
              /\ saw'[d] = saw[d] /\ waiting'[d] = waiting[d]
        /\ Quits(c) \/ Scans(c) \/ Accepts(c) \/ FindsFree(c) \/ Moves(c)
    BY <1>4, ControlShape
  <2>2. OnceThere'
    BY <2>1 DEF OnceThere
  <2>3. \A s \in Site, b \in Backup :
           saw'[c][s] = b => saw[c][s] = b \/ meta[s] = b
    BY <1>1, <2>1 DEF Quits, Scans, Accepts, FindsFree, Moves
  <2>4. OnceSeen'
    BY <2>1, <2>3 DEF OnceThere, OnceSeen
  <2>5. ASSUME NEW d \in Ctl, NEW s \in Site, saw[d][s] \in Backup,
               flock[s] # saw[d][s]
        PROVE  flock'[s] # saw[d][s]
    BY <1>1, <2>1, <2>5
  <2>6. \A d \in Ctl \ {c} : Accepted(d)' => Accepted(d)
    BY <2>1 DEF Accepted
  <2>7. ASSUME NEW s \in Site, Accepted(c)', saw'[c][s] \in Backup,
               want'[c] \in {s, All}
        PROVE  s \in waiting'[c] \/ flock'[s] # saw'[c][s]
    <3>1. CASE Quits(c) \/ Scans(c)
      BY <2>7, <3>1 DEF Quits, Scans, Accepted
    <3>2. CASE Accepts(c)
      BY <2>7, <3>2 DEF Accepts
    <3>3. CASE FindsFree(c)
      <4>1. Accepted(c)
        BY <3>3 DEF FindsFree, Accepted
      <4> QED BY <1>1, <2>5, <2>7, <3>3, <4>1 DEF FindsFree, WaitsOrReleased
    <3>4. CASE Moves(c)
      BY <2>5, <2>7, <3>4 DEF Moves, WaitsOrReleased
    <3> QED BY <2>1, <3>1, <3>2, <3>3, <3>4
  <2>8. WaitsOrReleased'
    <3>1. ASSUME NEW d \in Ctl \ {c}, NEW s \in Site, Accepted(d)',
                 saw'[d][s] \in Backup, want'[d] \in {s, All}
          PROVE  s \in waiting'[d] \/ flock'[s] # saw'[d][s]
      BY <2>1, <2>5, <2>6, <3>1 DEF WaitsOrReleased
    <3> QED BY <2>7, <3>1 DEF WaitsOrReleased
  <2>9. NothingToWaitFor'
    BY <2>1 DEF NothingToWaitFor, Quits, Scans, Accepts, FindsFree, Moves
  <2> QED BY <2>2, <2>4, <2>8, <2>9
<1> QED BY <1>2, <1>3, <1>4 DEF Next

\* When stop reports success, the processes it found have let go of the sites
\* it was asked for, whatever they and other commands did meanwhile.
THEOREM StopsAreDone == Spec => []StoppedMeansReleased
<1>1. Init => StopInv
  <2>1. {"none", "free", "unknown"} \cap Backup = {} /\ None \notin Backup
    BY ConstantsAssumption DEF Proc
  <2> QED BY <2>1 DEF Init, StopInv, OnceThere, OnceSeen, WaitsOrReleased,
                      NothingToWaitFor, Accepted
<1>2. LockInv /\ StopInv /\ [Next]_vars => StopInv'
  BY StopStep
<1>3. StopInv => StoppedMeansReleased
  BY DEF StopInv, StoppedMeansReleased, WaitsOrReleased, NothingToWaitFor,
         Accepted, Running
<1> QED BY <1>1, <1>2, <1>3, LocksAreHeld, PTL DEF Spec
=============================================================================
