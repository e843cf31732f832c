--------------------------- MODULE SiteWatchProofs ---------------------------
(***************************************************************************)
(* Proofs about a site over its days: first about its components on their  *)
(* own - an export (DatabaseExport), opening the application               *)
(* (Configuration), the dispatcher (Alerts) - then about the whole, which  *)
(* takes no step of theirs that their own specifications do not have, and  *)
(* about the reports (Reports) that are built from its history.            *)
(***************************************************************************)
EXTENDS SiteWatch, FiniteSetTheorems, SequenceTheorems,
        WellFoundedInduction, TLAPS

-----------------------------------------------------------------------------
(***************************************************************************)
(* What an export of DatabaseExport does holds for any tables, engines and *)
(* setting of auto_repair, however faults, damage and operators interfere. *)
(*                                                                         *)
(* The two properties are not inductive: that a package names every table  *)
(* its export repaired needs that nothing is left to repair when a dump is *)
(* made, and that at most four dumps are tried needs that the check of the *)
(* tables is entered once, by an export that has tries left.               *)
(***************************************************************************)

\* An export that did not turn to repair has found and repaired nothing.
Untouched == ~repaired => verdict = {} /\ todo = {} /\ fixed = {}

\* Nothing is left to repair when a dump is made, and a check comes first.
Settled ==
    /\ export \in {"create", "dump", "close", "wait", "done"} => todo = {} /\ fixed = verdict
    /\ export = "check" => todo = {} /\ fixed = {}
    /\ export = "repair" => verdict # {}

\* The dump after the repair is the only one beyond the retries.
Budget == attempt <= Retries \/ (repaired /\ export \notin {"check", "repair"})

Idle == export = "idle" => file = "absent" /\ attempt = 0 /\ ~repaired

ExportInv ==
    /\ ExportTypeOK
    /\ PackagesAreWhole
    /\ RepairsAreJustified
    /\ Untouched
    /\ Settled
    /\ Budget
    /\ Idle

-----------------------------------------------------------------------------


\* An export begins with nothing found, repaired or tried.
LEMMA ExportInitInv == ExportInit => ExportInv
<1> SUFFICES ASSUME ExportInit PROVE ExportInv
  OBVIOUS
<1> USE DEF ExportInit
<1>1. ExportTypeOK
  BY DEF ExportTypeOK, Health, Cause, Working
<1>2. PackagesAreWhole /\ RepairsAreJustified
  BY DEF PackagesAreWhole, RepairsAreJustified, Working, Retries
<1>3. Untouched /\ Settled /\ Budget /\ Idle
  BY DEF Untouched, Settled, Budget, Idle, Retries
<1> QED BY <1>1, <1>2, <1>3 DEF ExportInv

\* A dump begins, succeeds, is written out, or waits for its next try.
LEMMA DumpSteps ==
    ASSUME ExportInv, CreateFile \/ Dump \/ CloseFile \/ RetryDump \/ ExportBegin
    PROVE  ExportInv'
<1> USE DEF CreateFile, Dump, CloseFile, RetryDump, ExportBegin, Give, ExportInv
<1>1. ExportTypeOK'
  BY DEF ExportTypeOK, Cause, Working
<1>2. PackagesAreWhole'
  BY DEF PackagesAreWhole, Working, Retries, ExportTypeOK, Settled, Budget, Idle
<1>3. RepairsAreJustified'
  BY DEF RepairsAreJustified
<1>4. Untouched' /\ Settled'
  BY DEF Untouched, Settled, Idle
<1>5. Budget' /\ Idle'
  BY DEF Budget, Idle, Retries, ExportTypeOK, PackagesAreWhole
<1> QED BY <1>1, <1>2, <1>3, <1>4, <1>5

\* Giving up keeps what was found and repaired.
LEMMA FailedSteps ==
    ASSUME ExportInv, NEW why \in {"other", "cancelled", "corruption"},
           CreateFails(why) \/ CloseFails \/ CancelWait \/ MaintenanceFails(why)
    PROVE  ExportInv'
<1> USE DEF CreateFails, CloseFails, CancelWait, MaintenanceFails, Give, ExportInv
<1>1. ExportTypeOK'
  BY DEF ExportTypeOK, Cause, Working
<1>2. PackagesAreWhole'
  BY DEF PackagesAreWhole, Working
<1>3. RepairsAreJustified'
  BY DEF RepairsAreJustified
<1>4. Untouched' /\ Settled'
  BY DEF Untouched, Settled
<1>5. Budget' /\ Idle'
  BY DEF Budget, Idle
<1> QED BY <1>1, <1>2, <1>3, <1>4, <1>5

\* A failed dump turns to repair at most once and while it has tries left.
LEMMA DumpFailsStep ==
    ASSUME ExportInv, NEW why \in {"transient", "corruption", "other", "cancelled"},
           DumpFails(why)
    PROVE  ExportInv'
<1> USE DEF DumpFails, ExportInv
<1>1. \/ why = "corruption" /\ AutoRepair /\ ~repaired /\ Give("check", why) /\ repaired' = TRUE
      \/ attempt < Retries /\ Give("wait", why) /\ UNCHANGED repaired
      \/ Give("failed", why) /\ UNCHANGED repaired
  BY DEF AfterFailedDump
<1> USE DEF Give
<1>2. ExportTypeOK'
  BY <1>1 DEF ExportTypeOK, Cause, Working
<1>3. PackagesAreWhole'
  BY <1>1 DEF PackagesAreWhole, Working
<1>4. RepairsAreJustified'
  BY <1>1 DEF RepairsAreJustified, Untouched
<1>5. Untouched' /\ Settled'
  BY <1>1 DEF Untouched, Settled
<1>6. Budget' /\ Idle'
  BY <1>1 DEF Budget, Idle
<1> QED BY <1>2, <1>3, <1>4, <1>5, <1>6

\* The check finds tables to repair, all of which can be, or gives up.
LEMMA CheckTablesStep ==
    ASSUME ExportInv, CheckTables
    PROVE  ExportInv'
<1> USE DEF CheckTables, ExportInv
<1>1. \/ /\ Unhealthy # {} /\ Unhealthy \subseteq Repairable
         /\ todo' = Unhealthy /\ export' = "repair" /\ UNCHANGED cause
      \/ export' = "failed" /\ cause' = "corruption" /\ UNCHANGED todo
  BY DEF Give
<1>2. Unhealthy \subseteq Table
  BY DEF Unhealthy
<1>3. ExportTypeOK'
  BY <1>1, <1>2 DEF ExportTypeOK, Cause, Working
<1>4. PackagesAreWhole'
  BY <1>1 DEF PackagesAreWhole, Working
<1>5. RepairsAreJustified'
  BY <1>1 DEF RepairsAreJustified, Settled
<1>6. Untouched' /\ Settled'
  BY <1>1 DEF Untouched, Settled, RepairsAreJustified
<1>7. Budget' /\ Idle'
  BY <1>1 DEF Budget, Idle
<1> QED BY <1>3, <1>4, <1>5, <1>6, <1>7

\* Every repaired table was found by the check; the last repair is followed by
\* the one dump beyond the retries.
LEMMA RepairTableStep ==
    ASSUME ExportInv, NEW t \in Table, RepairTable(t)
    PROVE  ExportInv'
<1> USE DEF RepairTable, ExportInv
<1>1. ExportTypeOK'
  BY DEF ExportTypeOK, Working, Health
<1>2. attempt <= Retries /\ attempt \in Nat /\ repaired
  BY DEF Budget, ExportTypeOK, RepairsAreJustified
<1>3. PackagesAreWhole'
  BY <1>2 DEF PackagesAreWhole, Working, Retries
<1>4. todo' \cup fixed' = todo \cup fixed /\ (todo \cap fixed = {} => todo' \cap fixed' = {})
  OBVIOUS
<1>5. RepairsAreJustified'
  BY <1>4 DEF RepairsAreJustified
<1>6. Untouched' /\ Settled'
  BY <1>2, <1>4 DEF Untouched, Settled, RepairsAreJustified
<1>7. Budget' /\ Idle'
  BY <1>2 DEF Budget, Idle, Retries
<1> QED BY <1>1, <1>3, <1>5, <1>6, <1>7

\* A repair that fails, damage and operators change the tables only.
LEMMA TableSteps ==
    ASSUME ExportInv, NEW t \in Table, RepairFails(t) \/ OperatorRepairs(t) \/ DamageTable(t)
    PROVE  ExportInv'
<1> USE DEF RepairFails, OperatorRepairs, DamageTable, Give, ExportInv
<1>1. ExportTypeOK'
  BY DEF ExportTypeOK, Cause, Working, Health
<1>2. PackagesAreWhole'
  BY DEF PackagesAreWhole, Working
<1>3. RepairsAreJustified'
  BY DEF RepairsAreJustified
<1>4. Untouched' /\ Settled'
  BY DEF Untouched, Settled
<1>5. Budget' /\ Idle'
  BY DEF Budget, Idle
<1> QED BY <1>1, <1>2, <1>3, <1>4, <1>5

\* The next export begins with nothing.
LEMMA ExportOverStep ==
    ASSUME ExportInv, ExportOver
    PROVE  ExportInv'
<1> USE DEF ExportOver, ExportInv
<1>1. ExportTypeOK'
  BY DEF ExportTypeOK, Cause, Working
<1>2. PackagesAreWhole' /\ RepairsAreJustified'
  BY DEF PackagesAreWhole, RepairsAreJustified, Working, Retries
<1>3. Untouched' /\ Settled' /\ Budget' /\ Idle'
  BY DEF Untouched, Settled, Budget, Idle, Retries
<1> QED BY <1>1, <1>2, <1>3

LEMMA ExportStepInv ==
    ASSUME ExportInv, [ExportNext]_exportVars
    PROVE  ExportInv'
<1>1. CASE UNCHANGED exportVars
  BY <1>1 DEF exportVars, ExportInv, ExportTypeOK, PackagesAreWhole, RepairsAreJustified,
              Untouched, Settled, Budget, Idle
<1>2. CASE ExportBegin
  BY <1>2, DumpSteps
<1>3. CASE ExportSteps
  <2>1. CASE FileInTheWay
    BY <2>1, FailedSteps DEF FileInTheWay
  <2>2. CASE \E t \in Table : RepairTable(t)
    BY <2>2, RepairTableStep
  <2> QED BY <1>3, <2>1, <2>2, DumpSteps, CheckTablesStep DEF ExportSteps
<1>4. CASE ExportFaults
  <2>1. CASE \E why \in {"transient", "other", "cancelled"} : DumpFails(why)
    BY <2>1, DumpFailsStep
  <2>2. CASE \E t \in Table : RepairFails(t)
    BY <2>2, TableSteps
  <2> QED BY <1>4, <2>1, <2>2, FailedSteps DEF ExportFaults
<1>5. CASE DumpMeetsDamage
  BY <1>5, DumpFailsStep DEF DumpMeetsDamage
<1>6. CASE ExportEnd \/ ExportOver
  BY <1>6, ExportOverStep DEF ExportEnd
<1>7. CASE \E t \in Table : OperatorRepairs(t) \/ DamageTable(t)
  BY <1>7, TableSteps
<1> QED BY <1>1, <1>2, <1>3, <1>4, <1>5, <1>6, <1>7 DEF ExportNext

-----------------------------------------------------------------------------

\* The inductive invariant of an export.
THEOREM ExportInvariance == ExportSpec => []ExportInv
BY ExportInitInv, ExportStepInv, PTL DEF ExportSpec

\* A package is a whole dump that names every repaired table, no failed export
\* leaves a whole file, and at most four dumps are tried (exporter.go, Export).
THEOREM PackagesStayWhole == ExportSpec => []PackagesAreWhole
<1>1. ExportInv => PackagesAreWhole
  BY DEF ExportInv
<1> QED BY <1>1, ExportInvariance, PTL

\* Only tables of engines that can be repaired are repaired, all or none of the
\* unhealthy ones, when the source asks for it (maintenance.go, RepairCorruptTables).
THEOREM RepairsStayJustified == ExportSpec => []RepairsAreJustified
<1>1. ExportInv => RepairsAreJustified
  BY DEF ExportInv
<1> QED BY <1>1, ExportInvariance, PTL

-----------------------------------------------------------------------------
(***************************************************************************)
(* An application that gets ready is one its commands can use, whatever    *)
(* the files hold, whatever the providers answer, and whoever changes the  *)
(* files' modes before they are read.                                      *)
(*                                                                         *)
(* Validation alone does not say so: it accepts a storage that is to be    *)
(* resolved.  That none is left when the database is opened needs          *)
(* Unresolved, and that it is valid then needs the second validation.      *)
(***************************************************************************)

ConfigTypeOK ==
    /\ config \in Candidate
    /\ stage \in Stages
    /\ DOMAIN modes = {Files(config)[i] : i \in DOMAIN Files(config)}

\* What is in memory comes from the files, but for its storages and sites.
FromFiles ==
    /\ {"storages", "sites", "channels", "routes"} \subseteq DOMAIN active
    /\ active.routes = config.routes /\ active.channels = config.channels
    /\ \A n \in DOMAIN active.storages : "source" \in DOMAIN active.storages[n]

\* The storages that still are remote are those a provider is to be asked for.
Unresolved ==
    \A n \in DOMAIN active.storages : Remote(active.storages[n]) => n \in resolving

PrivateFiles == \A f \in DOMAIN modes : HoldsCredentials(config, f) => modes[f] = "private"

ConfigInv ==
    /\ ConfigTypeOK
    /\ stage # "closed" => FromFiles /\ Unresolved /\ PrivateFiles
    /\ stage \in {"database", "ready"} => Valid(active) /\ resolving = {}
    /\ stage = "closed" => ~handle

-----------------------------------------------------------------------------

LEMMA ConfigInitInv == ConfigInit => ConfigInv
BY DEF ConfigInit, ConfigInv, ConfigTypeOK, Stages

\* Defaults add storages' regions and change sites.
LEMMA DefaultsKeep ==
    ASSUME NEW c \in Candidate
    PROVE  LET d == WithDefaults(c)
           IN  /\ {"storages", "sites", "channels", "routes"} \subseteq DOMAIN d
               /\ d.routes = c.routes /\ d.channels = c.channels
               /\ \A n \in DOMAIN d.storages : "source" \in DOMAIN d.storages[n]
<1>1. /\ {"storages", "sites", "channels", "routes"} \subseteq DOMAIN c
      /\ \A n \in DOMAIN c.storages : "source" \in DOMAIN c.storages[n]
  BY ConfigurationAssumption
<1> QED BY <1>1 DEF WithDefaults

\* A process that ends leaves nothing behind.
LEMMA RefuseInv ==
    ASSUME ConfigInv, Refuse, DOMAIN modes' = DOMAIN modes
    PROVE  ConfigInv'
BY DEF ConfigInv, Refuse, ConfigTypeOK, Stages, Files

LEMMA LoadInv ==
    ASSUME ConfigInv, Load
    PROVE  ConfigInv'
<1> USE DEF Load, ConfigInv
<1>1. DOMAIN modes' = DOMAIN modes
  BY DEF TightenFiles
<1>2. CASE ~(AllRead(config) /\ Valid(WithDefaults(config)))
  BY <1>1, <1>2, RefuseInv
<1>3. CASE AllRead(config) /\ Valid(WithDefaults(config))
  <2>1. /\ active' = WithDefaults(config) /\ stage' = "resolve"
        /\ resolving' = {n \in DOMAIN active'.storages : Remote(active'.storages[n])}
        /\ UNCHANGED <<config, handle>>
    BY <1>3
  <2>2. ConfigTypeOK'
    BY <1>1, <2>1 DEF ConfigTypeOK, Stages, Files
  <2>3. FromFiles'
    BY <2>1, DefaultsKeep DEF FromFiles, ConfigTypeOK
  <2>4. Unresolved'
    BY <2>1 DEF Unresolved, Remote
  <2>5. PrivateFiles'
    <3> SUFFICES ASSUME NEW f \in DOMAIN modes, HoldsCredentials(config, f)
                 PROVE  modes'[f] = "private"
      BY <1>1, <2>1 DEF PrivateFiles, HoldsCredentials
    <3>1. f \in ReadFiles(config)
      BY <1>3 DEF ConfigTypeOK, AllRead
    <3> QED BY <3>1 DEF TightenFiles
  <2> QED BY <2>1, <2>2, <2>3, <2>4, <2>5
<1> QED BY <1>2, <1>3

\* An answer makes a storage one that is not remote.
LEMMA ResolveInv ==
    ASSUME ConfigInv, NEW n \in resolving, NEW response \in Response, Resolve(n, response)
    PROVE  ConfigInv'
<1> USE DEF Resolve, ConfigInv
<1>1. ConfigTypeOK'
  BY DEF ConfigTypeOK, Files
<1>2. FromFiles
  OBVIOUS
<1>3. /\ DOMAIN active' = DOMAIN active
      /\ active'.routes = active.routes /\ active'.channels = active.channels
      /\ DOMAIN active'.storages = DOMAIN active.storages
  BY <1>2 DEF FromFiles
<1>4. \A m \in DOMAIN active.storages :
         /\ m # n => active'.storages[m] = active.storages[m]
         /\ m = n => /\ DOMAIN active'.storages[m] = DOMAIN active.storages[m]
                     /\ active'.storages[m].source = ""
  BY <1>2 DEF FromFiles
<1>5. FromFiles'
  BY <1>2, <1>3, <1>4 DEF FromFiles
<1>6. Unresolved'
  BY <1>3, <1>4 DEF Unresolved, Remote
<1>7. PrivateFiles'
  BY DEF PrivateFiles, HoldsCredentials
<1> QED BY <1>1, <1>5, <1>6, <1>7

\* What does not look at the stage.
LEMMA SameConfig ==
    ASSUME UNCHANGED <<config, modes, active, resolving>>
    PROVE  /\ FromFiles => FromFiles'
           /\ Unresolved => Unresolved'
           /\ PrivateFiles => PrivateFiles'
           /\ Valid(active) => Valid(active)'
<1>1. FromFiles => FromFiles'
  BY DEF FromFiles
<1>2. Unresolved => Unresolved'
  BY DEF Unresolved, Remote
<1>3. PrivateFiles => PrivateFiles'
  BY DEF PrivateFiles, HoldsCredentials
<1>4. Valid(active) => Valid(active)'
  BY DEF Valid
<1> QED BY <1>1, <1>2, <1>3, <1>4

LEMMA ConfigStepInv ==
    ASSUME ConfigInv, [ConfigNext]_configVars
    PROVE  ConfigInv'
<1>1. CASE UNCHANGED configVars
  BY <1>1, SameConfig DEF configVars, ConfigInv, ConfigTypeOK, Files
<1>2. CASE FixPermissions
  BY <1>2 DEF FixPermissions, TightenFiles, ConfigInv, ConfigTypeOK, Files
<1>3. CASE Revalidate
  <2>1. CASE Valid(active)
    BY <1>3, <2>1, SameConfig DEF Revalidate, ConfigInv, ConfigTypeOK, Files, Stages
  <2>2. CASE ~Valid(active)
    BY <1>3, <2>2, RefuseInv DEF Revalidate
  <2> QED BY <2>1, <2>2
<1>4. CASE OpenReady
  BY <1>4, SameConfig DEF OpenReady, ConfigInv, ConfigTypeOK, Files, Stages
<1>5. CASE ResolveFails \/ OpenFails \/ Close \/ Die
  <2>1. Refuse /\ modes' = modes
    BY <1>5 DEF ResolveFails, OpenFails, Close, Die
  <2> QED BY <2>1, RefuseInv
<1>6. CASE \E f \in DOMAIN modes, mode \in {"open", "symlink", "unreadable"} : ChangeMode(f, mode)
  <2>1. /\ stage = "closed" /\ stage' = "closed" /\ config' = config /\ handle' = handle
        /\ DOMAIN modes' = DOMAIN modes
    BY <1>6 DEF ChangeMode
  <2>2. ConfigTypeOK'
    BY <2>1 DEF ConfigInv, ConfigTypeOK, Files
  <2> QED BY <2>1, <2>2 DEF ConfigInv
<1> QED
  BY <1>1, <1>2, <1>3, <1>4, <1>5, <1>6, LoadInv, ResolveInv
     DEF ConfigNext, ConfigSteps, ConfigFaults

-----------------------------------------------------------------------------

\* A storage that passes validation and is not remote can be written to.
LEMMA StoreIsUsable ==
    ASSUME NEW name, NEW st, StorageOK(name, st), ~Remote(st)
    PROVE  /\ st.type \in {"local", "s3", "r2"}
           /\ IF st.type = "local" THEN st.directory = "absolute"
              ELSE st.present = Credentials /\ st.region # ""
BY DEF StorageOK, LocalStorageOK, S3StorageOK, R2StorageOK, RemoteOK

\* A valid configuration without remote storages is one that can be used.
LEMMA ValidIsUsable ==
    ASSUME ConfigInv, stage = "ready"
    PROVE  OpenedIsUsable
<1>1. Valid(active) /\ PrivateFiles
  BY DEF ConfigInv
<1>2. \A n \in DOMAIN active.storages : ~Remote(active.storages[n])
  BY DEF ConfigInv, Unresolved
<1>3. ASSUME NEW site \in EnabledSites
      PROVE  /\ site.destinations # <<>>
             /\ \A i \in DOMAIN site.destinations :
                   LET st == active.storages[site.destinations[i]]
                   IN  /\ site.destinations[i] \in Stores
                       /\ ~Remote(st)
                       /\ IF st.type = "local" THEN st.directory = "absolute"
                          ELSE st.present = Credentials /\ st.region # ""
             /\ \A db \in EnabledSources(site) :
                   /\ db.engine \in Exporters \cap {"mysql", "postgres"}
                   /\ db.auto_repair => db.engine \in Maintainers
             /\ DistinctNames(site.databases, Enabled(site.databases))
             /\ site.mode = "incremental" => site.password
             /\ site.keep_last >= 1 /\ site.minimum_interval > 0
  <2>1. PICK i \in DOMAIN active.sites : site = active.sites[i] /\ site.enabled
    BY DEF EnabledSites, Enabled
  <2>2. SiteOK(site, active.storages)
    BY <1>1, <2>1 DEF Valid, SitesOK
  <2>3. site.destinations # <<>> /\ site.minimum_interval > 0 /\ site.keep_last >= 1
    BY <2>1, <2>2 DEF SiteOK
  <2>4. ASSUME NEW d \in DOMAIN site.destinations
        PROVE  LET st == active.storages[site.destinations[d]]
               IN  /\ site.destinations[d] \in Stores
                   /\ ~Remote(st)
                   /\ IF st.type = "local" THEN st.directory = "absolute"
                      ELSE st.present = Credentials /\ st.region # ""
    <3>1. site.destinations[d] \in DOMAIN active.storages
      BY <2>1, <2>2 DEF SiteOK
    <3>2. StorageOK(site.destinations[d], active.storages[site.destinations[d]])
      BY <1>1, <3>1 DEF Valid, StoragesOK
    <3> QED BY <3>1, <3>2, <1>2, StoreIsUsable DEF Stores
  <2>5. ASSUME NEW db \in EnabledSources(site)
        PROVE  /\ db.engine \in Exporters \cap {"mysql", "postgres"}
               /\ db.auto_repair => db.engine \in Maintainers
    <3>1. DatabaseOK(db)
      BY <2>1, <2>2 DEF SiteOK, EnabledSources
    <3>2. db.engine \in Exporters
      BY DEF Exporters
    <3> QED BY <3>1, <3>2 DEF DatabaseOK, Maintainers
  <2>6. DistinctNames(site.databases, Enabled(site.databases))
        /\ (site.mode = "incremental" => site.password)
    BY <2>1, <2>2 DEF SiteOK
  <2> QED BY <2>3, <2>4, <2>5, <2>6
<1>4. \A r \in active.routes : r.channels \subseteq Deliverers
  BY <1>1 DEF Valid, NotificationsOK, ChannelOK, Deliverers
<1>5. \A k \in DOMAIN active.reports :
         active.reports[k].enabled => \E r \in active.routes : r.name = active.reports[k].route
  BY <1>1 DEF Valid, ReportOK
<1> QED BY <1>1, <1>3, <1>4, <1>5 DEF OpenedIsUsable, PrivateFiles

\* The inductive invariant of opening an application.
THEOREM ConfigInvariance == ConfigSpec => []ConfigInv
BY ConfigInitInv, ConfigStepInv, PTL DEF ConfigSpec

\* A ready application has what its commands reach for, and one that is closed
\* holds no database open (app.go, Open; config, Load and Validate).
THEOREM ReadyIsUsable == ConfigSpec => []OpenedIsUsable
<1>1. ConfigInv => OpenedIsUsable
  BY ValidIsUsable DEF ConfigInv, OpenedIsUsable
<1> QED BY <1>1, ConfigInvariance, PTL

-----------------------------------------------------------------------------
(***************************************************************************)
(* Proofs about Alerts, for any channels, routes, scopes and reasons and   *)
(* any length of a day, wherever loading, sending or saving fails or the   *)
(* process ends.                                                           *)
(*                                                                         *)
(* ChannelsKnow speaks of the time between dispatches.  It holds then as   *)
(* during a dispatch every channel the notice has come to knows it, a      *)
(* channel the notice does not go to has no incident open, because it was  *)
(* told one only where its route says so, and what is saved for a channel  *)
(* is what it was told.                                                    *)
(***************************************************************************)

Told(s, c) == inbox[s][c].what

\* Whether c believes what the last notice about s said.
Knows(s, c) ==
    IF latest[s].event \in Healthy THEN Told(s, c) \notin Incident
    ELSE c \in ChannelsFor(latest[s].event) => Told(s, c) = latest[s]

Aware(s, c) == latest[s] = NoPrint \/ <<s, c>> \in apart \cup missed \/ Knows(s, c)

\* Who the notice has not come to, and who has it but not its record.
Pending(s, c) == notice # NoNotice /\ s = notice.scope /\ c \in untold /\ c # unsaved

InformedSoFar == \A s \in Scope, c \in Channel \ Webhook : Pending(s, c) \/ Aware(s, c)

\* Who has an incident open is routed for it.
IncidentsAreRouted ==
    \A s \in Scope, c \in Channel \ Webhook :
        Told(s, c) \in Incident => c \in ChannelsFor(Told(s, c).event)

\* The notice under way is the last one and goes to its recipients, a skip to
\* webhooks only.
NoticeIsLatest ==
    /\ notice = NoNotice => untold = {}
    /\ notice # NoNotice => untold \subseteq Recipients(notice.event)
    /\ notice # NoNotice =>
          IF notice.event = "backup_skipped" THEN untold \subseteq Webhook
          ELSE latest[notice.scope] = IncidentOf(notice)

\* Between a message and its record.
UnsavedIsTold ==
    unsaved # Nobody =>
        /\ notice # NoNotice /\ unsaved \in untold \ Webhook
        /\ <<notice.scope, unsaved>> \in apart
        /\ Told(notice.scope, unsaved) =
              IF notice.event \in Healthy THEN Recovery ELSE IncidentOf(notice)

AlertsInv ==
    /\ AlertsTypeOK
    /\ RecordsMatch
    /\ IncidentsAreRouted
    /\ NoticeIsLatest
    /\ UnsavedIsTold
    /\ InformedSoFar

-----------------------------------------------------------------------------

\* An incident is not a fingerprint that is empty, nor a recovery.
LEMMA Incidents ==
    /\ NoPrint \notin Incident /\ Recovery \notin Incident
    /\ \A i \in Incident : i.event \in Problem
    /\ NoNotice \notin Notice
    /\ \A n \in Notice : n.event \in Problem => IncidentOf(n) \in Incident
    /\ \A n \in Notice : IncidentOf(n).event = n.event
    /\ \A e \in Problem : e \notin Healthy /\ e # "backup_skipped"
    /\ \A e \in Healthy : e # "backup_skipped"
<1>1. \A i \in Incident : i.event \in Problem
  BY DEF Incident
<1>2. NoPrint.event \notin Problem /\ Recovery.event \notin Problem
  BY DEF NoPrint, Recovery, Problem
<1>3. \A n \in Notice : n.event \in Event
  BY DEF Notice
<1>4. NoNotice.event \notin Event
  BY DEF NoNotice, Event, Healthy, Problem
<1>5. \A n \in Notice : n.event \in Problem => IncidentOf(n) \in Incident
  BY DEF Notice, IncidentOf, Incident
<1>6. \A n \in Notice : IncidentOf(n).event = n.event
  BY DEF IncidentOf
<1>7. /\ \A e \in Problem : e \notin Healthy /\ e # "backup_skipped"
      /\ \A e \in Healthy : e # "backup_skipped"
  BY DEF Problem, Healthy
<1> QED BY <1>1, <1>2, <1>3, <1>4, <1>5, <1>6, <1>7

\* Nothing is told, saved or open in the beginning.
LEMMA AlertsInitInv == AlertsInit => AlertsInv
<1> SUFFICES ASSUME AlertsInit PROVE AlertsInv
  OBVIOUS
<1> USE DEF AlertsInit
<1>1. AlertsTypeOK
  BY DEF AlertsTypeOK
<1>2. RecordsMatch /\ IncidentsAreRouted
  BY Incidents DEF RecordsMatch, IncidentsAreRouted, Told
<1>3. NoticeIsLatest /\ UnsavedIsTold
  BY DEF NoticeIsLatest, UnsavedIsTold
<1>4. InformedSoFar
  BY DEF InformedSoFar, Aware
<1> QED BY <1>1, <1>2, <1>3, <1>4 DEF AlertsInv


\* Routes appear before anything is told.
LEMMA ConfigureRoutesInv ==
    ASSUME AlertsInv, NEW rs \in SUBSET Route, ConfigureRoutes(rs)
    PROVE  AlertsInv'
<1> USE DEF ConfigureRoutes, AlertsInv
<1>1. AlertsTypeOK'
  BY DEF AlertsTypeOK, Route
<1>2. \A e : ChannelsFor(e) = {}
  BY DEF ChannelsFor
<1>3. \A s \in Scope, c \in Channel \ Webhook : Told(s, c) \notin Incident
  BY <1>2 DEF IncidentsAreRouted
<1>4. RecordsMatch'
  BY DEF RecordsMatch
<1>5. IncidentsAreRouted'
  BY <1>3 DEF IncidentsAreRouted, Told
<1>6. NoticeIsLatest' /\ UnsavedIsTold'
  <2>1. \A e : Recipients(e) = {}
    BY <1>2, Incidents DEF Recipients
  <2>2. untold = {}
    BY <2>1 DEF NoticeIsLatest
  <2> QED BY <2>2 DEF NoticeIsLatest, UnsavedIsTold, Told, IncidentOf
<1>7. InformedSoFar'
  BY DEF InformedSoFar, Aware
<1> QED BY <1>1, <1>4, <1>5, <1>6, <1>7

\* What a channel hears of the notice, if it hears: everybody who is not among
\* its recipients has no incident open, or is not meant.
LEMMA NotifyBeginInv ==
    ASSUME AlertsInv, NEW n \in Notice, NotifyBegin(n)
    PROVE  AlertsInv'
<1> USE DEF NotifyBegin, AlertsInv
<1>1. ChannelsFor(n.event) \subseteq Channel /\ Recipients(n.event) \subseteq Channel
  <2>1. \A e : ChannelsFor(e) \subseteq Channel
    BY DEF ChannelsFor, AlertsTypeOK
  <2> QED BY <2>1 DEF Recipients
<1>2. n.scope \in Scope /\ IncidentOf(n) \in [event : Event, reason : Reason]
  BY DEF Notice, IncidentOf
<1>3. AlertsTypeOK'
  BY <1>1, <1>2 DEF AlertsTypeOK
<1>4. RecordsMatch' /\ IncidentsAreRouted'
  BY DEF RecordsMatch, IncidentsAreRouted, Told, ChannelsFor
<1>5. UnsavedIsTold'
  BY DEF UnsavedIsTold
<1>6. notice' # NoNotice
  BY Incidents
<1>7. NoticeIsLatest'
  <2>1. n.event = "backup_skipped" => Recipients(n.event) \subseteq Webhook
    BY Incidents DEF Recipients, Healthy
  <2>2. n.event # "backup_skipped" => latest'[n.scope] = IncidentOf(n)
    BY <1>2 DEF Notice, Event, AlertsTypeOK
  <2>3. IncidentOf(n)' = IncidentOf(n) /\ Recipients(n.event)' = Recipients(n.event)
    BY DEF IncidentOf, Recipients, ChannelsFor
  <2> QED BY <1>6, <2>1, <2>2, <2>3 DEF NoticeIsLatest, IncidentOf
<1>8. ASSUME NEW s \in Scope, NEW c \in Channel \ Webhook
      PROVE  Pending(s, c)' \/ Aware(s, c)'
  <2>1. Aware(s, c)
    BY DEF InformedSoFar, Pending
  <2>2. CASE n.event = "backup_skipped" \/ s # n.scope
    <3>1. latest'[s] = latest[s] /\ (<<s, c>> \in missed => <<s, c>> \in missed')
      BY <2>2, Incidents DEF Healthy, Problem, AlertsTypeOK
    <3> QED BY <2>1, <3>1 DEF Aware, Knows, Told, ChannelsFor
  <2>3. CASE n.event # "backup_skipped" /\ s = n.scope
    <3>1. latest'[s] = IncidentOf(n)
      BY <2>3, <1>2 DEF Notice, Event, AlertsTypeOK
    <3>2. CASE c \in Recipients(n.event)
      BY <3>2, <2>3, <1>6, AlertsAssumption DEF Pending, UnsavedIsTold
    <3>3. CASE c \notin Recipients(n.event)
      <4>1. CASE n.event \in Healthy
        <5>1. \A e \in Problem : c \notin ChannelsFor(e)
          <6>1. Recipients(n.event) =
                  ChannelsFor(n.event)
                    \cup ((UNION {ChannelsFor(e) : e \in Problem}) \ Webhook)
            BY <4>1, Incidents DEF Recipients
          <6> QED BY <3>3, <6>1
        <5>2. Told(s, c) \notin Incident
          BY <5>1, Incidents DEF IncidentsAreRouted
        <5> QED BY <5>2, <4>1, <3>1, Incidents DEF Aware, Knows, Told
      <4>2. CASE n.event \notin Healthy
        <5>1. c \notin ChannelsFor(n.event)
          BY <3>3, <4>2, <2>3 DEF Recipients
        <5> QED BY <5>1, <4>2, <3>1, Incidents DEF Aware, Knows, ChannelsFor
      <4> QED BY <4>1, <4>2
    <3> QED BY <3>2, <3>3
  <2> QED BY <2>2, <2>3
<1> QED BY <1>3, <1>4, <1>5, <1>7, <1>8 DEF InformedSoFar

\* A webhook counts for nothing here, and a state not loaded only for the rest of
\* the dispatch.
LEMMA WebhookAndLoadInv ==
    ASSUME AlertsInv, NEW c \in Channel, SendWebhook(c) \/ LoadFails(c)
    PROVE  AlertsInv'
<1> USE DEF SendWebhook, LoadFails, Comes, AlertsInv
<1>1. AlertsTypeOK'
  BY DEF AlertsTypeOK
<1>2. RecordsMatch' /\ IncidentsAreRouted'
  BY DEF RecordsMatch, IncidentsAreRouted, Told, ChannelsFor
<1>3. NoticeIsLatest' /\ UnsavedIsTold'
  BY DEF NoticeIsLatest, UnsavedIsTold, IncidentOf, Recipients, ChannelsFor
<1>4. InformedSoFar'
  BY DEF InformedSoFar, Pending, Aware, Knows, Told, ChannelsFor
<1> QED BY <1>1, <1>2, <1>3, <1>4

\* The channel a notice comes to: it is about an incident or a recovery, the last
\* thing that was said about its scope.
LEMMA ComesToChannel ==
    ASSUME AlertsInv, NEW c \in Channel \ Webhook, Comes(c)
    PROVE  /\ notice \in Notice /\ notice.scope \in Scope
           /\ notice.event \in Healthy \cup Problem
           /\ latest[notice.scope] = IncidentOf(notice)
           /\ notice.event \in Problem => IncidentOf(notice) \in Incident
<1>1. notice \in Notice
  BY DEF Comes, AlertsInv, AlertsTypeOK
<1>2. notice.event # "backup_skipped" /\ latest[notice.scope] = IncidentOf(notice)
  BY DEF Comes, AlertsInv, NoticeIsLatest
<1>3. notice.scope \in Scope /\ notice.event \in Event
  BY <1>1 DEF Notice
<1> QED BY <1>1, <1>2, <1>3, Incidents DEF Event

\* What is no news is known, unless the state was not loaded.
LEMMA SuppressInv ==
    ASSUME AlertsInv, NEW c \in Channel, NEW now \in Nat, Suppress(c, now)
    PROVE  AlertsInv'
<1> USE DEF Suppress, AlertsInv
<1>1. c \in Channel \ Webhook /\ Comes(c)
  OBVIOUS
<1>2. PICK s0 \in Scope : s0 = notice.scope
  BY <1>1, ComesToChannel
<1>3. Aware(s0, c)'
  <2>1. CASE c \in blind
    BY <2>1, <1>2 DEF Aware, Scoped
  <2>2. CASE c \notin blind /\ <<s0, c>> \in apart
    BY <2>2 DEF Aware
  <2>3. CASE c \notin blind /\ <<s0, c>> \notin apart
    <3>1. IF print[s0][c] = NoPrint THEN Told(s0, c) \in {NoPrint, Recovery}
                                    ELSE Told(s0, c) = print[s0][c]
      BY <2>3, <1>1 DEF RecordsMatch, Told
    <3>2. State(c) = print[s0][c]
      BY <2>3, <1>2 DEF State
    <3>3. notice \in Notice /\ latest[s0] = IncidentOf(notice)
      BY <1>1, <1>2, ComesToChannel
    <3>4. CASE notice.event \in Healthy
      <4>1. Told(s0, c) \notin Incident
        BY <3>1, <3>2, <3>4, Incidents DEF KeepsQuiet
      <4> QED BY <4>1, <3>3, <3>4, Incidents DEF Aware, Knows, Told
    <3>5. CASE notice.event \notin Healthy
      <4>1. IncidentOf(notice) \in Incident
        BY <1>1, <3>5, ComesToChannel
      <4>2. Told(s0, c) = IncidentOf(notice)
        BY <3>1, <3>2, <3>5, <4>1, Incidents DEF KeepsQuiet
      <4> QED BY <4>2, <3>3, <3>5, Incidents DEF Aware, Knows, Told, ChannelsFor
    <3> QED BY <3>4, <3>5
  <2> QED BY <2>1, <2>2, <2>3
<1>4. missed \subseteq missed' /\ missed' \subseteq Scope \X Channel
  BY <1>2 DEF AlertsTypeOK, Scoped
<1>5. AlertsTypeOK'
  BY <1>4 DEF AlertsTypeOK
<1>6. RecordsMatch' /\ IncidentsAreRouted'
  BY DEF RecordsMatch, IncidentsAreRouted, Told, ChannelsFor
<1>7. NoticeIsLatest' /\ UnsavedIsTold'
  BY <1>1 DEF NoticeIsLatest, UnsavedIsTold, IncidentOf, Comes, Recipients, ChannelsFor
<1>8. ASSUME NEW s \in Scope, NEW d \in Channel \ Webhook
      PROVE  Pending(s, d)' \/ Aware(s, d)'
  <2>1. CASE s = s0 /\ d = c
    BY <2>1, <1>3
  <2>2. CASE ~(s = s0 /\ d = c)
    BY <2>2, <1>2, <1>4 DEF InformedSoFar, Pending, Aware, Knows, Told, ChannelsFor
  <2> QED BY <2>1, <2>2
<1> QED BY <1>5, <1>6, <1>7, <1>8 DEF InformedSoFar

\* A message that is not accepted is missed.
LEMMA SendFailsInv ==
    ASSUME AlertsInv, NEW c \in Channel, NEW now \in Nat, SendFails(c, now)
    PROVE  AlertsInv'
<1> USE DEF SendFails, AlertsInv
<1>1. c \in Channel \ Webhook /\ Comes(c)
  OBVIOUS
<1>2. PICK s0 \in Scope : s0 = notice.scope
  BY <1>1, ComesToChannel
<1>3. <<s0, c>> \in missed' /\ missed \subseteq missed' /\ missed' \subseteq Scope \X Channel
  BY <1>2 DEF AlertsTypeOK, Scoped
<1>4. AlertsTypeOK'
  BY <1>3 DEF AlertsTypeOK
<1>5. RecordsMatch' /\ IncidentsAreRouted'
  BY DEF RecordsMatch, IncidentsAreRouted, Told, ChannelsFor
<1>6. NoticeIsLatest' /\ UnsavedIsTold'
  BY <1>1 DEF NoticeIsLatest, UnsavedIsTold, IncidentOf, Comes, Recipients, ChannelsFor
<1>7. ASSUME NEW s \in Scope, NEW d \in Channel \ Webhook
      PROVE  Pending(s, d)' \/ Aware(s, d)'
  BY <1>2, <1>3 DEF InformedSoFar, Pending, Aware, Knows, Told, ChannelsFor
<1> QED BY <1>4, <1>5, <1>6, <1>7 DEF InformedSoFar

\* A message goes to a channel that is routed for it, and has no record yet.
LEMMA SendInv ==
    ASSUME AlertsInv, NEW c \in Channel, NEW now \in Nat, Send(c, now)
    PROVE  AlertsInv'
<1> USE DEF Send, AlertsInv
<1>1. c \in Channel \ Webhook /\ Comes(c)
  OBVIOUS
<1>2. PICK s0 \in Scope : s0 = notice.scope
  BY <1>1, ComesToChannel
<1>3. /\ notice \in Notice /\ notice.event \in Healthy \cup Problem
      /\ notice.event \notin Healthy => IncidentOf(notice) \in Incident
  BY <1>1, ComesToChannel
<1>4. /\ Told(s0, c)' = IF notice.event \in Healthy THEN Recovery ELSE IncidentOf(notice)
      /\ \A s \in Scope, d \in Channel : (s # s0 \/ d # c) => inbox'[s][d] = inbox[s][d]
      /\ inbox' \in [Scope -> [Channel -> [what : Incident \cup {NoPrint, Recovery}, at : Nat]]]
  <2>1. News(now) \in [what : Incident \cup {NoPrint, Recovery}, at : Nat]
    BY <1>3 DEF News
  <2>2. News(now).what = IF notice.event \in Healthy THEN Recovery ELSE IncidentOf(notice)
    BY DEF News
  <2> QED BY <1>2, <2>1, <2>2 DEF AlertsTypeOK, Told
<1>5. apart' = apart \cup {<<s0, c>>}
  BY <1>2 DEF Scoped
<1>6. AlertsTypeOK'
  BY <1>4, <1>5 DEF AlertsTypeOK
<1>7. RecordsMatch'
  BY <1>4, <1>5 DEF RecordsMatch
<1>8. IncidentsAreRouted'
  <2>1. ASSUME IncidentOf(notice) \in Incident, notice.event \notin Healthy
        PROVE  c \in ChannelsFor(IncidentOf(notice).event)
    <3>1. Recipients(notice.event) = ChannelsFor(notice.event)
      BY <2>1, <1>3, Incidents DEF Recipients
    <3> QED BY <3>1, <1>1, <1>3, Incidents DEF Comes, NoticeIsLatest
  <2>2. Told(s0, c)' \in Incident => c \in ChannelsFor(Told(s0, c)'.event)
    BY <2>1, <1>4, Incidents
  <2> QED BY <2>2, <1>4 DEF IncidentsAreRouted, Told, ChannelsFor
<1>9. NoticeIsLatest'
  BY DEF NoticeIsLatest, IncidentOf, Recipients, ChannelsFor
<1>10. UnsavedIsTold'
  BY <1>1, <1>2, <1>4, <1>5 DEF UnsavedIsTold, Comes, IncidentOf
<1>11. ASSUME NEW s \in Scope, NEW d \in Channel \ Webhook
      PROVE  Pending(s, d)' \/ Aware(s, d)'
  <2>1. CASE s = s0 /\ d = c
    BY <2>1, <1>5 DEF Aware
  <2>2. CASE ~(s = s0 /\ d = c)
    BY <2>2, <1>2, <1>4, <1>5 DEF InformedSoFar, Pending, Aware, Knows, Told, ChannelsFor
  <2> QED BY <2>1, <2>2
<1> QED BY <1>6, <1>7, <1>8, <1>9, <1>10, <1>11 DEF InformedSoFar

\* The record says what the channel was told.
LEMMA SaveInv ==
    ASSUME AlertsInv, NEW now \in Nat, Later(now), Save(now)
    PROVE  AlertsInv'
<1> USE DEF Save, AlertsInv
<1>0. PICK c \in Channel : c = unsaved
  BY DEF AlertsTypeOK
<1>1. /\ notice \in Notice /\ c \in Channel \ Webhook /\ c \in untold
      /\ Told(notice.scope, c) =
            IF notice.event \in Healthy THEN Recovery ELSE IncidentOf(notice)
  BY <1>0 DEF UnsavedIsTold, AlertsTypeOK
<1>2. PICK s0 \in Scope : s0 = notice.scope
  BY <1>1 DEF Notice
<1>3. /\ latest[s0] = IncidentOf(notice)
      /\ notice.event \notin Healthy => IncidentOf(notice) \in Incident
  BY <1>0, <1>1, <1>2, Incidents DEF NoticeIsLatest, Notice, Event, UnsavedIsTold
<1>4. /\ print' \in [Scope -> [Channel -> Incident \cup {NoPrint}]]
      /\ sent' \in [Scope -> [Channel -> Nat]]
      /\ print'[s0][c] = IF notice.event \in Healthy THEN NoPrint ELSE IncidentOf(notice)
      /\ sent'[s0][c] = now
      /\ \A s \in Scope, d \in Channel : (s # s0 \/ d # c) =>
            print'[s][d] = print[s][d] /\ sent'[s][d] = sent[s][d]
  BY <1>0, <1>1, <1>2, <1>3 DEF AlertsTypeOK
<1>5. apart' = apart \ {<<s0, c>>}
  BY <1>0, <1>2 DEF Scoped
<1>6. AlertsTypeOK'
  BY <1>0, <1>4, <1>5 DEF AlertsTypeOK
<1>7. RecordsMatch'
  <2>1. ASSUME NEW s \in Scope, NEW d \in Channel \ Webhook, <<s, d>> \notin apart'
        PROVE  IF print'[s][d] = NoPrint THEN inbox'[s][d].what \in {NoPrint, Recovery}
               ELSE inbox'[s][d].what = print'[s][d] /\ inbox'[s][d].at <= sent'[s][d]
    <3>1. CASE s = s0 /\ d = c
      <4>1. inbox[s0][c].at <= now
        BY <1>1 DEF Later
      <4> QED BY <3>1, <4>1, <1>1, <1>2, <1>3, <1>4, Incidents DEF Told
    <3>2. CASE ~(s = s0 /\ d = c)
      BY <3>2, <2>1, <1>4, <1>5 DEF RecordsMatch
    <3> QED BY <3>1, <3>2
  <2> QED BY <2>1 DEF RecordsMatch
<1>8. IncidentsAreRouted'
  BY DEF IncidentsAreRouted, Told, ChannelsFor
<1>9. NoticeIsLatest' /\ UnsavedIsTold'
  BY <1>0, <1>1 DEF NoticeIsLatest, UnsavedIsTold, IncidentOf, Recipients, ChannelsFor
<1>10. ASSUME NEW s \in Scope, NEW d \in Channel \ Webhook
      PROVE  Pending(s, d)' \/ Aware(s, d)'
  <2>1. CASE s = s0 /\ d = c
    <3>1. Knows(s0, c)'
      BY <1>1, <1>2, <1>3, Incidents DEF Knows, Told
    <3> QED BY <2>1, <3>1 DEF Aware
  <2>2. CASE ~(s = s0 /\ d = c)
    BY <2>2, <1>0, <1>2, <1>5, AlertsAssumption
       DEF InformedSoFar, Pending, Aware, Knows, Told, ChannelsFor
  <2> QED BY <2>1, <2>2
<1> QED BY <1>6, <1>7, <1>8, <1>9, <1>10 DEF InformedSoFar

\* Without a record the channel stays apart.
LEMMA SaveFailsInv ==
    ASSUME AlertsInv, SaveFails
    PROVE  AlertsInv'
<1> USE DEF SaveFails, AlertsInv
<1>1. notice # NoNotice /\ unsaved \in Channel /\ <<notice.scope, unsaved>> \in apart
  BY DEF UnsavedIsTold, AlertsTypeOK
<1>2. AlertsTypeOK'
  BY DEF AlertsTypeOK
<1>3. RecordsMatch' /\ IncidentsAreRouted'
  BY DEF RecordsMatch, IncidentsAreRouted, Told, ChannelsFor
<1>4. NoticeIsLatest' /\ UnsavedIsTold'
  BY <1>1 DEF NoticeIsLatest, UnsavedIsTold, IncidentOf, Recipients, ChannelsFor
<1>5. InformedSoFar'
  BY <1>1, AlertsAssumption DEF InformedSoFar, Pending, Aware, Knows, Told, ChannelsFor
<1> QED BY <1>2, <1>3, <1>4, <1>5

\* The end of a dispatch, and of the process.
LEMMA NotifyEndInv ==
    ASSUME AlertsInv, NotifyEnd \/ NotifyCrash
    PROVE  AlertsInv'
<1> USE DEF NotifyEnd, NotifyCrash, AlertsInv
<1>1. missed \subseteq missed' /\ missed' \subseteq Scope \X Channel
  BY DEF AlertsTypeOK, Scoped, Notice
<1>2. AlertsTypeOK'
  BY <1>1 DEF AlertsTypeOK
<1>3. RecordsMatch' /\ IncidentsAreRouted'
  BY DEF RecordsMatch, IncidentsAreRouted, Told, ChannelsFor
<1>4. NoticeIsLatest' /\ UnsavedIsTold'
  BY DEF NoticeIsLatest, UnsavedIsTold
<1>5. ASSUME NEW s \in Scope, NEW c \in Channel \ Webhook
      PROVE  Aware(s, c)'
  <2>1. CASE Pending(s, c)
    BY <2>1 DEF Pending, Aware, Scoped
  <2>2. CASE Aware(s, c)
    BY <2>2, <1>1 DEF Aware, Knows, Told, ChannelsFor
  <2> QED BY <2>1, <2>2 DEF InformedSoFar
<1> QED BY <1>2, <1>3, <1>4, <1>5 DEF InformedSoFar

LEMMA AlertsStepInv ==
    ASSUME AlertsInv, NEW now \in Nat, Later(now), AlertsNext(now)
    PROVE  AlertsInv'
<1>1. CASE AlertSteps(now)
  BY <1>1, WebhookAndLoadInv, SuppressInv, SendInv, SaveInv DEF AlertSteps
<1>2. CASE AlertFaults(now)
  BY <1>2, WebhookAndLoadInv, SendFailsInv, SaveFailsInv DEF AlertFaults
<1> QED BY <1>1, <1>2, ConfigureRoutesInv, NotifyBeginInv, NotifyEndInv DEF AlertsNext

LEMMA AlertsStutterInv ==
    ASSUME AlertsInv, UNCHANGED alertVars
    PROVE  AlertsInv'
<1> USE DEF alertVars, AlertsInv
<1>0. AlertsTypeOK'
  BY DEF AlertsTypeOK
<1>1. RecordsMatch' /\ IncidentsAreRouted'
  BY DEF RecordsMatch, IncidentsAreRouted, Told, ChannelsFor
<1>2. NoticeIsLatest' /\ UnsavedIsTold'
  BY DEF NoticeIsLatest, UnsavedIsTold, IncidentOf, Recipients, ChannelsFor, Told
<1>3. InformedSoFar'
  BY DEF InformedSoFar, Pending, Aware, Knows, Told, ChannelsFor
<1> QED BY <1>0, <1>1, <1>2, <1>3

\* The inductive invariant of the dispatcher.
THEOREM AlertsInvariance == AlertsSpec => []AlertsInv
<1>1. AlertsInv /\ [\E now \in Nat : Later(now) /\ AlertsNext(now)]_alertVars => AlertsInv'
  BY AlertsStepInv, AlertsStutterInv
<1> QED BY <1>1, AlertsInitInv, PTL DEF AlertsSpec

\* Between dispatches a channel that missed nothing believes of each scope what
\* its last notice said (dispatch.go, Notify).
THEOREM ChannelsStayInformed == AlertsSpec => []ChannelsKnow
<1>1. AlertsInv => ChannelsKnow
  <2> SUFFICES ASSUME InformedSoFar, notice = NoNotice,
                      NEW s \in Scope, NEW c \in Channel \ Webhook
               PROVE  \/ latest[s] = NoPrint \/ <<s, c>> \in apart \cup missed
                      \/ IF latest[s].event \in Healthy THEN inbox[s][c].what \notin Incident
                         ELSE c \in ChannelsFor(latest[s].event) => inbox[s][c].what = latest[s]
    BY DEF AlertsInv, ChannelsKnow
  <2>1. Aware(s, c)
    BY DEF InformedSoFar, Pending
  <2> QED BY <2>1 DEF Aware, Knows, Told
<1> QED BY <1>1, AlertsInvariance, PTL

-----------------------------------------------------------------------------

\* Only Send tells a channel something, and only what is news to it.
LEMMA SendIsNews ==
    ASSUME AlertsInv, NEW c \in Channel, NEW now \in Nat, Send(c, now)
    PROVE  NoNoise
<1> USE DEF Send, AlertsInv
<1>1. PICK s0 \in Scope : s0 = notice.scope
  BY ComesToChannel
<1>2. /\ notice \in Notice
      /\ notice.event \notin Healthy => IncidentOf(notice) \in Incident
  BY ComesToChannel
<1>3. /\ inbox'[s0][c] = News(now)
      /\ \A s \in Scope, d \in Channel : (s # s0 \/ d # c) => inbox'[s][d] = inbox[s][d]
  BY <1>1 DEF AlertsTypeOK
<1>4. ASSUME <<s0, c>> \notin apart, c \notin blind
      PROVE  IF News(now).what = Recovery THEN inbox[s0][c].what \in Incident
             ELSE News(now).what # inbox[s0][c].what \/ now - inbox[s0][c].at >= DayTicks
  <2>1. State(c) = print[s0][c]
    BY <1>1, <1>4 DEF State
  <2>2. IF print[s0][c] = NoPrint THEN inbox[s0][c].what \in {NoPrint, Recovery}
        ELSE inbox[s0][c].what = print[s0][c] /\ inbox[s0][c].at <= sent[s0][c]
    BY <1>4 DEF RecordsMatch
  <2>3. /\ print[s0][c] \in Incident \cup {NoPrint} /\ sent[s0][c] \in Nat
        /\ inbox[s0][c].at \in Nat
    BY DEF AlertsTypeOK
  <2>4. CASE notice.event \in Healthy
    <3>1. News(now).what = Recovery /\ print[s0][c] # NoPrint
      BY <2>1, <2>4 DEF News, KeepsQuiet
    <3> QED BY <3>1, <2>2, <2>3
  <2>5. CASE notice.event \notin Healthy
    <3>1. News(now).what = IncidentOf(notice) /\ IncidentOf(notice) \in Incident
      BY <1>2, <2>5 DEF News
    <3>2. print[s0][c] # IncidentOf(notice) \/ ~(now - sent[s0][c] < DayTicks)
      BY <1>1, <2>1, <2>5 DEF KeepsQuiet
    <3>3. CASE print[s0][c] # IncidentOf(notice)
      BY <3>1, <3>3, <2>2, Incidents
    <3>4. CASE print[s0][c] = IncidentOf(notice) /\ ~(now - sent[s0][c] < DayTicks)
      <4>1. inbox[s0][c].at <= sent[s0][c]
        BY <3>1, <3>4, <2>2, Incidents
      <4>2. now - inbox[s0][c].at >= DayTicks
        BY <4>1, <3>4, <2>3, AlertsAssumption
      <4> QED BY <3>1, <4>2, Incidents
    <3> QED BY <3>2, <3>3, <3>4
  <2> QED BY <2>4, <2>5
<1>5. News(now).at = now
  BY DEF News
<1> QED BY <1>1, <1>3, <1>4, <1>5 DEF NoNoise

\* A channel hears of a recovery only after the incident, and of an incident it
\* knows only a day later, unless its record was lost or not read.
THEOREM NobodyIsNaggedEver == AlertsSpec => [][NoNoise]_alertVars
<1>1. AlertsInv /\ [\E now \in Nat : Later(now) /\ AlertsNext(now)]_alertVars
        => [NoNoise]_alertVars
  <2> SUFFICES ASSUME AlertsInv, NEW now \in Nat, AlertsNext(now) PROVE NoNoise
    OBVIOUS
  <2>1. CASE \E c \in Channel : Send(c, now)
    BY <2>1, SendIsNews
  <2>2. CASE ~\E c \in Channel : Send(c, now)
    <3>1. inbox' = inbox
      BY <2>2 DEF AlertsNext, AlertSteps, AlertFaults, ConfigureRoutes, NotifyBegin,
                  SendWebhook, Suppress, Save, LoadFails, SendFails, SaveFails, NotifyEnd,
                  NotifyCrash
    <3> QED BY <3>1 DEF NoNoise
  <2> QED BY <2>1, <2>2
<1> QED BY <1>1, AlertsInvariance, PTL DEF AlertsSpec

-----------------------------------------------------------------------------
(***************************************************************************)
(* What is proved of an export, of the dispatcher and of opening an        *)
(* application holds of the whole: a site over its days takes no step of   *)
(* theirs that their own specifications do not have, whatever happens      *)
(* beside it, and a report is recorded only when its channels got it.      *)
(***************************************************************************)

\* A run that is not over: what it will tell is a notice, unless only files were
\* gone.
Busy ==
    \E row : run \in [step : {"files", "database", "finish"}, scope : Scope, row : {row},
                      event : Healthy \cup Problem, reason : Reason \cup {"gone"}]

\* A run that has read the clock and has no row yet.
Starting == run \in [step : {"begin"}, scope : Scope, at : Nat]

RunOK == run = NoRun \/ run = [step |-> "notify"] \/ Starting \/ Busy

\* No message is from the future.
ClockOK == clock \in Nat /\ Later(clock)

\* What a report command still has to send, it sends, or it has failed.
JobOK(p) ==
    \/ job[p] = NoJob
    \/ \E report :
         /\ report.kind \in Kind
         /\ job[p] \in [step : {"check", "send"}, failed : BOOLEAN, todo : SUBSET Channel,
                        got : SUBSET Channel, report : {report}]
         /\ job[p].step = "send" /\ ~job[p].failed =>
               ReportRoute[report.kind] \subseteq job[p].todo \cup job[p].got

JobsOK == DOMAIN job = Sender /\ \A p \in Sender : JobOK(p)

WatchInv == AlertsInv /\ ConfigInv /\ RunOK /\ ClockOK /\ JobsOK

-----------------------------------------------------------------------------
(* The parts.                                                              *)

\* Every step is a step of the export or leaves it alone.
LEMMA WatchExports == [WatchNext]_watchVars => [ExportNext]_exportVars
<1> SUFFICES ASSUME [WatchNext]_watchVars PROVE [ExportNext]_exportVars
  OBVIOUS
<1>1. CASE UNCHANGED watchVars
  BY <1>1 DEF watchVars
<1>2. CASE Works
  BY <1>2 DEF Works, RunSkips, RunStarts, RunBegins, FilesStored, OnlyRun, ExportStarts,
              ExportGoesOn, ExportEnds, RunFinishes, NoticeGoesOn, NoticeEnds, OnlyAlerts,
              Opens, Readies, Closes, OnlyConfig, TableIsRepaired, Tick, ExportNext
<1>3. CASE RunErrs
  BY <1>3 DEF RunErrs, FilesFail, OnlyRun, RunCannotBegin, RunFinishFails, ProcessDies, ExportNext
<1>4. CASE ErrsInside
  BY <1>4 DEF ErrsInside, FilesFail, FilesIncomplete, OnlyRun, ExportErrs, NoticeErrs,
              OnlyAlerts, OpenErrs, OnlyConfig, TableBreaks, ExportNext
<1>5. CASE ReportWorks \/ \E p \in Sender : ReportErrs(p)
  BY <1>5 DEF ReportWorks, ReportBegins, ReportGoesOn, ReportErrs, OnlyReports
<1> QED BY <1>1, <1>2, <1>3, <1>4, <1>5 DEF WatchNext

\* Every step is a step of opening and closing the application or leaves it alone.
LEMMA WatchConfigures == [WatchNext]_watchVars => [ConfigNext]_configVars
<1> SUFFICES ASSUME [WatchNext]_watchVars PROVE [ConfigNext]_configVars
  OBVIOUS
<1>1. CASE UNCHANGED watchVars
  BY <1>1 DEF watchVars
<1>2. CASE Works
  BY <1>2 DEF Works, RunSkips, RunStarts, RunBegins, FilesStored, OnlyRun, ExportStarts,
              ExportGoesOn, OnlyExport, ExportEnds, RunFinishes, NoticeGoesOn, NoticeEnds,
              OnlyAlerts, Opens, Readies, Closes, TableIsRepaired, OnlyTables, Tick, ConfigNext
<1>3. CASE RunErrs
  BY <1>3 DEF RunErrs, FilesFail, OnlyRun, RunCannotBegin, RunFinishFails, ProcessDies, ConfigNext
<1>4. CASE ErrsInside
  BY <1>4 DEF ErrsInside, FilesFail, FilesIncomplete, OnlyRun, ExportErrs, OnlyExport, NoticeErrs,
              OnlyAlerts, OpenErrs, TableBreaks, OnlyTables, ConfigNext
<1>5. CASE ReportWorks \/ \E p \in Sender : ReportErrs(p)
  BY <1>5 DEF ReportWorks, ReportBegins, ReportGoesOn, ReportErrs, OnlyReports
<1> QED BY <1>1, <1>2, <1>3, <1>4, <1>5 DEF WatchNext

\* The routes of a configuration that passed validation.
LEMMA ActiveRoutes ==
    ASSUME ConfigInv, stage \in {"database", "ready"}
    PROVE  active.routes \in SUBSET Route
<1>1. config \in Candidate /\ active.routes = config.routes /\ active.channels = config.channels
  BY DEF ConfigInv, ConfigTypeOK, FromFiles
<1>2. NotificationsOK(active)
  BY DEF ConfigInv, Valid
<1>3. Events \subseteq Routable
  BY DEF Events, Routable, Event, Healthy, Problem
<1>4. ASSUME NEW r \in active.routes
      PROVE  r \in Route
  <2>1. r.events \subseteq Routable /\ r.channels \subseteq Channel
    BY <1>1, <1>2, <1>3, WatchAssumption DEF NotificationsOK
  <2> QED BY <1>1, <2>1, WatchAssumption DEF Route
<1> QED BY <1>4

\* What a run tells is a notice.
LEMMA RunTells ==
    ASSUME RunOK, run.step = "finish"
    PROVE  /\ run.reason # "gone" => RunNotice(run.event, run.reason) \in Notice
           /\ RunNotice("backup_failed", "history") \in Notice
<1>1. Busy
  BY DEF RunOK, NoRun, Starting
<1>2. run.scope \in Scope /\ run.event \in Healthy \cup Problem /\ run.reason \in Reason \cup {"gone"}
  BY <1>1 DEF Busy
<1>3. "history" \in Reason
  BY WatchAssumption
<1>4. "backup_failed" \in Problem
  BY DEF Problem
<1> QED BY <1>2, <1>3, <1>4 DEF RunNotice, Notice, Event

\* Every step is a step of the dispatcher or leaves it alone.
LEMMA WatchNotifies ==
    ASSUME WatchInv, [WatchNext]_watchVars
    PROVE  AlertsNext(clock) \/ UNCHANGED alertVars
<1> USE DEF WatchInv
<1>1. CASE UNCHANGED watchVars
  BY <1>1 DEF watchVars
<1>2. CASE Works
  <2>1. ASSUME NEW s \in Scope, RunSkips(s)
        PROVE  AlertsNext(clock)
    <3>1. [event |-> "backup_skipped", reason |-> "none", scope |-> s] \in Notice
      BY WatchAssumption DEF Notice, Event
    <3> QED BY <2>1, <3>1 DEF RunSkips, AlertsNext
  <2>2. ASSUME RunFinishes PROVE AlertsNext(clock) \/ UNCHANGED alertVars
    BY <2>2, RunTells DEF RunFinishes, AlertsNext
  <2>3. ASSUME Readies PROVE AlertsNext(clock) \/ UNCHANGED alertVars
    <3>1. active.routes \in SUBSET Route
      BY <2>3, ActiveRoutes DEF Readies, OpenReady
    <3> QED BY <2>3, <3>1 DEF Readies, AlertsNext
  <2> QED
    BY <1>2, <2>1, <2>2, <2>3
       DEF Works, RunStarts, RunBegins, FilesStored, OnlyRun, ExportStarts, ExportGoesOn,
           OnlyExport, ExportEnds, NoticeGoesOn, NoticeEnds, Opens, Closes, TableIsRepaired, OnlyTables, Tick, AlertsNext
<1>3. CASE RunErrs
  <2>1. ASSUME RunFinishFails PROVE AlertsNext(clock) \/ UNCHANGED alertVars
    BY <2>1, RunTells DEF RunFinishFails, AlertsNext
  <2> QED BY <1>3, <2>1 DEF RunErrs, FilesFail, OnlyRun, RunCannotBegin, ProcessDies, AlertsNext
<1>4. CASE ErrsInside
  BY <1>4 DEF ErrsInside, FilesFail, FilesIncomplete, OnlyRun, ExportErrs, OnlyExport, NoticeErrs,
              OpenErrs, TableBreaks, OnlyTables, AlertsNext
<1>5. CASE ReportWorks \/ \E p \in Sender : ReportErrs(p)
  BY <1>5 DEF ReportWorks, ReportBegins, ReportGoesOn, ReportErrs, OnlyReports
<1> QED BY <1>1, <1>2, <1>3, <1>4, <1>5 DEF WatchNext

-----------------------------------------------------------------------------
(* Runs, time and report commands.                                         *)

LEMMA RunStaysOK ==
    ASSUME RunOK, clock \in Nat, [WatchNext]_watchVars
    PROVE  RunOK'
<1>1. CASE UNCHANGED run
  BY <1>1 DEF RunOK, Starting, Busy
<1>2. CASE run' = NoRun \/ run' = [step |-> "notify"]
  BY <1>2 DEF RunOK
<1>3. ASSUME NEW s \in Scope, NEW force \in BOOLEAN, RunStarts(s, force)
      PROVE  RunOK'
  BY <1>3 DEF RunStarts, RunOK, Starting
<1>6. ASSUME RunBegins
      PROVE  RunOK'
  <2>1. run.scope \in Scope
    BY <1>6 DEF RunBegins, RunOK, NoRun, Starting, Busy
  <2> QED BY <1>6, <2>1, WatchAssumption DEF RunBegins, RunOK, Busy, Healthy
\* It goes on, perhaps with another outcome.
<1>4. ASSUME NEW step \in {"database", "finish"}, NEW event \in Healthy \cup Problem,
             NEW reason \in Reason \cup {"gone"}, run.step \in {"files", "database"},
             \/ run' = [run EXCEPT !.step = step]
             \/ run' = [run EXCEPT !.step = step, !.event = event]
             \/ run' = [run EXCEPT !.step = step, !.event = event, !.reason = reason]
      PROVE  RunOK'
  <2>1. PICK row : run \in [step : {"files", "database", "finish"}, scope : Scope, row : {row},
                            event : Healthy \cup Problem, reason : Reason \cup {"gone"}]
    BY <1>4 DEF RunOK, NoRun, Starting, Busy
  <2>2. run' \in [step : {"files", "database", "finish"}, scope : Scope, row : {row},
                  event : Healthy \cup Problem, reason : Reason \cup {"gone"}]
    BY <1>4, <2>1
  <2> QED BY <2>2 DEF RunOK, Busy
<1>5. ASSUME \/ FilesStored \/ ExportEnds
             \/ \E why \in {"source", "gone"} : FilesIncomplete(why)
             \/ \E event \in {"backup_failed", "backup_cancelled"} : FilesFail(event)
      PROVE  RunOK'
  <2>1. /\ {"files", "database", "source"} \subseteq Reason
        /\ {"backup_failed", "backup_cancelled", "backup_partial"} \subseteq Problem
        /\ "backup_no_change" \in Healthy
    BY WatchAssumption DEF Problem, Healthy
  <2>2. CASE FilesStored
    BY <2>1, <2>2, <1>4 DEF FilesStored
  <2>3. ASSUME NEW why \in {"source", "gone"}, FilesIncomplete(why) PROVE RunOK'
    BY <2>1, <2>3, <1>4 DEF FilesIncomplete
  <2>4. ASSUME NEW event \in {"backup_failed", "backup_cancelled"}, FilesFail(event)
        PROVE  RunOK'
    BY <2>1, <2>4, <1>4 DEF FilesFail
  <2>5. CASE ExportEnds
    <3>1. run.step = "database"
      BY <2>5 DEF ExportEnds
    <3>2. \/ run' = [run EXCEPT !.step = "finish"]
          \/ run' = [run EXCEPT !.step = "finish", !.event = "backup_no_change"]
          \/ \E event \in {"backup_failed", "backup_cancelled"} :
                run' = [run EXCEPT !.step = "finish", !.event = event, !.reason = "database"]
      BY <2>5 DEF ExportEnds
    <3> QED BY <3>1, <3>2, <2>1, <1>4
  <2> QED BY <1>5, <2>2, <2>3, <2>4, <2>5
<1> QED
  BY <1>1, <1>2, <1>3, <1>5, <1>6
     DEF WatchNext, watchVars, Works, RunErrs, ErrsInside, ReportWorks, RunSkips, FilesStored,
         ExportStarts, ExportGoesOn, OnlyExport, ExportEnds, RunFinishes, NoticeGoesOn,
         NoticeEnds, Opens, Readies, Closes, OnlyConfig, TableIsRepaired, OnlyTables, Tick,
         FilesFail, RunCannotBegin, RunFinishFails, ProcessDies, FilesIncomplete, ExportErrs,
         NoticeErrs, OpenErrs, TableBreaks, ReportBegins, ReportGoesOn, ReportErrs, OnlyReports

\* Messages are sent by the clock, which goes forward.
LEMMA ClockStaysOK ==
    ASSUME WatchInv, [WatchNext]_watchVars
    PROVE  ClockOK'
<1>1. clock \in Nat /\ clock' \in Nat /\ clock <= clock'
  <2>1. clock \in Nat
    BY DEF WatchInv, ClockOK
  <2>2. clock' = clock \/ clock' = clock + 1
    BY DEF WatchNext, watchVars, Works, RunErrs, ErrsInside, ReportWorks, RunSkips, RunStarts,
           RunBegins, FilesStored, OnlyRun, ExportStarts, ExportGoesOn, OnlyExport, ExportEnds,
           RunFinishes, NoticeGoesOn, NoticeEnds, OnlyAlerts, Opens, Readies, Closes, OnlyConfig,
           TableIsRepaired, OnlyTables, Tick, FilesFail, RunCannotBegin, RunFinishFails,
           ProcessDies, FilesIncomplete, ExportErrs, NoticeErrs, OpenErrs, TableBreaks,
           ReportBegins, ReportGoesOn, ReportErrs, OnlyReports
  <2> QED BY <2>1, <2>2
<1>2. /\ \A s \in Scope, c \in Channel : inbox[s][c].at \in Nat /\ inbox[s][c].at <= clock
      /\ DOMAIN inbox = Scope /\ \A s \in Scope : DOMAIN inbox[s] = Channel
  BY DEF WatchInv, ClockOK, Later, AlertsInv, AlertsTypeOK
<1>3. \A s \in Scope, c \in Channel :
         inbox'[s][c] = inbox[s][c] \/ inbox'[s][c].at = clock
  <2>1. CASE \E c \in Channel : Send(c, clock)
    <3>1. PICK c \in Channel :
            inbox' = [inbox EXCEPT ![notice.scope][c] = News(clock)]
      BY <2>1 DEF Send
    <3>2. News(clock).at = clock
      BY DEF News
    <3> QED BY <3>1, <3>2, <1>2
  <2>2. CASE ~\E c \in Channel : Send(c, clock)
    <3>1. AlertsNext(clock) \/ UNCHANGED alertVars
      BY WatchNotifies
    <3>2. inbox' = inbox
      BY <2>2, <3>1 DEF AlertsNext, AlertSteps, AlertFaults, ConfigureRoutes, NotifyBegin,
                        SendWebhook, Suppress, Save, LoadFails, SendFails, SaveFails, NotifyEnd,
                        NotifyCrash, alertVars
    <3> QED BY <3>2
  <2> QED BY <2>1, <2>2
<1> QED
  <2>1. ASSUME NEW s \in Scope, NEW c \in Channel
        PROVE  inbox'[s][c].at <= clock'
    BY <1>1, <1>2, <1>3
  <2> QED BY <1>1, <2>1 DEF ClockOK, Later

\* Where a report goes does not change while it is sent.
LEMMA RouteStays ==
    ASSUME [WatchNext]_watchVars
    PROVE  ReportRoute' = ReportRoute \/ (NoReportIsSent /\ UNCHANGED job)
<1>1. CASE UNCHANGED watchVars
  BY <1>1 DEF watchVars, alertVars, configVars, ReportRoute
<1>2. CASE ReportWorks \/ \E p \in Sender : ReportErrs(p)
  <2>1. UNCHANGED <<routes, config>>
    BY <1>2 DEF ReportWorks, ReportBegins, ReportGoesOn, ReportErrs, OnlyReports, alertVars, configVars
  <2> QED BY <2>1 DEF ReportRoute
<1>3. CASE NoReportIsSent /\ (Works \/ RunErrs \/ ErrsInside)
  BY <1>3 DEF Works, RunErrs, ErrsInside, RunSkips, RunStarts, RunBegins, FilesStored, OnlyRun,
              ExportStarts, ExportGoesOn, OnlyExport, ExportEnds, RunFinishes, NoticeGoesOn,
              NoticeEnds, OnlyAlerts, Opens, Readies, Closes, OnlyConfig, TableIsRepaired,
              OnlyTables, Tick, FilesFail, RunCannotBegin, RunFinishFails, ProcessDies,
              FilesIncomplete, ExportErrs, NoticeErrs, OpenErrs, TableBreaks, reportVars
<1> QED BY <1>1, <1>2, <1>3 DEF WatchNext

\* Other commands' jobs stay what they are.
LEMMA OtherJobs ==
    ASSUME JobsOK, ReportRoute' = ReportRoute, NEW p \in Sender, NEW new,
           job' = [job EXCEPT ![p] = new], JobOK(p)'
    PROVE  JobsOK'
<1>1. ASSUME NEW q \in Sender, q # p
      PROVE  JobOK(q)'
  <2>1. job'[q] = job[q] /\ JobOK(q)
    BY <1>1 DEF JobsOK
  <2> QED BY <2>1 DEF JobOK
<1> QED BY <1>1 DEF JobsOK

\* A command's channels are the route's, and each is asked.
LEMMA ReportStepOK ==
    ASSUME WatchInv, ReportRoute' = ReportRoute, NEW p \in Sender,
           ReportGoesOn(p) \/ ReportErrs(p)
    PROVE  JobsOK'
<1>1. JobsOK /\ JobOK(p) /\ p \in DOMAIN job
  BY DEF WatchInv, JobsOK
<1>2. \A k \in Kind : ReportRoute[k] \subseteq Channel
  BY DEF WatchInv, AlertsInv, AlertsTypeOK, ReportRoute
<1>3. NoJob.step = "none"
  BY DEF NoJob
<1>4. ASSUME job' = [job EXCEPT ![p] = NoJob]
      PROVE  JobsOK'
  BY <1>1, <1>4, OtherJobs DEF JobOK
<1>5. ASSUME job[p] # NoJob, ReportCheck(p, ReportRoute[job[p].report.kind])
      PROVE  JobsOK'
  <2>1. CASE job' = [job EXCEPT ![p] = NoJob]
    BY <2>1, <1>4
  <2>2. CASE job' = [job EXCEPT ![p] = [@ EXCEPT !.step = "send",
                                                 !.todo = ReportRoute[job[p].report.kind]]]
    <3> DEFINE new == [job[p] EXCEPT !.step = "send", !.todo = ReportRoute[job[p].report.kind]]
    <3>1. PICK report :
            /\ report.kind \in Kind
            /\ job[p] \in [step : {"check", "send"}, failed : BOOLEAN, todo : SUBSET Channel,
                           got : SUBSET Channel, report : {report}]
      BY <1>1, <1>5 DEF JobOK
    <3>2. /\ new \in [step : {"check", "send"}, failed : BOOLEAN, todo : SUBSET Channel,
                       got : SUBSET Channel, report : {report}]
          /\ new.todo = ReportRoute[report.kind]
      BY <3>1, <1>2
    <3>3. job' = [job EXCEPT ![p] = new] /\ job'[p] = new
      BY <2>2, <1>1
    <3>4. JobOK(p)'
      BY <3>1, <3>2, <3>3 DEF JobOK
    <3> QED BY <1>1, <3>3, <3>4, OtherJobs
  <2> QED BY <1>5, <2>1, <2>2 DEF ReportCheck
<1>6. ASSUME NEW c \in Channel, ReportSend(p, c) \/ ReportSendFails(p, c)
      PROVE  JobsOK'
  <2>1. PICK report :
          /\ report.kind \in Kind
          /\ job[p] \in [step : {"check", "send"}, failed : BOOLEAN, todo : SUBSET Channel,
                         got : SUBSET Channel, report : {report}]
          /\ job[p].step = "send" /\ ~job[p].failed =>
                ReportRoute[report.kind] \subseteq job[p].todo \cup job[p].got
    BY <1>1, <1>3, <1>6 DEF JobOK, ReportSend, ReportSendFails
  <2>2. PICK new :
          /\ job' = [job EXCEPT ![p] = new]
          /\ \/ new = [job[p] EXCEPT !.todo = @ \ {c}, !.got = @ \cup {c}]
             \/ new = [job[p] EXCEPT !.todo = @ \ {c}, !.failed = TRUE]
    BY <1>1, <1>6 DEF ReportSend, ReportSendFails
  <2>3. job[p].step = "send"
    BY <1>6 DEF ReportSend, ReportSendFails
  <2>4. /\ new \in [step : {"check", "send"}, failed : BOOLEAN, todo : SUBSET Channel,
                     got : SUBSET Channel, report : {report}]
        /\ ~new.failed => ReportRoute[report.kind] \subseteq new.todo \cup new.got
    <3>1. CASE new = [job[p] EXCEPT !.todo = @ \ {c}, !.got = @ \cup {c}]
      <4>1. /\ new.todo = job[p].todo \ {c} /\ new.got = job[p].got \cup {c}
            /\ new.failed = job[p].failed
        BY <2>1, <3>1
      <4>2. new \in [step : {"check", "send"}, failed : BOOLEAN, todo : SUBSET Channel,
                     got : SUBSET Channel, report : {report}]
        BY <2>1, <3>1
      <4> QED BY <2>1, <2>3, <4>1, <4>2
    <3>2. CASE new = [job[p] EXCEPT !.todo = @ \ {c}, !.failed = TRUE]
      <4>1. new.failed = TRUE
        BY <2>1, <3>2
      <4>2. new \in [step : {"check", "send"}, failed : BOOLEAN, todo : SUBSET Channel,
                     got : SUBSET Channel, report : {report}]
        BY <2>1, <3>2
      <4> QED BY <4>1, <4>2
    <3> QED BY <2>2, <3>1, <3>2
  <2>5. JobOK(p)'
    BY <1>1, <2>1, <2>2, <2>4 DEF JobOK
  <2> QED BY <1>1, <2>2, <2>5, OtherJobs
<1> QED
  BY <1>4, <1>5, <1>6
     DEF ReportGoesOn, ReportErrs, ReportRecord, ReportDies

LEMMA ReportBeginsOK ==
    ASSUME WatchInv, ReportRoute' = ReportRoute, NEW p \in Sender, NEW k \in Kind, NEW t,
           ReportBegins(p, k, t)
    PROVE  JobsOK'
<1> DEFINE report == IF k = "daily" THEN DailyReport(t, clock, Unwritten)
                     ELSE MonthlyReport(t, clock, Unwritten)
           new == [step |-> "check", failed |-> FALSE, todo |-> {}, got |-> {}, report |-> report]
<1>1. report.kind \in Kind
  BY DEF DailyReport, MonthlyReport, Kind
<1>2. job' = [job EXCEPT ![p] = new] /\ JobsOK /\ p \in DOMAIN job
  BY DEF ReportBegins, ReportBuild, WatchInv, JobsOK
<1>3. JobOK(p)'
  <2> HIDE DEF report
  <2>1. job'[p] = new
    BY <1>2
  <2> QED BY <1>1, <2>1 DEF JobOK
<1> HIDE DEF new
<1> QED BY <1>2, <1>3, OtherJobs

LEMMA JobsStayOK ==
    ASSUME WatchInv, [WatchNext]_watchVars
    PROVE  JobsOK'
<1>1. JobsOK
  BY DEF WatchInv
<1>2. CASE NoReportIsSent /\ UNCHANGED job
  BY <1>1, <1>2 DEF JobsOK, JobOK, NoReportIsSent
<1>3. CASE ReportRoute' = ReportRoute
  <2>1. CASE UNCHANGED job
    BY <1>1, <1>3, <2>1 DEF JobsOK, JobOK
  <2>2. CASE ~UNCHANGED job
    <3>1. \/ \E p \in Sender, k \in Kind, t \in Asked : ReportBegins(p, k, t)
          \/ \E p \in Sender : ReportGoesOn(p) \/ ReportErrs(p)
      BY <2>2 DEF WatchNext, watchVars, reportVars, Works, RunErrs, ErrsInside, ReportWorks,
              RunSkips, RunStarts, RunBegins, FilesStored, OnlyRun,
              ExportStarts, ExportGoesOn, OnlyExport, ExportEnds, RunFinishes, NoticeGoesOn,
              NoticeEnds, OnlyAlerts, Opens, Readies, Closes, OnlyConfig, TableIsRepaired,
              OnlyTables, Tick, FilesFail, RunCannotBegin, RunFinishFails, ProcessDies,
              FilesIncomplete, ExportErrs, NoticeErrs, OpenErrs, TableBreaks
    <3> QED BY <1>3, <3>1, ReportStepOK, ReportBeginsOK
  <2> QED BY <2>1, <2>2
<1> QED BY <1>2, <1>3, RouteStays

-----------------------------------------------------------------------------
(* The whole.                                                              *)

LEMMA WatchInitInv == WatchInit => WatchInv
<1> SUFFICES ASSUME WatchInit PROVE WatchInv
  OBVIOUS
<1>1. AlertsInv /\ ConfigInv
  BY AlertsInitInv, ConfigInitInv DEF WatchInit
<1>2. RunOK
  BY DEF WatchInit, RunOK
<1>3. ClockOK
  BY DEF WatchInit, AlertsInit, ClockOK, Later
<1>4. JobsOK
  BY DEF WatchInit, ReportsInit, JobsOK, JobOK
<1> QED BY <1>1, <1>2, <1>3, <1>4 DEF WatchInv

LEMMA WatchStepInv == WatchInv /\ [WatchNext]_watchVars => WatchInv'
<1> SUFFICES ASSUME WatchInv, [WatchNext]_watchVars PROVE WatchInv'
  OBVIOUS
<1>1. AlertsInv'
  <2>1. AlertsInv /\ clock \in Nat /\ Later(clock)
    BY DEF WatchInv, ClockOK
  <2> QED BY <2>1, WatchNotifies, AlertsStepInv, AlertsStutterInv
<1>2. ConfigInv'
  BY WatchConfigures, ConfigStepInv DEF WatchInv
<1>3. RunOK'
  BY RunStaysOK DEF WatchInv, ClockOK
<1> QED BY <1>1, <1>2, <1>3, ClockStaysOK, JobsStayOK DEF WatchInv

\* The inductive invariant of a site over its days.
THEOREM WatchInvariance == WatchSpec => []WatchInv
BY WatchInitInv, WatchStepInv, PTL DEF WatchSpec

\* The composition implements each of its parts' own specification: none of them
\* is made to do by the others what it does not do alone.
THEOREM WatchImplementsParts == WatchSpec => ExportSpec /\ AlertsSpec /\ ConfigSpec
<1>1. WatchInit => ExportInit /\ AlertsInit /\ ConfigInit
  BY DEF WatchInit
<1>2. WatchInv /\ [WatchNext]_watchVars => [\E now \in Nat : Later(now) /\ AlertsNext(now)]_alertVars
  BY WatchNotifies DEF WatchInv, ClockOK
<1>3. WatchSpec => ExportSpec
  BY <1>1, WatchExports, PTL DEF WatchSpec, ExportSpec
<1>4. WatchSpec => ConfigSpec
  BY <1>1, WatchConfigures, PTL DEF WatchSpec, ConfigSpec
<1>5. WatchSpec => AlertsSpec
  BY <1>1, <1>2, WatchInvariance, PTL DEF WatchSpec, AlertsSpec
<1> QED BY <1>3, <1>4, <1>5

\* So what is proved of the parts holds of the site: of its packages and repairs,
\* of what its channels know, and of the application that is ready (runner.go, run;
\* app.go, Open).
THEOREM SiteKeepsPromises ==
    WatchSpec => [](PackagesAreWhole /\ RepairsAreJustified /\ ChannelsKnow /\ OpenedIsUsable)
BY WatchImplementsParts, PackagesStayWhole, RepairsStayJustified, ChannelsStayInformed,
   ReadyIsUsable, PTL

\* No step of the whole tells a channel what is no news to it (dispatch.go, Notify).
THEOREM SiteNagsNobody == WatchSpec => NobodyIsNagged
<1>1. [NoNoise]_alertVars => [NoNoise]_watchVars
  BY DEF NoNoise, alertVars, watchVars
<1> QED BY <1>1, WatchImplementsParts, NobodyIsNaggedEver, PTL DEF NobodyIsNagged

\* A period is recorded only by a command whose report every channel of its route
\* accepted (report/dispatch.go, send).
THEOREM SiteRecordsDelivery == WatchSpec => ReportsAreDelivered
<1>1. WatchInv /\ [WatchNext]_watchVars => [RecordsDelivery(ReportRoute)]_watchVars
  <2> SUFFICES ASSUME WatchInv, WatchNext, NEW r \in recorded' \ recorded
               PROVE  \E p \in Sender : /\ job[p] # NoJob /\ Period(p) = r
                                         /\ ReportRoute[r[1]] \subseteq job[p].got
    BY DEF RecordsDelivery
  <2>1. recorded' # recorded
    OBVIOUS
  <2>2. PICK p \in Sender : ReportRecord(p)
    BY <2>1 DEF WatchNext, Works, RunErrs, ErrsInside, ReportWorks, RunSkips, RunStarts,
              RunBegins, FilesStored, OnlyRun, ExportStarts, ExportGoesOn, OnlyExport, ExportEnds,
              RunFinishes, NoticeGoesOn, NoticeEnds, OnlyAlerts, Opens, Readies, Closes,
              OnlyConfig, TableIsRepaired, OnlyTables, Tick, FilesFail, RunCannotBegin,
              RunFinishFails, ProcessDies, FilesIncomplete, ExportErrs, NoticeErrs, OpenErrs,
              TableBreaks, reportVars, ReportBegins, ReportBuild, ReportGoesOn, ReportCheck,
              ReportSend, ReportErrs, ReportSendFails, ReportDies
  <2>3. job[p].step = "send" /\ job[p].todo = {} /\ ~job[p].failed /\ r = Period(p)
    BY <2>2 DEF ReportRecord
  <2>4. job[p] # NoJob
    BY <2>3 DEF NoJob
  <2>5. ReportRoute[job[p].report.kind] \subseteq job[p].got
    BY <2>3, <2>4 DEF WatchInv, JobsOK, JobOK
  <2> QED BY <2>3, <2>4, <2>5 DEF Period
<1> QED BY <1>1, WatchInvariance, PTL DEF WatchSpec, ReportsAreDelivered

-----------------------------------------------------------------------------
(***************************************************************************)
(* Reports.  Whatever runs, commands and faults do beside it, a report is  *)
(* the tally of the rows of its own period, its days add up, and it stays  *)
(* true while history goes on.                                             *)
(***************************************************************************)

\* Calendar arithmetic.
LEMMA DivBounds ==
    ASSUME NEW x \in Int, NEW n \in Nat \ {0}
    PROVE  /\ x \div n \in Int
           /\ (x \div n) * n <= x /\ x < (x \div n) * n + n
OBVIOUS

LEMMA Multiples ==
    ASSUME NEW a \in Int, NEW b \in Int, NEW n \in Nat \ {0}, a < b
    PROVE  a * n + n <= b * n
<1>1. b - a >= 1
  OBVIOUS
<1>2. (b - a) * n >= n
  BY <1>1
<1>3. (b - a) * n = b * n - a * n
  OBVIOUS
<1> QED BY <1>2, <1>3

LEMMA DivAtLeast ==
    ASSUME NEW x \in Int, NEW n \in Nat \ {0}, NEW q \in Int
    PROVE  q * n <= x <=> q <= x \div n
<1> DEFINE d == x \div n
<1>1. d \in Int /\ d * n <= x /\ x < d * n + n
  BY DivBounds
<1> HIDE DEF d
<1>2. q * n \in Int /\ d * n \in Int
  BY <1>1
<1>3. ASSUME d < q PROVE ~(q * n <= x)
  BY <1>1, <1>2, <1>3, Multiples
<1>4. ASSUME q <= d PROVE q * n <= x
  <2>1. CASE q = d
    BY <1>1, <2>1
  <2>2. CASE q < d
    BY <1>1, <1>2, <2>2, Multiples
  <2> QED BY <1>1, <1>4, <2>1, <2>2
<1>5. q * n <= x <=> q <= d
  BY <1>1, <1>3, <1>4
<1> QED BY <1>5 DEF d

\* A day is the instants from its start to the next one's, a month likewise.
LEMMA DayOfInstant ==
    ASSUME NEW at \in Int, NEW d \in Int
    PROVE  /\ Day(at) \in Int
           /\ DayStart(d) <= at <=> d <= Day(at)
           /\ DayStart(d) + DayLength = DayStart(d + 1)
           /\ DayStart(d) \in Int
<1>1. at + Offset \in Int /\ DayLength \in Nat \ {0} /\ Offset \in Int
  BY ReportsAssumption
<1>2. Day(at) \in Int
  BY <1>1, DivBounds DEF Day
<1>3. d * DayLength <= at + Offset <=> d <= Day(at)
  BY <1>1, DivAtLeast DEF Day
<1>4. d * DayLength \in Int /\ (d + 1) * DayLength = d * DayLength + DayLength
  BY <1>1
<1> QED BY <1>1, <1>2, <1>3, <1>4 DEF DayStart

LEMMA MonthOfInstant ==
    ASSUME NEW at \in Int, NEW m \in Int
    PROVE  /\ Month(at) \in Int
           /\ MonthStart(m) <= at <=> m <= Month(at)
           /\ MonthStart(m) <= at <=> m * MonthLength <= Day(at)
<1>1. MonthLength \in Nat \ {0} /\ Day(at) \in Int
  BY ReportsAssumption, DayOfInstant
<1>2. m * MonthLength \in Int
  BY <1>1
<1>3. MonthStart(m) <= at <=> m * MonthLength <= Day(at)
  BY <1>2, DayOfInstant DEF MonthStart
<1>4. m * MonthLength <= Day(at) <=> m <= Month(at)
  BY <1>1, DivAtLeast DEF Month
<1>5. Month(at) \in Int
  BY <1>1, DivBounds DEF Month
<1> QED BY <1>3, <1>4, <1>5

\* Sums over finite sets, by the least size where they would differ.
LEMMA LeastNatural ==
    ASSUME NEW T \in SUBSET Nat, T # {}
    PROVE  \E m \in T : \A k \in T : m <= k
<1> DEFINE R == OpToRel(<, Nat)
<1>1. IsWellFoundedOn(R, Nat)
  BY NatLessThanWellFounded
<1>2. \A x, y \in Nat : <<y, x>> \in R <=> y < x
  BY DEF OpToRel
<1> HIDE DEF R
<1>3. PICK m \in T : \A y \in T : ~(<<y, m>> \in R)
  BY <1>1, WFMin
<1>4. m \in Nat /\ \A k \in T : k \in Nat /\ ~(k < m)
  BY <1>2, <1>3
<1>5. \A k \in T : m <= k
  BY <1>4
<1> QED BY <1>5

\* MapThenSumSet, of the sizes of disjoint sets, is the size of their union: a
\* month adds up when its days' runs are disjoint and are all of its runs.
LEMMA PartsAddUp ==
    ASSUME NEW r, NEW U, IsFiniteSet(U), NEW D, D = DOMAIN r.days, IsFiniteSet(D),
           NEW part \in [D -> SUBSET U],
           \A a, b \in D : a # b => part[a] \cap part[b] = {},
           NEW days, days = r.days,
           \A d \in D : days[d].total = Cardinality(part[d]),
           r.overall.total = Cardinality(UNION {part[d] : d \in D})
    PROVE  AddsUp(r)
<1> DEFINE All(s) == UNION {part[d] : d \in s}
           Recursion(g, s) ==
               IF s = {} THEN 0
               ELSE LET x == CHOOSE y \in s : TRUE IN days[x].total + g[s \ {x}]
           Solves(g) == g = [s \in SUBSET D |-> Recursion(g, s)]
           size == [s \in SUBSET D |-> Cardinality(All(s))]
           iter == CHOOSE g : Solves(g)
<1>0. \A s \in SUBSET D : /\ IsFiniteSet(s) /\ IsFiniteSet(All(s))
                          /\ Cardinality(s) \in Nat /\ Cardinality(All(s)) \in Nat
  <2>1. \A s \in SUBSET D : All(s) \in SUBSET U
    OBVIOUS
  <2> QED BY <2>1, FS_Subset, FS_CardinalityType
<1>1. ASSUME NEW s \in SUBSET D, NEW x \in s
      PROVE  Cardinality(All(s)) = days[x].total + Cardinality(All(s \ {x}))
  <2>1. All(s) = part[x] \cup All(s \ {x})
    OBVIOUS
  <2>2. part[x] \cap All(s \ {x}) = {}
    OBVIOUS
  <2>3. IsFiniteSet(part[x]) /\ IsFiniteSet(All(s \ {x}))
    BY <1>0, FS_Subset
  <2>4. /\ Cardinality(part[x]) \in Nat /\ Cardinality(All(s \ {x})) \in Nat
        /\ Cardinality({}) = 0 /\ days[x].total = Cardinality(part[x])
    BY <2>3, FS_CardinalityType, FS_EmptySet
  <2>5. Cardinality(part[x] \cup All(s \ {x}))
          = Cardinality(part[x]) + Cardinality(All(s \ {x}))
            - Cardinality(part[x] \cap All(s \ {x}))
    BY <2>3, FS_Union
  <2>6. Cardinality(part[x] \cap All(s \ {x})) = 0
    BY <2>2, <2>4
  <2> DEFINE a == Cardinality(part[x])
             b == Cardinality(All(s \ {x}))
             c == Cardinality(part[x] \cap All(s \ {x}))
             u == Cardinality(part[x] \cup All(s \ {x}))
  <2>7. a \in Nat /\ b \in Nat /\ c = 0 /\ u = a + b - c /\ days[x].total = a
    BY <2>4, <2>5, <2>6
  <2>8. Cardinality(All(s)) = u
    BY <2>1
  <2> HIDE DEF All, a, b, c, u
  <2>9. u = days[x].total + b
    BY <2>7
  <2> QED BY <2>8, <2>9 DEF b
<1>2. Solves(size)
  <2>1. ASSUME NEW s \in SUBSET D
        PROVE  size[s] = Recursion(size, s)
    <3>1. CASE s = {}
      <4>1. All(s) = {} /\ Recursion(size, s) = 0
        BY <3>1
      <4>2. size[s] = Cardinality(All(s))
        OBVIOUS
      <4> HIDE DEF All, size, Recursion
      <4> QED BY <4>1, <4>2, FS_EmptySet
    <3>2. CASE s # {}
      <4> DEFINE x == CHOOSE y \in s : TRUE
      <4>1. x \in s
        BY <3>2
      <4> HIDE DEF x
      <4>2. size[s \ {x}] = Cardinality(All(s \ {x}))
        OBVIOUS
      <4>3. size[s] = days[x].total + size[s \ {x}]
        BY <1>1, <4>1, <4>2
      <4> HIDE DEF size
      <4> QED BY <3>2, <4>3 DEF x
    <3> QED BY <3>1, <3>2
  <2> QED BY <2>1
<1>3. Solves(iter)
  <2> HIDE DEF Solves
  <2> QED BY <1>2
<1>4. \A s \in SUBSET D : iter[s] = Recursion(iter, s)
  <2> HIDE DEF iter, Recursion
  <2> QED BY <1>3
<1> HIDE DEF iter
<1>5. \A s \in SUBSET D : iter[s] = Cardinality(All(s))
  <2> DEFINE odd == {s \in SUBSET D : iter[s] # Cardinality(All(s))}
             sizes == {Cardinality(s) : s \in odd}
  <2> SUFFICES ASSUME odd # {}
               PROVE  FALSE
    OBVIOUS
  <2>0. \A s \in odd : s \in SUBSET D /\ Cardinality(s) \in Nat
    BY <1>0
  <2>1. sizes \in SUBSET Nat /\ sizes # {}
    <3> HIDE DEF odd
    <3> QED BY <2>0
  <2>2. PICK s \in odd : \A z \in odd : Cardinality(s) <= Cardinality(z)
    <3>1. PICK k \in sizes : \A l \in sizes : k <= l
      <4> HIDE DEF sizes
      <4> QED BY <2>1, LeastNatural
    <3>2. PICK s \in odd : Cardinality(s) = k
      <4> HIDE DEF odd
      <4> QED OBVIOUS
    <3>3. \A z \in odd : Cardinality(z) \in sizes
      <4> HIDE DEF odd
      <4> QED OBVIOUS
    <3> HIDE DEF odd, sizes
    <3> QED BY <3>1, <3>2, <3>3
  <2>3. CASE s = {}
    <3>1. iter[s] = 0
      BY <1>4, <2>3
    <3>2. Cardinality(All(s)) = 0
      BY <2>3, FS_EmptySet
    <3> QED BY <2>2, <3>1, <3>2
  <2>4. CASE s # {}
    <3> DEFINE x == CHOOSE y \in s : TRUE
    <3>1. x \in s
      BY <2>4
    <3>2. iter[s] = days[x].total + iter[s \ {x}]
      BY <1>4, <2>4
    <3> HIDE DEF x
    <3>3. s \ {x} \in SUBSET D /\ Cardinality(s \ {x}) < Cardinality(s)
      <4>1. s \in SUBSET D /\ Cardinality(s) \in Nat
        BY <2>0
      <4>2. IsFiniteSet(s)
        BY <1>0, <4>1
      <4>3. Cardinality(s \ {x}) = Cardinality(s) - 1
        <5> HIDE DEF odd, All
        <5> QED BY <3>1, <4>2, FS_RemoveElement
      <4> HIDE DEF odd, All
      <4> QED BY <4>1, <4>3
    <3>4. s \ {x} \notin odd
      <4>1. Cardinality(s \ {x}) \in Nat /\ Cardinality(s) \in Nat
        BY <1>0, <3>3
      <4> HIDE DEF odd
      <4> QED BY <2>2, <3>3, <4>1
    <3>5. iter[s \ {x}] = Cardinality(All(s \ {x}))
      BY <3>3, <3>4
    <3>6. Cardinality(All(s)) = days[x].total + Cardinality(All(s \ {x}))
      BY <1>1, <3>1
    <3> QED BY <2>2, <3>2, <3>5, <3>6
  <2> QED BY <2>3, <2>4
<1>6. MapThenSumSet(LAMBDA d : r.days[d].total, DOMAIN r.days) = iter[D]
  BY DEF MapThenSumSet, MapThenFoldSet, iter
<1>7. iter[D] = Cardinality(All(D))
  BY <1>5
<1> QED BY <1>6, <1>7 DEF AddsUp


-----------------------------------------------------------------------------
(* History.                                                                *)

Row == [at : Nat, scope : Scope, status : Outcome \cup {"running"}]

\* A run that is not over has its row, which has no outcome yet.
RowsOK ==
    /\ rows \in Seq(Row)
    /\ \A i \in DOMAIN rows : rows[i].at <= clock
    /\ run.step \in {"files", "database", "finish"} =>
         run.row \in DOMAIN rows /\ rows[run.row].status = "running"
    /\ run.step = "begin" => run.at \in Nat /\ run.at <= clock

\* A row is added by a run that had read the clock; it gets one outcome, once.
HistoryGoesOn ==
    /\ DOMAIN rows \subseteq DOMAIN rows'
    /\ \A i \in DOMAIN rows :
         /\ rows'[i].at = rows[i].at
         /\ rows[i].status # "running" => rows'[i].status = rows[i].status
    /\ \A i \in DOMAIN rows' \ DOMAIN rows :
         /\ i = Len(rows) + 1 /\ rows'[i].at = run.at
         /\ run.step = "begin" /\ run'.step # "begin"

\* What a step that leaves the rows alone does to the run: it keeps its row.
RowIsKept ==
    run'.step \in {"files", "database", "finish"} =>
        run.step \in {"files", "database", "finish"} /\ run'.row = run.row

\* And it keeps the time the run has read, which is now if it reads it.
TimeIsKept ==
    run'.step = "begin" => (run.step = "begin" /\ run'.at = run.at) \/ run'.at = clock

LEMMA RunKeepsRow ==
    ASSUME RunOK, [WatchNext]_watchVars, ~RunFinishes, ~RunBegins
    PROVE  RowIsKept /\ TimeIsKept /\ UNCHANGED rows
<1>1. CASE UNCHANGED <<run, rows>>
  BY <1>1 DEF RowIsKept, TimeIsKept
<1>4. ASSUME NEW s \in Scope, NEW force \in BOOLEAN, RunStarts(s, force)
      PROVE  RowIsKept /\ TimeIsKept /\ UNCHANGED rows
  <2>1. run'.step = "begin" /\ run'.at = clock
    BY <1>4 DEF RunStarts
  <2>2. UNCHANGED rows
    BY <1>4 DEF RunStarts, OnlyRun, reportVars
  <2> QED BY <2>1, <2>2 DEF RowIsKept, TimeIsKept
<1>2. CASE (run' = NoRun \/ run' = [step |-> "notify"]) /\ UNCHANGED rows
  <2>1. run'.step \in {"none", "notify"}
    BY <1>2 DEF NoRun
  <2> QED BY <1>2, <2>1 DEF RowIsKept, TimeIsKept
<1>3. CASE \/ FilesStored \/ ExportEnds
           \/ \E why \in {"source", "gone"} : FilesIncomplete(why)
           \/ \E event \in {"backup_failed", "backup_cancelled"} : FilesFail(event)
  <2>1. UNCHANGED rows
    BY <1>3 DEF FilesStored, ExportEnds, FilesIncomplete, FilesFail, OnlyRun, reportVars
  <2>2. run.step \in {"files", "database"}
    BY <1>3 DEF FilesStored, ExportEnds, FilesIncomplete, FilesFail
  <2>3. PICK row : run \in [step : {"files", "database", "finish"}, scope : Scope, row : {row},
                            event : Healthy \cup Problem, reason : Reason \cup {"gone"}]
    BY <2>2 DEF RunOK, NoRun, Starting, Busy
  <2>4. run'.row = run.row /\ run'.step \in {"files", "database", "finish"}
    <3>1. FilesStored => run'.row = run.row /\ run'.step \in {"database", "finish"}
      BY <2>3 DEF FilesStored
    <3>2. ASSUME NEW why, FilesIncomplete(why)
          PROVE  run'.row = run.row /\ run'.step \in {"database", "finish"}
      BY <2>3, <3>2 DEF FilesIncomplete
    <3>3. ASSUME NEW event, FilesFail(event)
          PROVE  run'.row = run.row /\ run'.step \in {"database", "finish"}
      BY <2>3, <3>3 DEF FilesFail
    <3>4. ExportEnds => run'.row = run.row /\ run'.step \in {"database", "finish"}
      BY <2>3 DEF ExportEnds
    <3> QED BY <1>3, <3>1, <3>2, <3>3, <3>4
  <2>5. RowIsKept
    BY <2>2, <2>4 DEF RowIsKept
  <2>6. TimeIsKept
    BY <2>4 DEF TimeIsKept
  <2> QED BY <2>1, <2>5, <2>6
<1> QED
  BY <1>1, <1>2, <1>3, <1>4
     DEF WatchNext, watchVars, reportVars, Works, RunErrs, ErrsInside, ReportWorks, RunSkips,
         ExportStarts, ExportGoesOn, OnlyExport, NoticeGoesOn, NoticeEnds, OnlyAlerts,
         Opens, Readies, Closes, OnlyConfig, TableIsRepaired, OnlyTables, Tick,
         RunCannotBegin, OnlyRun, RunFinishFails, ProcessDies, ExportErrs, NoticeErrs,
         OpenErrs, TableBreaks, ReportBegins, ReportGoesOn, ReportErrs, OnlyReports,
         ReportBuild, ReportCheck, ReportSend, ReportSendFails, ReportRecord, ReportDies

LEMMA ClockSteps ==
    ASSUME WatchInv, [WatchNext]_watchVars
    PROVE  /\ clock \in Nat /\ clock' \in Nat /\ clock <= clock'
           /\ clock' # clock => UNCHANGED <<rows, job, mailbox>>
<1>1. clock \in Nat
  BY DEF WatchInv, ClockOK
<1>2. clock' = clock \/ Tick
  BY DEF WatchNext, watchVars, Works, RunErrs, ErrsInside, ReportWorks, RunSkips, RunStarts,
         RunBegins, FilesStored, OnlyRun, ExportStarts, ExportGoesOn, OnlyExport, ExportEnds,
         RunFinishes, NoticeGoesOn, NoticeEnds, OnlyAlerts, Opens, Readies, Closes, OnlyConfig,
         TableIsRepaired, OnlyTables, FilesFail, RunCannotBegin, RunFinishFails, ProcessDies,
         FilesIncomplete, ExportErrs, NoticeErrs, OpenErrs, TableBreaks, ReportBegins,
         ReportGoesOn, ReportErrs, OnlyReports
<1> QED BY <1>1, <1>2 DEF Tick, reportVars

LEMMA RowsStep ==
    ASSUME WatchInv, RowsOK, [WatchNext]_watchVars
    PROVE  RowsOK' /\ HistoryGoesOn /\ TimeIsKept /\ IsFiniteSet(DOMAIN rows')
<1>1. /\ clock \in Nat /\ clock' \in Nat /\ clock <= clock'
      /\ clock' # clock => UNCHANGED <<rows, job, mailbox>>
  BY ClockSteps
<1>2. rows \in Seq(Row) /\ DOMAIN rows = 1 .. Len(rows) /\ Len(rows) \in Nat
  BY DEF RowsOK
<1>3. \A i \in DOMAIN rows : rows[i] \in Row /\ rows[i].at \in Nat /\ rows[i].at <= clock
  <2>1. \A i \in DOMAIN rows : rows[i] \in Row
    BY <1>2
  <2> QED BY <2>1 DEF Row, RowsOK
<1>4. ASSUME RunBegins
      PROVE  RowsOK' /\ HistoryGoesOn /\ TimeIsKept
  <2> DEFINE new == [at |-> run.at, scope |-> run.scope, status |-> "running"]
  <2>1. rows' = Append(rows, new) /\ clock' = clock
    BY <1>4 DEF RunBegins, CreateRun
  <2>0. run.step = "begin" /\ run.at \in Nat /\ run.at <= clock /\ run.scope \in Scope
    BY <1>4 DEF RunBegins, RowsOK, WatchInv, RunOK, NoRun, Starting, Busy
  <2>2. new \in Row /\ new.at = run.at /\ new.status = "running"
    BY <2>0 DEF Row
  <2> HIDE DEF new
  <2>3. /\ rows' \in Seq(Row) /\ DOMAIN rows' = 1 .. Len(rows) + 1
        /\ \A i \in 1 .. Len(rows) : rows'[i] = rows[i]
        /\ rows'[Len(rows) + 1] = new
    BY <1>2, <2>1, <2>2, AppendProperties
  <2>4. \A i \in DOMAIN rows' : rows'[i].at <= clock'
    BY <1>1, <1>2, <1>3, <2>0, <2>1, <2>2, <2>3
  <2>5. run'.row \in DOMAIN rows' /\ rows'[run'.row].status = "running"
    <3>1. run'.row = Len(rows) + 1
      BY <1>4 DEF RunBegins
    <3> QED BY <1>2, <2>2, <2>3, <3>1
  <2>7. run'.step # "begin"
    BY <1>4 DEF RunBegins
  <2>6. HistoryGoesOn
    <3>1. \A i \in DOMAIN rows' \ DOMAIN rows : i = Len(rows) + 1
      BY <1>2, <2>3
    <3>2. DOMAIN rows \subseteq DOMAIN rows'
      BY <1>2, <2>3
    <3>3. \A i \in DOMAIN rows : rows'[i] = rows[i]
      BY <1>2, <2>3
    <3> QED BY <2>0, <2>2, <2>3, <2>7, <3>1, <3>2, <3>3 DEF HistoryGoesOn
  <2> QED BY <2>3, <2>4, <2>5, <2>6, <2>7 DEF RowsOK, TimeIsKept
<1>5. ASSUME RunFinishes
      PROVE  RowsOK' /\ HistoryGoesOn /\ TimeIsKept
  <2> DEFINE i == run.row
             o == StatusOf(run.event)
             new == [rows[i] EXCEPT !.status = o]
  <2>1. i \in DOMAIN rows /\ rows[i].status = "running"
    BY <1>5 DEF RunFinishes, RowsOK
  <2>2. o \in Outcome
    <3>1. run.event \in Healthy \cup Problem
      BY <1>5 DEF RunFinishes, WatchInv, RunOK, NoRun, Starting, Busy
    <3> QED BY <3>1 DEF StatusOf, Healthy, Problem, Outcome
  <2>3. rows' = [rows EXCEPT ![i] = new] /\ clock' = clock
    BY <1>5 DEF RunFinishes, FinishRun
  <2>4. new \in Row /\ new.at = rows[i].at
    <3>1. rows[i] \in Row
      BY <1>3, <2>1
    <3> HIDE DEF o
    <3> QED BY <2>2, <3>1 DEF Row
  <2> HIDE DEF new, o
  <2>5. /\ rows' \in Seq(Row) /\ DOMAIN rows' = DOMAIN rows
        /\ \A j \in DOMAIN rows : rows'[j] = IF j = i THEN new ELSE rows[j]
    BY <1>2, <2>1, <2>3, <2>4, ExceptSeq
  <2>6. \A j \in DOMAIN rows' : rows'[j].at <= clock'
    BY <1>3, <2>1, <2>3, <2>4, <2>5
  <2>7. run'.step \in {"none", "notify"}
    BY <1>5 DEF RunFinishes, NoRun
  <2>8. HistoryGoesOn
    <3> HIDE DEF i
    <3> QED BY <2>1, <2>4, <2>5 DEF HistoryGoesOn
  <2> QED BY <2>5, <2>6, <2>7, <2>8 DEF RowsOK, TimeIsKept
<1>6. ASSUME RowIsKept, TimeIsKept, UNCHANGED rows
      PROVE  RowsOK' /\ HistoryGoesOn /\ TimeIsKept
  <2>1. HistoryGoesOn
    BY <1>6 DEF HistoryGoesOn
  <2>2. \A i \in DOMAIN rows' : rows'[i].at <= clock'
    BY <1>1, <1>3, <1>6
  <2>3. run'.step = "begin" => run'.at \in Nat /\ run'.at <= clock'
    BY <1>1, <1>6 DEF RowsOK, TimeIsKept
  <2> QED BY <1>6, <2>1, <2>2, <2>3 DEF RowsOK, RowIsKept
<1>7. RowsOK' /\ HistoryGoesOn /\ TimeIsKept
  BY <1>4, <1>5, <1>6, RunKeepsRow DEF WatchInv
<1>8. IsFiniteSet(DOMAIN rows')
  <2>1. rows' \in Seq(Row)'
    BY <1>7 DEF RowsOK
  <2>2. DOMAIN rows' = 1 .. Len(rows') /\ Len(rows') \in Nat
    BY <2>1
  <2> QED BY <2>2, FS_Interval
<1> QED BY <1>7, <1>8

-----------------------------------------------------------------------------
(* Reports.                                                                *)

\* The run of a report's period that has a date and no row.
Waiting(r) == IF run.step = "begin" /\ Covers(r, run.at) THEN 1 ELSE 0

\* Runs a report may still come to miss it has allowed for.
MissesNoMore(r) ==
    Cardinality(Belonging(r)) + Waiting(r) <= r.overall.total + Cardinality(LateFor(r))

\* A report that is true, and stays so: it was built before now.
Sound(r) ==
    /\ r.kind \in Kind /\ r.period \in Int /\ r.built \in Nat /\ r.built <= clock
    /\ r.overall.total \in Nat /\ \A o \in Outcome : r.overall.by[o] \in Nat
    /\ IsFiniteSet(r.unwritten)
    /\ Truthful(r) /\ AddsUp(r)
    /\ Over(r) => MissesNoMore(r)

\* The reports that commands hold, and the last one that a channel accepted.
Reported ==
    {job[p].report : p \in {q \in Sender : job[q] # NoJob}}
    \cup (IF mailbox = NoReport THEN {} ELSE {mailbox})

ReportsInv == RowsOK /\ \A r \in Reported : Sound(r)

LEMMA LaterDays ==
    ASSUME NEW a \in Int, NEW b \in Int, a <= b
    PROVE  /\ Day(a) \in Int /\ Day(b) \in Int /\ Day(a) <= Day(b)
           /\ Month(a) \in Int /\ Month(b) \in Int /\ Month(a) <= Month(b)
<1>1. Day(a) \in Int /\ Day(b) \in Int /\ Month(a) \in Int /\ Month(b) \in Int
  BY DayOfInstant, MonthOfInstant
<1>2. DayStart(Day(a)) \in Int /\ DayStart(Day(a)) <= a
  BY <1>1, DayOfInstant
<1>3. Day(a) <= Day(b)
  BY <1>1, <1>2, DayOfInstant
<1>4. MonthStart(Month(a)) <= a
  BY <1>1, MonthOfInstant
<1>5. MonthStart(Month(a)) \in Int
  BY <1>1, ReportsAssumption, DayOfInstant DEF MonthStart
<1>6. Month(a) <= Month(b)
  BY <1>1, <1>4, <1>5, MonthOfInstant
<1> QED BY <1>1, <1>3, <1>6

\* A run that reads the clock now is not of a period that was over before.
LEMMA NowIsNotCovered ==
    ASSUME NEW r, r.kind \in Kind, r.period \in Int, r.built \in Nat, Over(r),
           NEW now \in Nat, r.built <= now
    PROVE  ~Covers(r, now)
<1>1. /\ Day(r.built) \in Int /\ Day(now) \in Int /\ Day(r.built) <= Day(now)
      /\ Month(r.built) \in Int /\ Month(now) \in Int /\ Month(r.built) <= Month(now)
  BY LaterDays
<1> QED BY <1>1 DEF Over, Covers

\* What a report counted is counted for good; to a period that is over, only the
\* run is added that had its date before.
LEMMA SoundStays ==
    ASSUME NEW r, Sound(r), RowsOK, HistoryGoesOn, TimeIsKept, IsFiniteSet(DOMAIN rows'),
           clock \in Nat, clock' \in Nat, clock <= clock'
    PROVE  Sound(r)'
<1> DEFINE B == Belonging(r)
           C == Belonging(r)'
           L == LateFor(r)
           of(o) == {i \in B : rows[i].status = o}
           new(o) == {i \in C : rows'[i].status = o}
<1>1. /\ r.kind \in Kind /\ r.period \in Int /\ r.built \in Nat /\ r.built <= clock
      /\ r.overall.total \in Nat /\ \A o \in Outcome : r.overall.by[o] \in Nat
      /\ r.overall.total <= Cardinality(B)
      /\ Over(r) => Cardinality(B) + Waiting(r) <= r.overall.total + Cardinality(L)
      /\ \A o \in Outcome : r.overall.by[o] <= Cardinality(of(o))
      /\ IsFiniteSet(r.unwritten)
  BY DEF Sound, Truthful, Tally, MissesNoMore
<1>2. B \subseteq C /\ C \subseteq DOMAIN rows'
  BY DEF Belonging, Covers, HistoryGoesOn
<1>3. IsFiniteSet(C) /\ IsFiniteSet(B)
  BY <1>2, FS_Subset
<1>4. Cardinality(B) \in Nat /\ Cardinality(C) \in Nat /\ Cardinality(B) <= Cardinality(C)
  BY <1>2, <1>3, FS_Subset, FS_CardinalityType
<1>5. ASSUME NEW o \in Outcome
      PROVE  r.overall.by[o] <= Cardinality(new(o))
  <2>1. of(o) \subseteq new(o) /\ new(o) \subseteq C
    <3>1. o # "running"
      BY DEF Outcome
    <3>2. \A i \in B : rows[i].status = o => rows'[i].status = o
      BY <3>1 DEF HistoryGoesOn, Belonging
    <3> HIDE DEF B, C
    <3> QED BY <1>2, <3>2
  <2>2. IsFiniteSet(new(o)) /\ IsFiniteSet(of(o))
    BY <2>1, <1>3, FS_Subset
  <2>3. /\ Cardinality(of(o)) \in Nat /\ Cardinality(new(o)) \in Nat
        /\ Cardinality(of(o)) <= Cardinality(new(o))
    BY <2>1, <2>2, FS_Subset, FS_CardinalityType
  <2>4. r.overall.by[o] \in Nat /\ r.overall.by[o] <= Cardinality(of(o))
    BY <1>1
  <2> HIDE DEF of, new
  <2> QED BY <2>3, <2>4
<1>6. Cardinality(L) \in Nat /\ L = LateFor(r)'
  <2>1. L \subseteq r.unwritten
    BY DEF LateFor
  <2>2. L = LateFor(r)'
    BY DEF LateFor, Covers, Day, Month
  <2> HIDE DEF L
  <2> QED BY <1>1, <2>1, <2>2, FS_Subset, FS_CardinalityType
<1>7. Over(r)' <=> Over(r)
  BY DEF Over, Day, Month
<1>8. ASSUME Over(r)
      PROVE  Cardinality(C) + Waiting(r)' <= r.overall.total + Cardinality(L)
  <2>1. Waiting(r) \in 0 .. 1 /\ Waiting(r)' \in 0 .. 1
    BY DEF Waiting
  \* The run of the period that waits gets its row.
  <2>2. ASSUME NEW i \in C, i \notin B
        PROVE  Cardinality(C) + Waiting(r)' <= Cardinality(B) + Waiting(r)
    <3>1. ASSUME NEW k \in C, k \notin B
          PROVE  /\ k = Len(rows) + 1 /\ Covers(r, run.at)
                 /\ run.step = "begin" /\ run'.step # "begin"
      <4>1. k \in DOMAIN rows' /\ Covers(r, rows'[k].at)
        BY <3>1 DEF Belonging, Covers, Day, Month
      <4>2. k \notin DOMAIN rows
        BY <3>1, <4>1 DEF Belonging, HistoryGoesOn
      <4> QED BY <4>1, <4>2 DEF HistoryGoesOn
    <3>2. Waiting(r) = 1 /\ Waiting(r)' = 0
      BY <2>2, <3>1 DEF Waiting
    <3>3. C = B \cup {i}
      <4> HIDE DEF B, C
      <4> QED BY <1>2, <2>2, <3>1
    <3>4. Cardinality(C) = Cardinality(B) + 1
      <4> HIDE DEF B, C
      <4> QED BY <1>3, <2>2, <3>3, FS_AddElement
    <3> HIDE DEF B, C
    <3> QED BY <1>4, <3>2, <3>4
  <2>3. ASSUME B = C
        PROVE  Waiting(r)' <= Waiting(r)
    <3>1. ~Covers(r, clock)
      BY <1>1, <1>8, NowIsNotCovered
    <3>2. Covers(r, run.at)' <=> Covers(r, run'.at)
      BY DEF Covers, Day, Month
    <3> QED BY <3>1, <3>2 DEF Waiting, TimeIsKept
  <2> HIDE DEF B, C, L
  <2>4. Cardinality(C) + Waiting(r)' <= Cardinality(B) + Waiting(r)
    <3>1. CASE B = C
      BY <1>4, <2>1, <2>3, <3>1
    <3> QED BY <1>2, <2>2, <3>1
  <2> QED BY <1>1, <1>4, <1>6, <1>8, <2>1, <2>4
<1>9. Truthful(r)'
  <2>1. r.overall.total <= Cardinality(C)
    <3> HIDE DEF B, C
    <3> QED BY <1>1, <1>4
  <2>2. Over(r) => Cardinality(C) <= r.overall.total + Cardinality(L)
    <3>1. Waiting(r)' \in Nat
      BY DEF Waiting
    <3> HIDE DEF B, C, L
    <3> QED BY <1>1, <1>4, <1>6, <1>8, <3>1
  <2> QED BY <1>5, <1>6, <1>7, <2>1, <2>2 DEF Truthful, Tally, LateFor
<1>10. AddsUp(r)'
  <2>1. AddsUp(r)
    BY DEF Sound
  <2> QED BY <2>1 DEF AddsUp, MapThenSumSet, MapThenFoldSet
<1>11. (Over(r) => MissesNoMore(r))'
  BY <1>6, <1>7, <1>8 DEF MissesNoMore
<1> QED BY <1>1, <1>9, <1>10, <1>11 DEF Sound

\* A report that counts what belongs to it allows for the run without a row.
LEMMA TallyCounts ==
    ASSUME NEW r, NEW runs \in SUBSET DOMAIN rows, IsFiniteSet(DOMAIN rows),
           r.overall = Tally(runs), runs = Belonging(r), r.unwritten = Unwritten
    PROVE  /\ Truthful(r) /\ MissesNoMore(r) /\ IsFiniteSet(r.unwritten)
           /\ r.overall.total \in Nat /\ \A o \in Outcome : r.overall.by[o] \in Nat
<1>1. \A o \in Outcome : {i \in runs : rows[i].status = o} \in SUBSET runs
  OBVIOUS
<1>2. IsFiniteSet(runs)
  BY FS_Subset
<1>3. Cardinality(runs) \in Nat
  BY <1>2, FS_CardinalityType
<1>4. \A o \in Outcome : Cardinality({i \in runs : rows[i].status = o}) \in Nat
  BY <1>1, <1>2, FS_Subset, FS_CardinalityType
<1>5. /\ r.overall.total = Cardinality(runs)
      /\ \A o \in Outcome : r.overall.by[o] = Cardinality({i \in runs : rows[i].status = o})
  BY DEF Tally
<1>6. Cardinality(LateFor(r)) = Waiting(r) /\ Waiting(r) \in Nat
  <2>1. CASE run.step = "begin" /\ Covers(r, run.at)
    <3>1. LateFor(r) = {run.at}
      BY <2>1 DEF LateFor, Unwritten
    <3> QED BY <2>1, <3>1, FS_Singleton DEF Waiting
  <2>2. CASE ~(run.step = "begin" /\ Covers(r, run.at))
    <3>1. LateFor(r) = {}
      BY <2>2 DEF LateFor, Unwritten
    <3> QED BY <2>2, <3>1, FS_EmptySet DEF Waiting
  <2> QED BY <2>1, <2>2
<1>7. IsFiniteSet(r.unwritten)
  BY FS_Singleton, FS_EmptySet DEF Unwritten
<1>8. Truthful(r)
  <2>1. Cardinality(runs) <= r.overall.total + Cardinality(LateFor(r))
    BY <1>3, <1>5, <1>6
  <2> QED BY <1>3, <1>4, <1>5, <2>1 DEF Truthful, Tally, LateFor
<1>9. MissesNoMore(r)
  BY <1>3, <1>5, <1>6 DEF MissesNoMore
<1> QED BY <1>3, <1>4, <1>5, <1>7, <1>8, <1>9

LEMMA RowDates == RowsOK => \A i \in DOMAIN rows : rows[i].at \in Int
<1>1. RowsOK => \A i \in DOMAIN rows : rows[i] \in Row
  BY DEF RowsOK
<1> QED BY <1>1 DEF Row

\* A daily report is the tally of its day.
LEMMA DailyIsSound ==
    ASSUME RowsOK, IsFiniteSet(DOMAIN rows), clock \in Nat, NEW t \in Int
    PROVE  Sound(DailyReport(t, clock, Unwritten))
<1> DEFINE r == DailyReport(t, clock, Unwritten)
           d == Day(t)
           runs == RunsInRange(DayStart(d), DayStart(d) + DayLength)
<1>1. /\ r.kind = "daily" /\ r.period = d /\ r.built = clock /\ r.overall = Tally(runs)
      /\ r.unwritten = Unwritten
  BY DEF DailyReport
<1>2. d \in Int
  BY DayOfInstant
<1>3. \A i \in DOMAIN rows : rows[i].at \in Int
  BY RowDates
<1> HIDE DEF r, d
<1>4. \A at \in Int : DayStart(d) <= at /\ at < DayStart(d) + DayLength <=> Day(at) = d
  <2> TAKE at \in Int
  <2>1. /\ Day(at) \in Int
        /\ DayStart(d) <= at <=> d <= Day(at)
        /\ DayStart(d + 1) <= at <=> d + 1 <= Day(at)
        /\ DayStart(d) + DayLength = DayStart(d + 1)
        /\ DayStart(d + 1) \in Int
    BY <1>2, DayOfInstant
  <2> QED BY <1>2, <2>1
<1>5. runs = Belonging(r)
  BY <1>1, <1>3, <1>4 DEF RunsInRange, Belonging, Covers
<1>6. /\ Truthful(r) /\ MissesNoMore(r) /\ IsFiniteSet(r.unwritten)
      /\ r.overall.total \in Nat /\ \A o \in Outcome : r.overall.by[o] \in Nat
  BY <1>1, <1>5, TallyCounts DEF RunsInRange
<1>7. AddsUp(r)
  BY <1>1 DEF AddsUp
<1> QED BY <1>1, <1>2, <1>6, <1>7 DEF Sound, Kind, r

\* A monthly report is the tally of its month, and its days are a partition of it.
LEMMA MonthlyIsSound ==
    ASSUME RowsOK, IsFiniteSet(DOMAIN rows), clock \in Nat, NEW t \in Int
    PROVE  Sound(MonthlyReport(t, clock, Unwritten))
<1> DEFINE r == MonthlyReport(t, clock, Unwritten)
           m == Month(t)
           runs == RunsInRange(MonthStart(m), MonthStart(m + 1))
           of(d) == {i \in runs : Day(rows[i].at) = d}
           days == {d \in m * MonthLength .. (m + 1) * MonthLength - 1 :
                       IncludeEmpty \/ of(d) # {}}
           part == [d \in days |-> of(d)]
<1>1. /\ r.kind = "monthly" /\ r.period = m /\ r.built = clock /\ r.overall = Tally(runs)
      /\ r.unwritten = Unwritten
      /\ r.days = [d \in days |-> Tally(of(d))]
  BY DEF MonthlyReport
<1>2. m \in Int
  BY MonthOfInstant
<1>3. \A i \in DOMAIN rows : rows[i].at \in Int
  BY RowDates
<1>4. runs \subseteq DOMAIN rows /\ IsFiniteSet(runs)
  BY FS_Subset DEF RunsInRange
<1> HIDE DEF r, m
<1>5. \A at \in Int :
         /\ MonthStart(m) <= at /\ at < MonthStart(m + 1) <=> Month(at) = m
         /\ Month(at) = m => Day(at) \in m * MonthLength .. (m + 1) * MonthLength - 1
  <2> TAKE at \in Int
  <2>1. m + 1 \in Int /\ m * MonthLength \in Int /\ (m + 1) * MonthLength \in Int
    BY <1>2, ReportsAssumption
  <2>2. /\ Day(at) \in Int /\ Month(at) \in Int
        /\ MonthStart(m) <= at <=> m <= Month(at)
        /\ MonthStart(m) <= at <=> m * MonthLength <= Day(at)
        /\ MonthStart(m + 1) <= at <=> m + 1 <= Month(at)
        /\ MonthStart(m + 1) <= at <=> (m + 1) * MonthLength <= Day(at)
    BY <1>2, <2>1, DayOfInstant, MonthOfInstant
  <2>3. MonthStart(m) \in Int /\ MonthStart(m + 1) \in Int
    BY <2>1, DayOfInstant DEF MonthStart
  <2> QED BY <1>2, <2>1, <2>2, <2>3
<1>6. runs = Belonging(r)
  BY <1>1, <1>3, <1>5 DEF RunsInRange, Belonging, Covers
<1>7. /\ Truthful(r) /\ MissesNoMore(r) /\ IsFiniteSet(r.unwritten)
      /\ r.overall.total \in Nat /\ \A o \in Outcome : r.overall.by[o] \in Nat
  BY <1>1, <1>4, <1>6, TallyCounts
<1>8. AddsUp(r)
  <2>1. IsFiniteSet(days)
    <3>1. m * MonthLength \in Int /\ (m + 1) * MonthLength - 1 \in Int
      BY <1>2, ReportsAssumption
    <3> QED BY <3>1, FS_Interval, FS_Subset
  <2>2. part \in [days -> SUBSET runs]
    OBVIOUS
  <2>3. \A a, b \in days : a # b => part[a] \cap part[b] = {}
    OBVIOUS
  <2>4. \A i \in runs : i \in of(Day(rows[i].at)) /\ Day(rows[i].at) \in days
    <3> TAKE i \in runs
    <3>1. Day(rows[i].at) \in m * MonthLength .. (m + 1) * MonthLength - 1
      BY <1>3, <1>4, <1>5 DEF RunsInRange
    <3> HIDE DEF runs
    <3> QED BY <3>1
  <2>5. UNION {part[d] : d \in days} = runs
    <3> HIDE DEF runs
    <3> QED BY <2>4
  <2>6. DOMAIN r.days = days /\ r.overall.total = Cardinality(runs)
    <3> HIDE DEF days, of, runs
    <3> QED BY <1>1 DEF Tally
  <2>7. \A d \in days : r.days[d].total = Cardinality(part[d])
    <3> HIDE DEF days, of, runs
    <3> QED BY <1>1 DEF Tally
  <2>8. r.overall.total = Cardinality(UNION {part[d] : d \in days})
    BY <2>5, <2>6
  <2> HIDE DEF part, days, runs
  <2> QED BY <1>4, <2>1, <2>2, <2>3, <2>6, <2>7, <2>8, PartsAddUp
<1> QED BY <1>1, <1>2, <1>7, <1>8 DEF Sound, Kind, r

-----------------------------------------------------------------------------
(* The steps.                                                              *)

LEMMA ReportsInitInv == WatchInit => ReportsInv
<1> SUFFICES ASSUME WatchInit PROVE ReportsInv
  OBVIOUS
<1>1. rows = <<>> /\ run.step = "none"
  BY DEF WatchInit, ReportsInit, NoRun
<1>2. RowsOK
  BY <1>1 DEF RowsOK
<1>3. Reported = {}
  BY DEF WatchInit, ReportsInit, Reported
<1> QED BY <1>2, <1>3 DEF ReportsInv

\* A command that begins builds a report; the others pass theirs on.
LEMMA ReportedSteps ==
    ASSUME WatchInv, [WatchNext]_watchVars
    PROVE  \/ Reported' \subseteq Reported
           \/ \E t \in Int :
                Reported' \subseteq Reported \cup {DailyReport(t, clock, Unwritten),
                                                   MonthlyReport(t, clock, Unwritten)}
<1>1. JobsOK /\ clock \in Nat
  BY DEF WatchInv, ClockOK
<1>2. CASE UNCHANGED <<job, mailbox>>
  BY <1>2 DEF Reported
<1>3. ASSUME NEW p \in Sender, NEW k \in Kind, NEW t \in Asked, ReportBegins(p, k, t)
      PROVE  \E u \in Int :
                Reported' \subseteq Reported \cup {DailyReport(u, clock, Unwritten),
                                                   MonthlyReport(u, clock, Unwritten)}
  <2> DEFINE report == IF k = "daily" THEN DailyReport(t, clock, Unwritten)
                       ELSE MonthlyReport(t, clock, Unwritten)
             new == [step |-> "check", failed |-> FALSE, todo |-> {}, got |-> {},
                     report |-> report]
  <2>1. t \in Int
    <3>1. DayLength \in Int
      BY ReportsAssumption
    <3> QED BY <1>1, <3>1 DEF Asked
  <2>2. job' = [job EXCEPT ![p] = new] /\ mailbox' = mailbox
    BY <1>3 DEF ReportBegins, ReportBuild
  <2>3. new.report = report
    OBVIOUS
  <2> HIDE DEF new
  <2>4. Reported' \subseteq Reported \cup {report}
    BY <1>1, <2>2, <2>3 DEF Reported, JobsOK
  <2> QED BY <2>1, <2>4
<1>4. ASSUME NEW p \in Sender, job[p] # NoJob,
             \/ job' = [job EXCEPT ![p] = NoJob]
             \/ \E new : job' = [job EXCEPT ![p] = new] /\ new.report = job[p].report,
             mailbox' \in {mailbox, job[p].report}
      PROVE  Reported' \subseteq Reported
  BY <1>1, <1>4 DEF Reported, JobsOK
<1>5. ASSUME NEW p \in Sender, ReportGoesOn(p) \/ ReportErrs(p)
      PROVE  Reported' \subseteq Reported
  <2>1. job[p] # NoJob /\ mailbox' \in {mailbox, job[p].report}
    <3>1. NoJob.step = "none"
      BY DEF NoJob
    <3>2. ASSUME NEW channels, job[p] # NoJob, ReportCheck(p, channels)
          PROVE  mailbox' = mailbox
      BY <3>2 DEF ReportCheck
    <3>3. ASSUME NEW c, ReportSend(p, c)
          PROVE  job[p] # NoJob /\ mailbox' = job[p].report
      BY <3>1, <3>3 DEF ReportSend
    <3>4. ASSUME NEW c, ReportSendFails(p, c)
          PROVE  job[p] # NoJob /\ mailbox' = mailbox
      BY <3>1, <3>4 DEF ReportSendFails
    <3>5. ReportRecord(p) \/ ReportDies(p) => job[p] # NoJob /\ mailbox' = mailbox
      BY <3>1 DEF ReportRecord, ReportDies
    <3> QED BY <1>5, <3>2, <3>3, <3>4, <3>5 DEF ReportGoesOn, ReportErrs
  <2>2. PICK report : job[p] \in [step : {"check", "send"}, failed : BOOLEAN, todo : SUBSET Channel,
                                  got : SUBSET Channel, report : {report}]
    BY <1>1, <2>1 DEF JobsOK, JobOK
  <2>3. \/ job' = [job EXCEPT ![p] = NoJob]
        \/ \E new : job' = [job EXCEPT ![p] = new] /\ new.report = job[p].report
    <3>1. CASE job' = [job EXCEPT ![p] = NoJob]
      BY <3>1
    <3>2. ASSUME NEW channels, ReportCheck(p, channels), job' # [job EXCEPT ![p] = NoJob]
          PROVE  \E new : job' = [job EXCEPT ![p] = new] /\ new.report = job[p].report
      <4> DEFINE new == [job[p] EXCEPT !.step = "send", !.todo = channels]
      <4>1. job' = [job EXCEPT ![p] = new]
        BY <1>1, <3>2 DEF ReportCheck, JobsOK
      <4>2. new.report = job[p].report
        BY <2>2
      <4> HIDE DEF new
      <4> QED BY <4>1, <4>2
    <3>3. ASSUME NEW c \in Channel, ReportSend(p, c)
          PROVE  \E new : job' = [job EXCEPT ![p] = new] /\ new.report = job[p].report
      <4> DEFINE new == [job[p] EXCEPT !.todo = @ \ {c}, !.got = @ \cup {c}]
      <4>1. job' = [job EXCEPT ![p] = new]
        BY <1>1, <3>3 DEF ReportSend, JobsOK
      <4>2. new.report = job[p].report
        BY <2>2
      <4> HIDE DEF new
      <4> QED BY <4>1, <4>2
    <3>4. ASSUME NEW c \in Channel, ReportSendFails(p, c)
          PROVE  \E new : job' = [job EXCEPT ![p] = new] /\ new.report = job[p].report
      <4> DEFINE new == [job[p] EXCEPT !.todo = @ \ {c}, !.failed = TRUE]
      <4>1. job' = [job EXCEPT ![p] = new]
        BY <1>1, <3>4 DEF ReportSendFails, JobsOK
      <4>2. new.report = job[p].report
        BY <2>2
      <4> HIDE DEF new
      <4> QED BY <4>1, <4>2
    <3> QED BY <1>5, <3>1, <3>2, <3>3, <3>4
            DEF ReportGoesOn, ReportErrs, ReportRecord, ReportDies
  <2> QED BY <1>4, <2>1, <2>3
<1> QED
  BY <1>2, <1>3, <1>5
     DEF WatchNext, watchVars, reportVars, Works, RunErrs, ErrsInside, ReportWorks, RunSkips,
         RunStarts, RunBegins, FilesStored, OnlyRun, ExportStarts, ExportGoesOn, OnlyExport,
         ExportEnds, RunFinishes, NoticeGoesOn, NoticeEnds, OnlyAlerts, Opens, Readies, Closes,
         OnlyConfig, TableIsRepaired, OnlyTables, Tick, FilesFail, RunCannotBegin,
         RunFinishFails, ProcessDies, FilesIncomplete, ExportErrs, NoticeErrs, OpenErrs, TableBreaks

LEMMA ReportsStepInv ==
    WatchInv /\ ReportsInv /\ [WatchNext]_watchVars => ReportsInv'
<1> SUFFICES ASSUME WatchInv, ReportsInv, [WatchNext]_watchVars PROVE ReportsInv'
  OBVIOUS
<1>1. /\ clock \in Nat /\ clock' \in Nat /\ clock <= clock'
  BY ClockSteps
<1>2. RowsOK /\ RowsOK' /\ HistoryGoesOn /\ TimeIsKept /\ IsFiniteSet(DOMAIN rows')
  BY RowsStep DEF ReportsInv
<1>3. IsFiniteSet(DOMAIN rows)
  BY <1>2, FS_Subset DEF HistoryGoesOn
<1>4. \A t \in Int : Sound(DailyReport(t, clock, Unwritten)) /\ Sound(MonthlyReport(t, clock, Unwritten))
  BY <1>1, <1>2, <1>3, DailyIsSound, MonthlyIsSound
<1>5. ASSUME NEW r \in Reported'
      PROVE  Sound(r)
  BY <1>4, <1>5, ReportedSteps DEF ReportsInv
<1>6. ASSUME NEW r, r \in Reported'
      PROVE  Sound(r)'
  BY <1>1, <1>2, <1>5, <1>6, SoundStays
<1> QED BY <1>2, <1>6 DEF ReportsInv

\* What a channel was told of a day or a month, in ticks of any number that make
\* them, is true for good, whatever runs, commands and faults come between: a
\* report on a period that is over misses no run but one that had read the clock
\* and was not in the history yet when it was built (runner.go, run;
\* report/builder.go, Build; history.go, ListRunsInRange).
THEOREM ReportsStayTrue == WatchSpec => []ReportsAreTrue
<1>1. ReportsInv => ReportsAreTrue
  BY DEF ReportsInv, Reported, Sound, ReportsAreTrue
<1> QED BY <1>1, ReportsInitInv, ReportsStepInv, WatchInvariance, PTL DEF WatchSpec
=============================================================================
