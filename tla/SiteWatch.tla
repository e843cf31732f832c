------------------------------ MODULE SiteWatch ------------------------------
(***************************************************************************)
(* One site over several days: the configuration is opened for every       *)
(* backup run, a run stores files and exports a database, its outcome is   *)
(* recorded and told to the channels, and reports on the days and months   *)
(* are sent beside it.  DatabaseExport, Alerts, Reports and Configuration  *)
(* composed as Runner.run and App compose them.                            *)
(*                                                                         *)
(* Storage itself is in BackupRun and FlatStore; here it works or fails.   *)
(***************************************************************************)
EXTENDS DatabaseExport, Alerts, Reports, Configuration

CONSTANTS
    MinimumInterval,    \* ticks
    Bounds              \* Bounds[focus]: configurations in use, clock, scopes
                        \* and number of runs, report commands, faults

ASSUME WatchAssumption ==
    /\ {"none", "files", "database", "source", "history"} \subseteq Reason
    /\ \A c \in Candidate :
         /\ DOMAIN c.channels \subseteq Channel
         /\ \A r \in c.routes :
              /\ r.name \in STRING
              /\ r = [name |-> r.name, events |-> r.events, channels |-> r.channels]

VARIABLES
    clock,
    run,            \* the run of the process that holds the site lock
    reports,        \* report commands so far
    spent,          \* what went wrong so far
    focus           \* bound: what a behaviour is about: reports, or the runs

watchVars == <<exportVars, alertVars, reportVars, configVars, clock, run, reports,
               spent, focus>>

NoRun == [step |-> "none"]

WatchInit ==
    /\ ExportInit /\ AlertsInit /\ ReportsInit /\ ConfigInit
    /\ clock = 0 /\ run = NoRun /\ reports = 0 /\ spent = 0
    /\ focus \in DOMAIN Bounds
    /\ focus # "runs" => config \in Bounds[focus].configs

-----------------------------------------------------------------------------
(* A run.                                                                  *)

\* LastSuccessful looks at full runs only; a running or a database-only run
\* does not count.
TooSoon ==
    \E i \in DOMAIN rows :
        /\ rows[i].scope = "full" /\ rows[i].status \in {"success", "no_change"}
        /\ rows[i].at < clock /\ clock - rows[i].at < MinimumInterval

\* The site is idle and its process ready.
MayRun == stage = "ready" /\ config \in Bounds[focus].configs /\ run = NoRun

RunSkips(scope) ==
    /\ MayRun /\ TooSoon
    /\ NotifyBegin([event |-> "backup_skipped", reason |-> "none", scope |-> scope])
    /\ run' = [step |-> "notify"]
    /\ UNCHANGED <<exportVars, reportVars, configVars, clock>>

\* Nothing but the run changes.
OnlyRun == UNCHANGED <<exportVars, alertVars, reportVars, configVars, clock>>

\* The time of the run is read, and then the history of its site, which nobody
\* else changes.  TooSoon is overruled by --force.
RunStarts(scope, force) ==
    /\ MayRun /\ Len(rows) < Bounds[focus].runs /\ scope \in Bounds[focus].scopes
    /\ force \/ ~TooSoon
    /\ run' = [step |-> "begin", scope |-> scope, at |-> clock]
    /\ OnlyRun

\* Its row gets the time that was read.
RunBegins ==
    /\ run.step = "begin"
    /\ CreateRun(run.scope, run.at)
    /\ run' = [step |-> IF run.scope = "full" THEN "files" ELSE "database",
               scope |-> run.scope, row |-> Len(rows) + 1,
               event |-> "backup_succeeded", reason |-> "none"]
    /\ UNCHANGED <<exportVars, alertVars, recorded, job, mailbox, configVars, clock>>

\* The row is not written; nobody is told.
RunCannotBegin == run.step = "begin" /\ run' = NoRun /\ OnlyRun

FilesStored ==
    /\ run.step = "files"
    /\ run' = [run EXCEPT !.step = "database"]
    /\ OnlyRun

\* Entries were skipped: unreadable, or gone since the directory was listed.
FilesIncomplete(why) ==
    /\ run.step = "files"
    /\ run' = [run EXCEPT !.step = "database", !.event = "backup_partial", !.reason = why]
    /\ OnlyRun

FilesFail(event) ==
    /\ run.step = "files"
    /\ run' = [run EXCEPT !.step = "finish", !.event = event, !.reason = "files"]
    /\ OnlyRun

OnlyExport == UNCHANGED <<alertVars, reportVars, configVars, clock, run>>

ExportStarts == run.step = "database" /\ ExportBegin /\ OnlyExport
ExportGoesOn == run.step = "database" /\ (ExportSteps \/ DumpMeetsDamage) /\ OnlyExport
ExportErrs == run.step = "database" /\ ExportFaults /\ OnlyExport

\* A full run without skips whose packages have the sizes of the last one.
MayBeUnchanged ==
    /\ run.scope = "full" /\ run.event = "backup_succeeded"
    /\ \E i \in DOMAIN rows :
          rows[i].scope = "full" /\ rows[i].status \in {"success", "no_change"}

\* The package is stored, or the run fails or is cancelled with the export.
ExportEnds ==
    /\ run.step = "database" /\ ExportEnd
    /\ \/ /\ export = "done"
          /\ run' = [run EXCEPT !.step = "finish"]
       \/ /\ export = "done" /\ MayBeUnchanged
          /\ run' = [run EXCEPT !.step = "finish", !.event = "backup_no_change"]
       \/ /\ export = "failed"
          /\ run' = [run EXCEPT !.step = "finish", !.reason = "database",
                                !.event = IF cause = "cancelled" THEN "backup_cancelled"
                                                                 ELSE "backup_failed"]
    /\ UNCHANGED <<alertVars, reportVars, configVars, clock>>

StatusOf(event) ==
    CASE event = "backup_succeeded" -> "success"
      [] event = "backup_no_change" -> "no_change"
      [] event = "backup_partial" -> "partial"
      [] event = "backup_failed" -> "failed"
      [] event = "backup_cancelled" -> "cancelled"

RunNotice(event, reason) == [event |-> event, reason |-> reason, scope |-> run.scope]

\* A partial run of which only files were gone is recorded and not told.
RunFinishes ==
    /\ run.step = "finish"
    /\ FinishRun(run.row, StatusOf(run.event))
    /\ IF run.reason = "gone"
       THEN run' = NoRun /\ UNCHANGED alertVars
       ELSE run' = [step |-> "notify"] /\ NotifyBegin(RunNotice(run.event, run.reason))
    /\ UNCHANGED <<exportVars, recorded, job, mailbox, configVars, clock>>

\* The row stays "running"; only a run that had succeeded says so.
RunFinishFails ==
    /\ run.step = "finish"
    /\ IF run.event \in {"backup_failed", "backup_cancelled"}
       THEN run' = NoRun /\ UNCHANGED alertVars
       ELSE /\ run' = [step |-> "notify"]
            /\ NotifyBegin(RunNotice("backup_failed", "history"))
    /\ UNCHANGED <<exportVars, reportVars, configVars, clock>>

OnlyAlerts == UNCHANGED <<exportVars, reportVars, configVars, clock>>

NoticeGoesOn == AlertSteps(clock) /\ OnlyAlerts /\ UNCHANGED run
NoticeErrs == AlertFaults(clock) /\ OnlyAlerts /\ UNCHANGED run
NoticeEnds == run.step = "notify" /\ NotifyEnd /\ run' = NoRun /\ OnlyAlerts

\* The process dies and leaves its workspace; the next export has its own.
ProcessDies ==
    /\ Die /\ NotifyCrash /\ ExportOver
    /\ run' = NoRun
    /\ UNCHANGED <<reportVars, clock>>

-----------------------------------------------------------------------------
(* Around the runs.                                                        *)

OnlyConfig == UNCHANGED <<exportVars, reportVars, clock, run>>

Opens == ConfigSteps /\ UNCHANGED alertVars /\ OnlyConfig
OpenErrs == ConfigFaults /\ UNCHANGED alertVars /\ OnlyConfig

\* The dispatcher gets its routes when the application is built; those of the
\* site stay what they are.
Readies ==
    /\ OpenReady
    /\ IF routes = {} THEN ConfigureRoutes(active.routes) ELSE UNCHANGED alertVars
    /\ OnlyConfig

Closes == run = NoRun /\ Close /\ UNCHANGED alertVars /\ OnlyConfig

\* The channels of a kind of report.
ReportRoute ==
    [k \in Kind |->
        UNION {r.channels : r \in {q \in routes : q.name = config.reports[k].route}}]

\* Bound: a report is built between runs, before a run's row is written or before
\* its end, and the run waits for it: their other steps have nothing in common, so
\* that in another order they would come to the same.
BetweenSteps == stage = "closed" \/ run.step \in {"begin", "finish"}
NoReportIsSent == \A p \in Sender : job[p] = NoJob

OnlyReports == BetweenSteps /\ UNCHANGED <<exportVars, alertVars, configVars, clock, run>>

\* The date of a run that is not in the history yet.
Unwritten == IF run.step = "begin" THEN {run.at} ELSE {}

\* `report send`, now or --date or --month; it has its own process.
ReportBegins(p, kind, t) ==
    /\ routes # {} /\ config \in Bounds[focus].configs /\ config.reports[kind].enabled
    /\ reports < Bounds[focus].reports /\ reports' = reports + 1
    /\ ReportBuild(p, kind, t, clock, Unwritten)
    /\ OnlyReports

ReportGoesOn(p) ==
    /\ \/ job[p] # NoJob /\ ReportCheck(p, ReportRoute[job[p].report.kind])
       \/ \E c \in Channel : ReportSend(p, c)
       \/ ReportRecord(p)
    /\ UNCHANGED reports /\ OnlyReports

ReportErrs(p) ==
    /\ \/ \E c \in Channel : ReportSendFails(p, c)
       \/ ReportDies(p)
    /\ OnlyReports

OnlyTables == UNCHANGED <<alertVars, reportVars, configVars, clock, run>>

\* Bound: during an export; if earlier, the export would find the same.
TableBreaks == run.step = "database" /\ (\E t \in Table : DamageTable(t)) /\ OnlyTables
TableIsRepaired == (\E t \in Table : OperatorRepairs(t)) /\ OnlyTables

\* Bound: time passes between runs or, when the behaviour is about reports, before
\* a run's row is written.
Tick ==
    /\ config \in Bounds[focus].configs /\ clock < Bounds[focus].clock
    /\ \/ run = NoRun /\ stage = "closed"
       \/ focus = "reports" /\ run.step = "begin"
    /\ clock' = clock + 1
    /\ UNCHANGED <<exportVars, alertVars, reportVars, configVars, run>>

\* The date a report is asked for: now, or a day by its midnight in UTC.
Asked == {clock} \cup {d * DayLength : d \in 0 .. clock \div DayLength}

Works ==
    \/ \E s \in Scope : RunSkips(s) \/ \E force \in BOOLEAN : RunStarts(s, force)
    \/ RunBegins
    \/ FilesStored \/ ExportStarts \/ ExportGoesOn \/ ExportEnds \/ RunFinishes
    \/ NoticeGoesOn \/ NoticeEnds
    \/ Opens \/ Readies \/ Closes
    \/ TableIsRepaired \/ Tick

\* What counts as a fault.  A run may go wrong in either case; where
\* exactly, only when the behaviour is about the runs.
RunErrs ==
    FilesFail("backup_failed") \/ RunCannotBegin \/ RunFinishFails \/ ProcessDies

ErrsInside ==
    \/ FilesFail("backup_cancelled")
    \/ \E why \in {"source", "gone"} : FilesIncomplete(why)
    \/ ExportErrs \/ NoticeErrs \/ OpenErrs \/ TableBreaks

ReportWorks ==
    \/ \E p \in Sender, k \in Kind, t \in Asked : ReportBegins(p, k, t)
    \/ \E p \in Sender : ReportGoesOn(p)

WatchNext ==
    /\ \/ NoReportIsSent /\ Works /\ UNCHANGED <<reports, spent>>
       \/ ReportWorks /\ UNCHANGED spent
       \/ /\ spent < Bounds[focus].faults /\ spent' = spent + 1 /\ UNCHANGED reports
          /\ \/ NoReportIsSent /\ (RunErrs \/ (focus # "reports" /\ ErrsInside))
             \/ \E p \in Sender : ReportErrs(p)
    /\ UNCHANGED focus

WatchSpec == WatchInit /\ [][WatchNext]_watchVars

-----------------------------------------------------------------------------
(* Properties.                                                             *)

\* RecordsDelivery of Reports, for the routes the site is configured with.
ReportsAreDelivered == [][RecordsDelivery(ReportRoute)]_watchVars

\* NoNoise of Alerts, of every step.
NobodyIsNagged == [][NoNoise]_watchVars
=============================================================================
