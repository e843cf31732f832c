--------------------------- MODULE DatabaseExport ---------------------------
(***************************************************************************)
(* The export of one database: ProcessExporter.Export dumps it into a      *)
(* file, tries again what may pass, and after a corruption error has the   *)
(* corrupt tables repaired once when the source asks for that.  Tables are *)
(* damaged at any time, and an operator repairs them beside the export.    *)
(*                                                                         *)
(* The database server is only what its clients' exit codes and rows say.  *)
(***************************************************************************)
EXTENDS Naturals

CONSTANTS
    Table,          \* the database's tables
    Repairable,     \* those whose engine is MyISAM or Aria
    AutoRepair      \* auto_repair of the source

ASSUME ExportAssumption ==
    /\ Repairable \subseteq Table
    /\ AutoRepair \in BOOLEAN

VARIABLES
    health,         \* what CHECK TABLE says; a "marked" table can be dumped
    file,           \* the dump's file
    export,         \* where the export is
    attempt,        \* dumps before this one
    repaired,       \* TRUE once this export turned to repair
    todo,           \* unhealthy tables still to repair
    fixed,          \* tables it repaired: the package's warnings
    cause,          \* why the last dump or the export failed
    verdict         \* (auxiliary) the tables its check found unhealthy

exportVars == <<health, file, export, attempt, repaired, todo, fixed, cause, verdict>>

Retries == 2        \* len(retryDelays)
Health == {"ok", "marked", "corrupt"}
Cause == {"none", "transient", "corruption", "other", "cancelled"}
Working == {"create", "dump", "close", "wait", "check", "repair"}

ExportTypeOK ==
    /\ health \in [Table -> Health]
    /\ file \in {"absent", "partial", "whole"}
    /\ export \in Working \cup {"idle", "done", "failed"}
    /\ attempt \in Nat
    /\ repaired \in BOOLEAN
    /\ todo \subseteq Table /\ fixed \subseteq Table /\ verdict \subseteq Table
    /\ cause \in Cause

ExportInit ==
    /\ health = [t \in Table |-> "ok"]
    /\ file = "absent" /\ export = "idle"
    /\ attempt = 0 /\ repaired = FALSE
    /\ todo = {} /\ fixed = {} /\ cause = "none" /\ verdict = {}

-----------------------------------------------------------------------------
(* Export.                                                                 *)

\* Into a new workspace, which nothing else writes to.
ExportBegin ==
    /\ export = "idle"
    /\ export' = "create"
    /\ UNCHANGED <<health, file, attempt, repaired, todo, fixed, cause, verdict>>

Give(up, why) ==
    /\ export' = up /\ cause' = why

\* The dump program is missing, the run is cancelled, or the file cannot be
\* created.
CreateFails(why) ==
    /\ export = "create"
    /\ Give("failed", why)
    /\ UNCHANGED <<health, file, attempt, repaired, todo, fixed, verdict>>

\* O_EXCL: a file that a failed attempt could not remove ends the export.
CreateFile ==
    /\ export = "create" /\ file = "absent"
    /\ file' = "partial" /\ export' = "dump"
    /\ UNCHANGED <<health, attempt, repaired, todo, fixed, cause, verdict>>

FileInTheWay == file # "absent" /\ CreateFails("other")

\* Repair once, wait for what may pass, or give up.
AfterFailedDump(why) ==
    LET repairs == why = "corruption" /\ AutoRepair /\ ~repaired
        retries == why = "transient" /\ attempt < Retries
    IN  \/ repairs /\ Give("check", why) /\ repaired' = TRUE
        \/ retries /\ Give("wait", why) /\ UNCHANGED repaired
        \/ ~repairs /\ ~retries /\ Give("failed", why) /\ UNCHANGED repaired

\* The dump program fails; what it wrote is removed, unless that fails too.
\* What may pass is never taken for corruption.
DumpFails(why) ==
    /\ export = "dump"
    /\ why = "corruption" => \E t \in Table : health[t] = "corrupt"
    /\ file' \in {"absent", "partial"}
    /\ AfterFailedDump(why)
    /\ UNCHANGED <<health, attempt, todo, fixed, verdict>>

Dump ==
    /\ export = "dump"
    /\ \A t \in Table : health[t] # "corrupt"
    /\ export' = "close"
    /\ UNCHANGED <<health, file, attempt, repaired, todo, fixed, cause, verdict>>

\* (Mutant of CloseFails: the file stays.)
CloseFailsKeepsFile ==
    /\ export = "close"
    /\ file' = "whole"
    /\ Give("failed", "other")
    /\ UNCHANGED <<health, attempt, repaired, todo, fixed, verdict>>

\* The compressed file cannot be finished, synced or closed.
CloseFails ==
    /\ export = "close"
    /\ file' \in {"absent", "partial"}
    /\ Give("failed", "other")
    /\ UNCHANGED <<health, attempt, repaired, todo, fixed, verdict>>

\* The package, with a warning for each repaired table.
CloseFile ==
    /\ export = "close"
    /\ file' = "whole" /\ Give("done", "none")
    /\ UNCHANGED <<health, attempt, repaired, todo, fixed, verdict>>

RetryDump ==
    /\ export = "wait"
    /\ export' = "create" /\ attempt' = attempt + 1
    /\ UNCHANGED <<health, file, repaired, todo, fixed, cause, verdict>>

CancelWait ==
    /\ export = "wait"
    /\ Give("failed", "cancelled")
    /\ UNCHANGED <<health, file, attempt, repaired, todo, fixed, verdict>>

-----------------------------------------------------------------------------
(* Maintenance.                                                            *)

Unhealthy == {t \in Table : health[t] # "ok"}

\* (Mutant of CheckTables: what can be repaired is repaired.)
CheckTablesPartly ==
    /\ export = "check"
    /\ verdict' = Unhealthy
    /\ todo' = Unhealthy \cap Repairable
    /\ IF todo' = {} THEN Give("failed", "corruption")
                     ELSE export' = "repair" /\ UNCHANGED cause
    /\ UNCHANGED <<health, file, attempt, repaired, fixed>>

\* RepairCorruptTables: every table is checked first, and when one that is
\* unhealthy cannot be repaired none is.
CheckTables ==
    /\ export = "check"
    /\ verdict' = Unhealthy
    /\ IF Unhealthy # {} /\ Unhealthy \subseteq Repairable
       THEN todo' = Unhealthy /\ export' = "repair" /\ UNCHANGED cause
       ELSE Give("failed", "corruption") /\ UNCHANGED todo
    /\ UNCHANGED <<health, file, attempt, repaired, fixed>>

MaintenanceFails(why) ==
    /\ export \in {"check", "repair"}
    /\ Give("failed", why)
    /\ UNCHANGED <<health, file, attempt, repaired, todo, fixed, verdict>>

\* REPAIR TABLE, one table after the other; the dump after the last is an
\* attempt too.  (A table with several rows is repaired once for each.)
RepairTable(t) ==
    /\ export = "repair" /\ t \in todo
    /\ health' = [health EXCEPT ![t] = "ok"]
    /\ todo' = todo \ {t} /\ fixed' = fixed \cup {t}
    /\ IF todo' = {} THEN export' = "create" /\ attempt' = attempt + 1
                     ELSE UNCHANGED <<export, attempt>>
    /\ UNCHANGED <<file, repaired, cause, verdict>>

\* Only the first row counts: a repair that warns before it says OK repaired
\* the table and fails the export.
RepairFails(t) ==
    /\ export = "repair" /\ t \in todo
    /\ health' \in {health, [health EXCEPT ![t] = "ok"]}
    /\ Give("failed", "corruption")
    /\ UNCHANGED <<file, attempt, repaired, todo, fixed, verdict>>

\* `database repair --force` of one table, or what its engine needs instead,
\* beside anything.
OperatorRepairs(t) ==
    /\ health[t] # "ok"
    /\ health' = [health EXCEPT ![t] = "ok"]
    /\ UNCHANGED <<file, export, attempt, repaired, todo, fixed, cause, verdict>>

\* A crash of the server or its disk.
DamageTable(t) ==
    /\ health' \in {[health EXCEPT ![t] = h] : h \in {"marked", "corrupt"}}
    /\ health' # health
    /\ UNCHANGED <<file, export, attempt, repaired, todo, fixed, cause, verdict>>

ExportSteps ==
    \/ CreateFile \/ FileInTheWay \/ Dump \/ CloseFile \/ RetryDump \/ CheckTables
    \/ \E t \in Table : RepairTable(t)

\* What only happens when something goes wrong.
ExportFaults ==
    \/ \E why \in {"other", "cancelled"} : CreateFails(why)
    \/ \E why \in {"transient", "other", "cancelled"} : DumpFails(why)
    \/ CloseFails \/ CancelWait
    \/ \E why \in {"corruption", "cancelled"} : MaintenanceFails(why)
    \/ \E t \in Table : RepairFails(t)

\* A corrupt table fails the dump by itself.
DumpMeetsDamage == DumpFails("corruption")

\* What belongs to one call of Export is gone, and its workspace is of no use.
ExportOver ==
    /\ export' = "idle" /\ file' = "absent"
    /\ attempt' = 0 /\ repaired' = FALSE
    /\ todo' = {} /\ fixed' = {} /\ cause' = "none" /\ verdict' = {}
    /\ UNCHANGED health

\* The run goes on.
ExportEnd == export \in {"done", "failed"} /\ ExportOver

ExportNext ==
    \/ ExportBegin \/ ExportSteps \/ ExportFaults \/ DumpMeetsDamage
    \/ ExportEnd \/ ExportOver    \* the latter when the process dies
    \/ \E t \in Table : OperatorRepairs(t) \/ DamageTable(t)

ExportSpec == ExportInit /\ [][ExportNext]_exportVars

-----------------------------------------------------------------------------
(* Properties.                                                             *)

\* A package is a whole dump and names every table its export repaired; an
\* export that fails leaves no whole file behind, and the delay it waits
\* exists.  At most four dumps are tried, however repairs and retries follow
\* each other.
PackagesAreWhole ==
    /\ export = "done" => file = "whole" /\ fixed = verdict
    /\ export \in Working \cup {"failed"} => file # "whole"
    /\ export = "wait" => attempt < Retries
    /\ attempt <= Retries + 1

\* "repairs only unhealthy MyISAM/Aria tables": tables are repaired only when
\* the source asks for it, after a dump reported corruption, when the check
\* found no unhealthy table that cannot be repaired, and only those the check
\* found, once.
RepairsAreJustified ==
    /\ export = "check" \/ verdict # {} => AutoRepair /\ repaired
    /\ export = "check" => cause = "corruption" /\ verdict = {}
    /\ todo # {} \/ fixed # {} =>
         /\ verdict \subseteq Repairable
         /\ todo \cup fixed = verdict /\ todo \cap fixed = {}
=============================================================================
