------------------------------- MODULE Reports -------------------------------
(***************************************************************************)
(* Reports on the runs of a day or a month: Builder aggregates the rows    *)
(* that started in the period, and Dispatcher sends the result to the      *)
(* channels of a route unless the period is recorded as delivered, and     *)
(* records it when every channel accepted it.  Commands may overlap, fail  *)
(* and die anywhere.                                                       *)
(*                                                                         *)
(* Time is counted in ticks, a whole number of which makes a day; a month  *)
(* has the same number of days.                                            *)
(***************************************************************************)
EXTENDS Integers, FiniteSets, FiniteSetsExt, Sequences

CONSTANTS
    Sender,         \* processes that run `report send`
    DayLength,      \* ticks in a day
    MonthLength,    \* days in a month
    Offset,         \* ticks the reports' timezone is ahead of UTC
    IncludeEmpty    \* include_empty_days

ASSUME ReportsAssumption ==
    /\ DayLength \in Nat \ {0} /\ MonthLength \in Nat \ {0}
    /\ Offset \in Int
    /\ IncludeEmpty \in BOOLEAN

VARIABLES
    rows,           \* backup_runs, oldest first
    recorded,       \* report_deliveries: <<kind, period>>
    job,            \* job[p]: the command p runs, or NoJob
    mailbox         \* (auxiliary) the last report a channel accepted

reportVars == <<rows, recorded, job, mailbox>>

Kind == {"daily", "monthly"}
Outcome == {"success", "no_change", "partial", "failed", "cancelled"}
NoJob == [step |-> "none"]
NoReport == [kind |-> "none"]

ReportsInit ==
    /\ rows = <<>>
    /\ recorded = {}
    /\ job = [p \in Sender |-> NoJob]
    /\ mailbox = NoReport

-----------------------------------------------------------------------------
(* History.                                                                *)

CreateRun(scope, now) ==
    rows' = Append(rows, [at |-> now, scope |-> scope, status |-> "running"])

FinishRun(i, status) == rows' = [rows EXCEPT ![i].status = status]

\* (Mutant of RunsInRange: the end is included.)
RunsUntil(from, to) == {i \in DOMAIN rows : from <= rows[i].at /\ rows[i].at <= to}

\* ListRunsInRange: [from, to).
RunsInRange(from, to) == {i \in DOMAIN rows : from <= rows[i].at /\ rows[i].at < to}

-----------------------------------------------------------------------------
(* Building.                                                               *)

\* The local day and month of an instant.
Day(at) == (at + Offset) \div DayLength
Month(at) == Day(at) \div MonthLength
DayStart(d) == d * DayLength - Offset
MonthStart(m) == DayStart(m * MonthLength)

\* aggregatePeriod.  A run that is still running counts, but as nothing.
Tally(runs) ==
    [total |-> Cardinality(runs),
     by |-> [o \in Outcome |-> Cardinality({i \in runs : rows[i].status = o})]]

\* unwritten: (auxiliary) the dates of the runs that have none in the history yet.
DailyReport(t, now, unwritten) ==
    LET d == Day(t)
    IN  [kind |-> "daily", period |-> d, built |-> now, unwritten |-> unwritten,
         overall |-> Tally(RunsInRange(DayStart(d), DayStart(d) + DayLength))]

\* The days of the month that had runs, or all of them.
MonthlyReport(t, now, unwritten) ==
    LET m == Month(t)
        runs == RunsInRange(MonthStart(m), MonthStart(m + 1))
        of(d) == {i \in runs : Day(rows[i].at) = d}
        days == {d \in m * MonthLength .. (m + 1) * MonthLength - 1 :
                    IncludeEmpty \/ of(d) # {}}
    IN  [kind |-> "monthly", period |-> m, built |-> now, unwritten |-> unwritten,
         overall |-> Tally(runs), days |-> [d \in days |-> Tally(of(d))]]

\* t is the time of the command, or midnight UTC of the date it is given.
ReportBuild(p, kind, t, now, unwritten) ==
    /\ job[p] = NoJob
    /\ job' = [job EXCEPT ![p] =
                 [step |-> "check", failed |-> FALSE, todo |-> {}, got |-> {},
                  report |-> IF kind = "daily" THEN DailyReport(t, now, unwritten)
                                               ELSE MonthlyReport(t, now, unwritten)]]
    /\ UNCHANGED <<rows, recorded, mailbox>>

-----------------------------------------------------------------------------
(* Sending.                                                                *)

Period(p) == <<job[p].report.kind, job[p].report.period>>

\* ReportDelivered.  A route without channels is an error.
ReportCheck(p, channels) ==
    /\ job[p].step = "check"
    /\ job' = [job EXCEPT ![p] =
                 IF Period(p) \in recorded \/ channels = {} THEN NoJob
                 ELSE [@ EXCEPT !.step = "send", !.todo = channels]]
    /\ UNCHANGED <<rows, recorded, mailbox>>

ReportSend(p, c) ==
    /\ job[p].step = "send" /\ c \in job[p].todo
    /\ mailbox' = job[p].report
    /\ job' = [job EXCEPT ![p].todo = @ \ {c}, ![p].got = @ \cup {c}]
    /\ UNCHANGED <<rows, recorded>>

\* The other channels are tried all the same.
ReportSendFails(p, c) ==
    /\ job[p].step = "send" /\ c \in job[p].todo
    /\ job' = [job EXCEPT ![p].todo = @ \ {c}, ![p].failed = TRUE]
    /\ UNCHANGED <<rows, recorded, mailbox>>

\* (Mutant of ReportRecord: one channel is enough.)
ReportRecordAnyway(p) ==
    /\ job[p].step = "send" /\ job[p].todo = {}
    /\ recorded' = recorded \cup {Period(p)}
    /\ job' = [job EXCEPT ![p] = NoJob]
    /\ UNCHANGED <<rows, mailbox>>

\* RecordDelivery, which a second record of the period leaves alone.
ReportRecord(p) ==
    /\ job[p].step = "send" /\ job[p].todo = {}
    /\ recorded' = IF job[p].failed THEN recorded ELSE recorded \cup {Period(p)}
    /\ job' = [job EXCEPT ![p] = NoJob]
    /\ UNCHANGED <<rows, mailbox>>

\* The command dies, or the database cannot be read or written.
ReportDies(p) ==
    /\ job[p] # NoJob
    /\ job' = [job EXCEPT ![p] = NoJob]
    /\ UNCHANGED <<rows, recorded, mailbox>>

-----------------------------------------------------------------------------
(* Properties.                                                             *)

\* A period is recorded, and so not sent again, only by a command that every
\* channel of the route accepted its report from.
RecordsDelivery(route) ==
    \A r \in recorded' \ recorded :
        \E p \in Sender :
            job[p] # NoJob /\ Period(p) = r /\ route[r[1]] \subseteq job[p].got

\* What belongs to a report, by its own date.
Covers(r, at) == IF r.kind = "daily" THEN Day(at) = r.period ELSE Month(at) = r.period
Belonging(r) == {i \in DOMAIN rows : Covers(r, rows[i].at)}

Over(r) ==
    IF r.kind = "daily" THEN r.period < Day(r.built) ELSE r.period < Month(r.built)

\* The runs of its period that had a date, and no row, when it was built.
LateFor(r) == {at \in r.unwritten : Covers(r, at)}

\* A report counts runs that started in its period, and if that is over, all of
\* them but those that had read the clock and were not in the history when it was
\* built; and it gives no run an outcome that it did not get.
Truthful(r) ==
    LET final == Tally(Belonging(r))
    IN  /\ r.overall.total <= final.total
        /\ Over(r) => final.total <= r.overall.total + Cardinality(LateFor(r))
        /\ \A o \in Outcome : r.overall.by[o] <= final.by[o]

\* The days of a month add up to the month.
AddsUp(r) ==
    r.kind = "monthly" =>
        r.overall.total = MapThenSumSet(LAMBDA d : r.days[d].total, DOMAIN r.days)

\* What a channel was told of a period is true for good, however runs and reports
\* overlap.
ReportsAreTrue == mailbox # NoReport => Truthful(mailbox) /\ AddsUp(mailbox)
=============================================================================
